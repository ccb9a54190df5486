-------------------------- MODULE CommerceProofs --------------------------
(***************************************************************************)
(* That the Free quota, the payment orders and the Premium entitlements    *)
(* keep to the properties of Commerce, for every number of clients,        *)
(* downloads and orders, every limit and period that Settings accepts, and *)
(* every lag between a handler's clock read and its use.                   *)
(*                                                                         *)
(* The invariant pairs a job with its quota entry (PairOK: who may be in   *)
(* which state while the other is in which), and an order with its         *)
(* entitlement.  That a client never holds more reservations than its      *)
(* limit is carried by the invariant itself: an admission compares the     *)
(* limit with what was held at an older clock, and that is never less than *)
(* what is held now.                                                       *)
(***************************************************************************)
EXTENDS Commerce, FiniteSetTheorems, WellFoundedInduction, TLAPS

-----------------------------------------------------------------------------
(* The inductive invariant *)

\* A job and its quota entry, whatever the rest of the database holds.
PairOK(j, e) ==
    /\ j = Absent => e = Absent
    /\ j # Absent =>
         /\ j.lease => j.state = "ready" /\ j.tier = "free"
         /\ j.covered => j.state \in {"ready", "expired"}
    /\ j # Absent /\ e # Absent =>
         /\ e.state = "reserved" => e.expires = j.expires
         /\ e.state = "consumed" => j.covered
         /\ j.covered => e.state \in {"reserved", "consumed"}
         /\ j.state = "expired" => e.state # "reserved"
         /\ j.state \in {"queued", "ready"} /\ j.tier = "free" => e.state \in {"reserved", "consumed"}
         /\ j.tier = "premium" => e.state = "released" \/ (e.state = "consumed" /\ j.covered)

\* The rows of both tables, and the order a callback or an entitlement goes with.
RowTypes ==
    /\ dbNow \in 0..LastTick
    /\ clients \in [Clients -> Nat \cup {NoOne}]
    /\ cookie \in Clients \cup {NoOne}
    /\ jobs \in [Downloads -> {Absent} \cup Jobs]
    /\ entries \in [Downloads -> {Absent} \cup Entries]
    /\ orders \in [Orders -> {Absent} \cup PaymentOrders]
    /\ entitlements \in [Orders -> {NoOne} \cup Premiums]
    /\ callbacks \in [Orders -> 0..2]

PairsOK == \A d \in Downloads : PairOK(jobs[d], entries[d])

\* The tier was given while an entitlement of the job's owner was active.
Entitled(j) ==
    \E o \in Orders :
        /\ entitlements[o] # NoOne /\ entitlements[o].client = j.owner
        /\ entitlements[o].starts <= j.since /\ j.since < entitlements[o].expires

\* An entry that status_locked counts as a live reservation at t.
HoldsSlot(j, e, t) == e # Absent /\ e.state = "reserved" /\ (e.expires > t \/ j.lease)

Booked == {d \in Downloads : entries[d] # Absent}

CommerceInv ==
    /\ RowTypes
    /\ PairsOK
    /\ PaymentBuysOneEntitlement
    /\ PremiumWasPaidFor
    /\ IsFiniteSet(Booked)
    /\ ReservationsWithinLimit

-----------------------------------------------------------------------------
(* Rows *)

\* No row is the missing row.
LEMMA AbsentIsNone == Absent \notin Jobs /\ Absent \notin Entries /\ Absent \notin PaymentOrders
<1>1. \A x \in Jobs \cup Entries \cup PaymentOrders : x.state # "absent"
    BY DEF Jobs, Entries, PaymentOrders
<1>2. Absent.state = "absent"
    BY DEF Absent
<1> QED BY <1>1, <1>2

\* The rows of a download that are there have the columns of their tables.
LEMMA RowOf ==
    ASSUME RowTypes, NEW d \in Downloads
    PROVE  /\ jobs[d] \in {Absent} \cup Jobs /\ (jobs[d] # Absent => jobs[d] \in Jobs)
           /\ entries[d] \in {Absent} \cup Entries /\ (entries[d] # Absent => entries[d] \in Entries)
BY DEF RowTypes

\* The window an order buys is a row of premium_entitlements.
LEMMA WindowIsSomeone ==
    ASSUME RowTypes, NEW o \in Orders, orders[o] # Absent, NEW t \in Nat
    PROVE  PaidWindow(o, t) \in Premiums /\ PaidWindow(o, t) # NoOne
<1>1. orders[o] \in PaymentOrders /\ Duration \in Nat
    BY CommerceAssumption DEF RowTypes
<1>2. orders[o].client \in Clients /\ t + Duration \in Nat
    BY <1>1 DEF PaymentOrders
<1>3. PaidWindow(o, t) \in Premiums
    BY <1>2 DEF PaidWindow, Premiums
<1> QED BY <1>3, CommerceAssumption DEF Premiums

\* consume_locked, release_locked and expire_locked change a reserved entry only.
LEMMA SettleIs ==
    ASSUME RowTypes, NEW d \in Downloads, NEW s \in {"consumed", "released", "expired"}, NEW t \in Nat
    PROVE  /\ Settle(d, s, t) \in {Absent} \cup Entries
           /\ entries[d] = Absent => Settle(d, s, t) = Absent
           /\ entries[d] # Absent =>
                /\ Settle(d, s, t) # Absent
                /\ Settle(d, s, t).client = entries[d].client
                /\ Settle(d, s, t).state # "reserved"
           /\ entries[d] # Absent /\ entries[d].state = "reserved" => Settle(d, s, t).state = s
           /\ entries[d] # Absent /\ entries[d].state # "reserved" => Settle(d, s, t) = entries[d]
<1>1. CASE entries[d] = Absent
    BY <1>1 DEF Settle
<1>2. CASE entries[d] # Absent /\ entries[d].state # "reserved"
    BY <1>2, RowOf DEF Settle
<1>3. CASE entries[d] # Absent /\ entries[d].state = "reserved"
  <2>1. entries[d] \in Entries
      BY <1>3, RowOf
  <2>2. Settle(d, s, t) = [entries[d] EXCEPT !.state = s, !.at = t]
      BY <1>3 DEF Settle
  <2>3. Settle(d, s, t) \in Entries /\ Settle(d, s, t).state = s /\ Settle(d, s, t).client = entries[d].client
      BY <2>1, <2>2 DEF Entries
  <2> QED BY <1>3, <2>3, AbsentIsNone
<1> QED BY <1>1, <1>2, <1>3

\* The live reservations of a client, by what a job and its entry hold.
LEMMA ReservedIs ==
    ASSUME NEW c, NEW t
    PROVE  Reserved(c, t) = {d \in Downloads : HoldsSlot(jobs[d], entries[d], t) /\ entries[d].client = c}
BY DEF Reserved, EntriesOf, HoldsSlot

\* What the invariant says of a state.
LEMMA CommerceFollows ==
    CommerceInv => CommerceTypeOK /\ PremiumIsPaidFor /\ SlotFollowsTheDownload /\ ReservationsWithinLimit
<1> SUFFICES ASSUME CommerceInv
             PROVE  CommerceTypeOK /\ PremiumIsPaidFor /\ SlotFollowsTheDownload /\ ReservationsWithinLimit
    OBVIOUS
<1>1. CommerceTypeOK
    BY DEF CommerceInv, RowTypes, CommerceTypeOK
<1>2. PremiumIsPaidFor
    BY DEF CommerceInv, PremiumIsPaidFor
<1>3. SlotFollowsTheDownload
  <2>1. ASSUME NEW d \in Downloads, jobs[d] # Absent, entries[d] # Absent
        PROVE  /\ jobs[d].tier = "premium" =>
                    \/ entries[d].state = "released"
                    \/ entries[d].state = "consumed" /\ jobs[d].covered
               /\ jobs[d].covered => entries[d].state \in {"reserved", "consumed"}
               /\ jobs[d].state = "ready" /\ jobs[d].tier = "free" => entries[d].state \in {"reserved", "consumed"}
      BY <2>1 DEF CommerceInv, PairsOK, PairOK
  <2> QED BY <2>1 DEF SlotFollowsTheDownload, PremiumHoldsNoSlot, FullDeliveryIsKept, ReadyFreeKeepsItsSlot
<1> QED BY <1>1, <1>2, <1>3 DEF CommerceInv

-----------------------------------------------------------------------------
(* What keeps it *)

\* The empty database, and one with an order from before the entitlements, satisfy it.
LEMMA CommerceStarts == CommerceInit => CommerceInv
<1> SUFFICES ASSUME CommerceInit PROVE CommerceInv
    OBVIOUS
<1>1. ASSUME NEW c \in Clients PROVE LegacyOrder(c) \in PaymentOrders
  <2>1. OrderTTL \in Nat
      BY CommerceAssumption
  <2> QED BY <2>1 DEF LegacyOrder, PaymentOrders
<1>2. orders \in [Orders -> {Absent} \cup PaymentOrders]
    BY <1>1 DEF CommerceInit
<1>3. clients \in [Clients -> Nat \cup {NoOne}] /\ cookie \in Clients \cup {NoOne}
    BY CommerceAssumption DEF CommerceInit
<1>4. RowTypes
    BY <1>2, <1>3, CommerceAssumption DEF CommerceInit, RowTypes
<1>5. PairsOK /\ PremiumWasPaidFor
    BY DEF CommerceInit, PairsOK, PairOK, PremiumWasPaidFor
<1>6. PaymentBuysOneEntitlement
  <2>1. ASSUME NEW o \in Orders, orders[o] # Absent PROVE orders[o].legacy
      BY <2>1 DEF CommerceInit, LegacyOrder
  <2>2. \A o \in Orders : entitlements[o] = NoOne
      BY DEF CommerceInit
  <2> QED BY <2>1, <2>2 DEF PaymentBuysOneEntitlement
<1>7. Booked = {} /\ \A c \in Clients : Reserved(c, dbNow) = {}
    BY DEF CommerceInit, Booked, Reserved, EntriesOf
<1>8. IsFiniteSet(Booked) /\ ReservationsWithinLimit
  <2>1. IsFiniteSet({}) /\ Cardinality({}) = 0
      BY FS_EmptySet
  <2> QED BY <1>7, <2>1, CommerceAssumption DEF ReservationsWithinLimit
<1> QED BY <1>4, <1>5, <1>6, <1>8 DEF CommerceInv

\* A step that takes no reservation: what a client holds afterwards it held before.
LEMMA FewerReservations ==
    ASSUME CommerceInv,
           Booked' \subseteq Booked,
           \A d \in Downloads : HoldsSlot(jobs[d], entries[d], dbNow)' =>
                HoldsSlot(jobs[d], entries[d], dbNow) /\ entries'[d].client = entries[d].client
    PROVE  IsFiniteSet(Booked') /\ ReservationsWithinLimit'
<1>1. IsFiniteSet(Booked')
    BY FS_Subset DEF CommerceInv
<1>2. ASSUME NEW c \in Clients PROVE Cardinality(Reserved(c, dbNow)') <= Limit
  <2> DEFINE after == Reserved(c, dbNow)'
             before == Reserved(c, dbNow)
  <2>1. after \subseteq before
      BY ReservedIs DEF HoldsSlot, Reserved, EntriesOf
  <2>2. before \subseteq Booked
      BY DEF Reserved, EntriesOf, Booked
  <2>3. IsFiniteSet(before) /\ Cardinality(before) <= Limit
      BY <2>2, FS_Subset DEF CommerceInv, ReservationsWithinLimit
  <2> HIDE DEF after, before
  <2>4. IsFiniteSet(after) /\ Cardinality(after) <= Cardinality(before)
      BY <2>1, <2>3, FS_Subset
  <2>5. Cardinality(after) \in Nat /\ Cardinality(before) \in Nat /\ Limit \in Nat
      BY <2>3, <2>4, FS_CardinalityType, CommerceAssumption
  <2>6. Cardinality(after) <= Limit
      BY <2>3, <2>4, <2>5
  <2> QED BY <2>6 DEF after
<1> QED BY <1>1, <1>2 DEF ReservationsWithinLimit

\* A step on jobs, entries and identities that takes no reservation.
LEMMA QuotaStep ==
    ASSUME CommerceInv, RowTypes', UNCHANGED <<orders, entitlements>>,
           dbNow' \in Nat, dbNow <= dbNow',
           \A d \in Downloads : PairOK(jobs'[d], entries'[d]),
           \A d \in Downloads : jobs'[d] # Absent /\ jobs'[d].tier = "premium" => Entitled(jobs'[d]),
           \A d \in Downloads : entries'[d] # Absent => entries[d] # Absent,
           \A d \in Downloads : HoldsSlot(jobs'[d], entries'[d], dbNow') =>
                HoldsSlot(jobs[d], entries[d], dbNow) /\ entries'[d].client = entries[d].client
    PROVE  CommerceInv'
<1>1. PairsOK'
    BY DEF PairsOK
<1>2. PaymentBuysOneEntitlement'
    BY DEF CommerceInv, PaymentBuysOneEntitlement
<1>3. PremiumWasPaidFor'
    BY DEF PremiumWasPaidFor, Entitled
<1>4. Booked' \subseteq Booked
    BY DEF Booked
<1>5. \A d \in Downloads : HoldsSlot(jobs[d], entries[d], dbNow)' =>
                HoldsSlot(jobs[d], entries[d], dbNow) /\ entries'[d].client = entries[d].client
    BY DEF HoldsSlot
<1>6. IsFiniteSet(Booked') /\ ReservationsWithinLimit'
    BY <1>4, <1>5, FewerReservations
<1> QED BY <1>1, <1>2, <1>3, <1>6 DEF CommerceInv

\* A step on one job and its entry.
LEMMA JobStep ==
    ASSUME CommerceInv, NEW d \in Downloads, NEW j \in Jobs, NEW e \in {Absent} \cup Entries,
           jobs[d] # Absent,
           jobs' = [jobs EXCEPT ![d] = j], entries' = [entries EXCEPT ![d] = e],
           UNCHANGED <<dbNow, clients, cookie, orders, entitlements, callbacks>>,
           PairOK(j, e),
           j.tier = "premium" => Entitled(j),
           e # Absent => entries[d] # Absent,
           HoldsSlot(j, e, dbNow) => HoldsSlot(jobs[d], entries[d], dbNow) /\ e.client = entries[d].client
    PROVE  CommerceInv'
<1>1. RowTypes'
    BY DEF CommerceInv, RowTypes
<1>2. jobs'[d] = j /\ entries'[d] = e
    BY DEF CommerceInv, RowTypes
<1>3. ASSUME NEW x \in Downloads, x # d PROVE jobs'[x] = jobs[x] /\ entries'[x] = entries[x]
    BY <1>3 DEF CommerceInv, RowTypes
<1>4. dbNow' \in Nat /\ dbNow <= dbNow' /\ dbNow' = dbNow
    BY DEF CommerceInv, RowTypes
<1>5. \A x \in Downloads : PairOK(jobs'[x], entries'[x])
    BY <1>2, <1>3 DEF CommerceInv, PairsOK
<1>6. ASSUME NEW x \in Downloads, jobs'[x] # Absent, jobs'[x].tier = "premium" PROVE Entitled(jobs'[x])
    BY <1>2, <1>3, <1>6 DEF CommerceInv, PremiumWasPaidFor, Entitled
<1>7. \A x \in Downloads : entries'[x] # Absent => entries[x] # Absent
    BY <1>2, <1>3
<1>8. \A x \in Downloads : HoldsSlot(jobs'[x], entries'[x], dbNow') =>
                HoldsSlot(jobs[x], entries[x], dbNow) /\ entries'[x].client = entries[x].client
    BY <1>2, <1>3, <1>4
<1> QED BY <1>1, <1>4, <1>5, <1>6, <1>7, <1>8, QuotaStep

\* A job keeps its tier, and with it the entitlement the tier was given for.
LEMMA StillEntitled ==
    ASSUME CommerceInv, NEW d \in Downloads, jobs[d] # Absent, NEW j,
           j.tier = jobs[d].tier, j.owner = jobs[d].owner, j.since = jobs[d].since
    PROVE  j.tier = "premium" => Entitled(j)
BY DEF CommerceInv, PremiumWasPaidFor, Entitled

\* A job that is there, with its entry.
LEMMA JobOf ==
    ASSUME CommerceInv, NEW d \in Downloads, jobs[d] # Absent
    PROVE  jobs[d] \in Jobs /\ PairOK(jobs[d], entries[d]) /\ entries[d] \in {Absent} \cup Entries /\ dbNow \in Nat
BY RowOf DEF CommerceInv, PairsOK, RowTypes

\* The clock: reservations lapse, none comes back.
LEMMA TimePassesKeeps == ASSUME CommerceInv, TimePasses PROVE CommerceInv'
<1>1. RowTypes' /\ dbNow' \in Nat /\ dbNow \in Nat /\ dbNow <= dbNow'
    BY CommerceAssumption DEF TimePasses, quotaVars, paymentVars, CommerceInv, RowTypes
<1>2. UNCHANGED <<orders, entitlements, jobs, entries>>
    BY DEF TimePasses, quotaVars, paymentVars
<1>3. ASSUME NEW d \in Downloads, HoldsSlot(jobs[d], entries[d], dbNow') PROVE HoldsSlot(jobs[d], entries[d], dbNow)
  <2>1. entries[d].expires \in Nat
      BY <1>3, RowOf DEF CommerceInv, HoldsSlot, Entries
  <2> QED BY <1>1, <1>3, <2>1 DEF HoldsSlot
<1>4. \A d \in Downloads : jobs[d] # Absent /\ jobs[d].tier = "premium" => Entitled(jobs[d])
    BY StillEntitled
<1> QED BY <1>1, <1>2, <1>3, <1>4, QuotaStep DEF CommerceInv, PairsOK

\* A new identity owns nothing.
LEMMA BootstrapIdentityKeeps == ASSUME CommerceInv, NEW c \in Clients, BootstrapIdentity(c) PROVE CommerceInv'
<1>1. dbNow + ClientTTL \in Nat /\ dbNow \in Nat
    BY CommerceAssumption DEF CommerceInv, RowTypes
<1>2. UNCHANGED <<dbNow, orders, entitlements, jobs, entries>>
    BY DEF BootstrapIdentity, quotaVars, paymentVars
<1>3. RowTypes'
    BY <1>1 DEF BootstrapIdentity, quotaVars, paymentVars, CommerceInv, RowTypes
<1>4. \A d \in Downloads : jobs[d] # Absent /\ jobs[d].tier = "premium" => Entitled(jobs[d])
    BY StillEntitled
<1> QED BY <1>1, <1>2, <1>3, <1>4, QuotaStep DEF CommerceInv, PairsOK

\* complete_ready keeps the reservation, fail_permanent releases it.
LEMMA WorkerFinishesKeeps ==
    ASSUME CommerceInv, NEW d \in Downloads, NEW outcome \in {"ready", "failed"}, WorkerFinishes(d, outcome)
    PROVE  CommerceInv'
<1> DEFINE j == [jobs[d] EXCEPT !.state = outcome]
           e == IF outcome = "failed" THEN Settle(d, "released", dbNow) ELSE entries[d]
<1>1. jobs[d] # Absent /\ jobs[d].state = "queued"
    BY DEF WorkerFinishes
<1>2. jobs[d] \in Jobs /\ PairOK(jobs[d], entries[d]) /\ dbNow \in Nat /\ entries[d] \in {Absent} \cup Entries
    BY <1>1, JobOf
<1>3. /\ j \in Jobs /\ j.state = outcome
      /\ j.tier = jobs[d].tier /\ j.owner = jobs[d].owner /\ j.since = jobs[d].since /\ j.expires = jobs[d].expires
      /\ j.lease = jobs[d].lease /\ j.covered = jobs[d].covered
    BY <1>2 DEF Jobs
<1>4. /\ e \in {Absent} \cup Entries /\ (entries[d] = Absent => e = Absent)
      /\ outcome = "ready" => e = entries[d]
      /\ outcome = "failed" /\ e # Absent => e.state # "reserved" /\ (entries[d].state = "reserved" => e.state = "released")
            /\ (entries[d].state # "reserved" => e = entries[d])
    BY <1>2, SettleIs DEF CommerceInv
<1>5. jobs' = [jobs EXCEPT ![d] = j]
    BY DEF WorkerFinishes
<1>6. entries' = [entries EXCEPT ![d] = e]
    BY DEF WorkerFinishes, CommerceInv, RowTypes
<1> HIDE DEF j, e
<1>7. j # Absent
    BY <1>3, AbsentIsNone
<1>8. PairOK(j, e)
    BY <1>1, <1>2, <1>3, <1>4, <1>7 DEF PairOK
<1>9. HoldsSlot(j, e, dbNow) => HoldsSlot(jobs[d], entries[d], dbNow) /\ e.client = entries[d].client
    BY <1>3, <1>4 DEF HoldsSlot
<1>10. j.tier = "premium" => Entitled(j)
    BY <1>1, <1>3, StillEntitled
<1> QED BY <1>1, <1>3, <1>4, <1>5, <1>6, <1>8, <1>9, <1>10, JobStep DEF WorkerFinishes, paymentVars

\* A lease on an unexpired artifact: its reservation has not lapsed either, so none is revived.
LEMMA DeliveryBeginsKeeps == ASSUME CommerceInv, NEW d \in Downloads, DeliveryBegins(d) PROVE CommerceInv'
<1> DEFINE j == [jobs[d] EXCEPT !.lease = TRUE]
<1>1. jobs[d] # Absent /\ jobs[d].state = "ready" /\ dbNow < jobs[d].expires /\ jobs[d].tier = "free"
    BY DEF DeliveryBegins
<1>2. jobs[d] \in Jobs /\ PairOK(jobs[d], entries[d]) /\ dbNow \in Nat /\ entries[d] \in {Absent} \cup Entries
    BY <1>1, JobOf
<1>3. /\ j \in Jobs /\ j.state = jobs[d].state
      /\ j.tier = jobs[d].tier /\ j.owner = jobs[d].owner /\ j.since = jobs[d].since /\ j.expires = jobs[d].expires
      /\ j.covered = jobs[d].covered
    BY <1>2 DEF Jobs
<1>4. jobs' = [jobs EXCEPT ![d] = j] /\ entries' = [entries EXCEPT ![d] = entries[d]]
    BY DEF DeliveryBegins, CommerceInv, RowTypes
<1> HIDE DEF j
<1>5. j # Absent
    BY <1>3, AbsentIsNone
<1>6. PairOK(j, entries[d])
    BY <1>1, <1>2, <1>3, <1>5 DEF PairOK
<1>7. HoldsSlot(j, entries[d], dbNow) => HoldsSlot(jobs[d], entries[d], dbNow)
    BY <1>1, <1>2 DEF HoldsSlot, PairOK
<1>8. j.tier = "premium" => Entitled(j)
    BY <1>1, <1>3, StillEntitled
<1> QED BY <1>1, <1>2, <1>3, <1>4, <1>6, <1>7, <1>8, JobStep DEF DeliveryBegins, paymentVars

\* The last byte of a running delivery, whose slot is still held or charged.
LEMMA DeliveryCoversKeeps == ASSUME CommerceInv, NEW d \in Downloads, DeliveryCovers(d) PROVE CommerceInv'
<1> DEFINE j == [jobs[d] EXCEPT !.covered = TRUE]
<1>1. jobs[d] # Absent /\ jobs[d].lease
    BY DEF DeliveryCovers
<1>2. jobs[d] \in Jobs /\ PairOK(jobs[d], entries[d]) /\ dbNow \in Nat /\ entries[d] \in {Absent} \cup Entries
    BY <1>1, JobOf
<1>3. /\ j \in Jobs /\ j.state = jobs[d].state
      /\ j.tier = jobs[d].tier /\ j.owner = jobs[d].owner /\ j.since = jobs[d].since /\ j.expires = jobs[d].expires
      /\ j.lease = jobs[d].lease /\ j.covered
    BY <1>2 DEF Jobs
<1>4. jobs' = [jobs EXCEPT ![d] = j] /\ entries' = [entries EXCEPT ![d] = entries[d]]
    BY DEF DeliveryCovers, CommerceInv, RowTypes
<1> HIDE DEF j
<1>5. j # Absent
    BY <1>3, AbsentIsNone
<1>6. PairOK(j, entries[d])
    BY <1>1, <1>2, <1>3, <1>5 DEF PairOK
<1>7. HoldsSlot(j, entries[d], dbNow) => HoldsSlot(jobs[d], entries[d], dbNow)
    BY <1>1, <1>3 DEF HoldsSlot
<1>8. j.tier = "premium" => Entitled(j)
    BY <1>1, <1>3, StillEntitled
<1> QED BY <1>1, <1>2, <1>3, <1>4, <1>6, <1>7, <1>8, JobStep DEF DeliveryCovers, paymentVars

\* finalize charges a covered file; a lapsed lease settles nothing.
LEMMA DeliveryEndsKeeps ==
    ASSUME CommerceInv, NEW d \in Downloads, NEW finalized \in BOOLEAN, DeliveryEnds(d, finalized)
    PROVE  CommerceInv'
<1> DEFINE j == [jobs[d] EXCEPT !.lease = FALSE]
           e == IF finalized /\ jobs[d].covered THEN Settle(d, "consumed", dbNow) ELSE entries[d]
<1>1. jobs[d] # Absent /\ jobs[d].lease
    BY DEF DeliveryEnds
<1>2. jobs[d] \in Jobs /\ PairOK(jobs[d], entries[d]) /\ dbNow \in Nat /\ entries[d] \in {Absent} \cup Entries
    BY <1>1, JobOf
<1>3. /\ j \in Jobs /\ j.state = jobs[d].state
      /\ j.tier = jobs[d].tier /\ j.owner = jobs[d].owner /\ j.since = jobs[d].since /\ j.expires = jobs[d].expires
      /\ j.lease = FALSE /\ j.covered = jobs[d].covered
    BY <1>2 DEF Jobs
<1>4. /\ e \in {Absent} \cup Entries /\ (entries[d] = Absent => e = Absent)
      /\ e # entries[d] => jobs[d].covered /\ e.state = "consumed"
    BY <1>2, SettleIs DEF CommerceInv
<1>5. jobs' = [jobs EXCEPT ![d] = j]
    BY DEF DeliveryEnds
<1>6. entries' = [entries EXCEPT ![d] = e]
    BY DEF DeliveryEnds, CommerceInv, RowTypes
<1> HIDE DEF j, e
<1>7. j # Absent
    BY <1>3, AbsentIsNone
<1>8. PairOK(j, e)
    BY <1>1, <1>2, <1>3, <1>4, <1>7 DEF PairOK
<1>9. HoldsSlot(j, e, dbNow) => HoldsSlot(jobs[d], entries[d], dbNow) /\ e.client = entries[d].client
    BY <1>3, <1>4 DEF HoldsSlot
<1>10. j.tier = "premium" => Entitled(j)
    BY <1>1, <1>3, StillEntitled
<1> QED BY <1>1, <1>3, <1>4, <1>5, <1>6, <1>8, <1>9, <1>10, JobStep DEF DeliveryEnds, paymentVars

\* expire_due_jobs settles the entry by what was delivered.
LEMMA ExpireDueKeeps == ASSUME CommerceInv, NEW d \in Downloads, ExpireDue(d) PROVE CommerceInv'
<1> DEFINE j == [jobs[d] EXCEPT !.state = "expired", !.lease = FALSE]
           e == ExpiredEntry(d)
<1>1. jobs[d] # Absent
    BY DEF ExpireDue
<1>2. jobs[d] \in Jobs /\ PairOK(jobs[d], entries[d]) /\ dbNow \in Nat /\ entries[d] \in {Absent} \cup Entries
    BY <1>1, JobOf
<1>3. /\ j \in Jobs /\ j.state = "expired"
      /\ j.tier = jobs[d].tier /\ j.owner = jobs[d].owner /\ j.since = jobs[d].since /\ j.expires = jobs[d].expires
      /\ j.lease = FALSE /\ j.covered = jobs[d].covered
    BY <1>2 DEF Jobs
<1>4. /\ e \in {Absent} \cup Entries /\ (entries[d] = Absent => e = Absent)
      /\ e # Absent => e.state # "reserved"
      /\ e # Absent /\ entries[d].state = "reserved" => e.state = IF jobs[d].covered THEN "consumed" ELSE "expired"
      /\ e # Absent /\ entries[d].state # "reserved" => e = entries[d]
  <2> DEFINE s == IF jobs[d].covered THEN "consumed" ELSE "expired"
  <2>1. s \in {"consumed", "released", "expired"}
      OBVIOUS
  <2>2. e = Settle(d, s, dbNow)
      BY DEF ExpiredEntry
  <2> HIDE DEF s, e
  <2> QED BY <1>2, <2>1, <2>2, SettleIs DEF CommerceInv, s
<1>5. jobs' = [jobs EXCEPT ![d] = j]
    BY DEF ExpireDue
<1>6. entries' = [entries EXCEPT ![d] = e]
    BY DEF ExpireDue
<1> HIDE DEF j, e
<1>7. j # Absent
    BY <1>3, AbsentIsNone
<1>8. PairOK(j, e)
    BY <1>1, <1>2, <1>3, <1>4, <1>7 DEF PairOK
<1>9. ~ HoldsSlot(j, e, dbNow)
    BY <1>4 DEF HoldsSlot
<1>10. j.tier = "premium" => Entitled(j)
    BY <1>1, <1>3, StillEntitled
<1> QED BY <1>1, <1>3, <1>4, <1>5, <1>6, <1>8, <1>9, <1>10, JobStep DEF ExpireDue, paymentVars

\* A promotion gives the slot back or charges it, and needs an active entitlement.
LEMMA UpgradeKeeps == ASSUME CommerceInv, NEW d \in Downloads, NEW now \in Nows, Upgrade(d, now) PROVE CommerceInv'
<1> DEFINE j == [jobs[d] EXCEPT !.tier = "premium", !.owner = cookie, !.since = dbNow]
           e == PromotedEntry(d, now)
<1>1. /\ jobs[d] # Absent /\ jobs[d].state = "ready" /\ ~ jobs[d].lease
      /\ entries[d] # Absent /\ entries[d].state \in {"reserved", "consumed"}
      /\ PremiumAt(cookie, dbNow) /\ cookie # NoOne
    BY DEF Upgrade, EntriesOf, Active
<1>2. jobs[d] \in Jobs /\ PairOK(jobs[d], entries[d]) /\ dbNow \in Nat /\ entries[d] \in {Absent} \cup Entries
    BY <1>1, JobOf
<1>3. cookie \in Clients /\ now \in Nat
    BY <1>1 DEF CommerceInv, RowTypes, Nows
<1>4. /\ j \in Jobs /\ j.state = jobs[d].state /\ j.tier = "premium" /\ j.owner = cookie /\ j.since = dbNow
      /\ j.expires = jobs[d].expires /\ j.lease = jobs[d].lease /\ j.covered = jobs[d].covered
    BY <1>2, <1>3 DEF Jobs
<1>5. /\ e \in {Absent} \cup Entries
      /\ e.state # "reserved"
      /\ entries[d].state = "reserved" => e.state = IF jobs[d].covered THEN "consumed" ELSE "released"
      /\ entries[d].state # "reserved" => e = entries[d]
  <2> DEFINE s == IF jobs[d].covered THEN "consumed" ELSE "released"
  <2>1. s \in {"consumed", "released", "expired"}
      OBVIOUS
  <2>2. e = Settle(d, s, now)
      BY DEF PromotedEntry
  <2> HIDE DEF s, e
  <2> QED BY <1>1, <1>3, <2>1, <2>2, SettleIs DEF CommerceInv, s
<1>6. jobs' = [jobs EXCEPT ![d] = j]
    BY DEF Upgrade
<1>7. entries' = [entries EXCEPT ![d] = e]
    BY DEF Upgrade
<1> HIDE DEF j, e
<1>8. j # Absent
    BY <1>4, AbsentIsNone
<1>9. PairOK(j, e)
    BY <1>1, <1>2, <1>4, <1>5, <1>8 DEF PairOK
<1>10. ~ HoldsSlot(j, e, dbNow)
    BY <1>5 DEF HoldsSlot
<1>11. Entitled(j)
    BY <1>1, <1>4 DEF PremiumAt, Entitled
<1> QED BY <1>1, <1>4, <1>5, <1>6, <1>7, <1>9, <1>10, <1>11, JobStep DEF Upgrade, paymentVars

\* What a client used and reserved can be counted.
LEMMA BookedIsFinite ==
    ASSUME CommerceInv, NEW c, NEW t
    PROVE  /\ IsFiniteSet(Used(c, t)) /\ Cardinality(Used(c, t)) \in Nat
           /\ IsFiniteSet(Reserved(c, t)) /\ Cardinality(Reserved(c, t)) \in Nat
<1>1. Used(c, t) \subseteq Booked /\ Reserved(c, t) \subseteq Booked
    BY DEF Used, Reserved, EntriesOf, Booked
<1>2. IsFiniteSet(Used(c, t)) /\ IsFiniteSet(Reserved(c, t))
    BY <1>1, FS_Subset DEF CommerceInv
<1> QED BY <1>2, FS_CardinalityType

\* A new row of a Premium client takes no slot.
LEMMA AdmitPremiumKeeps ==
    ASSUME CommerceInv, NEW d \in Downloads, NEW t \in Nat, jobs[d] = Absent, cookie \in Clients,
           PremiumAt(cookie, dbNow),
           jobs' = [jobs EXCEPT ![d] = NewJob("premium", cookie, t)],
           UNCHANGED <<entries, dbNow, clients, cookie, paymentVars>>
    PROVE  CommerceInv'
<1> DEFINE j == NewJob("premium", cookie, t)
<1>1. j \in Jobs /\ j.state = "queued" /\ j.tier = "premium" /\ j.owner = cookie /\ j.since = dbNow
      /\ j.lease = FALSE /\ j.covered = FALSE
  <2>1. j = [state |-> "queued", tier |-> "premium", owner |-> cookie, since |-> dbNow,
             expires |-> t, lease |-> FALSE, covered |-> FALSE]
      BY DEF NewJob
  <2>2. dbNow \in Nat
      BY DEF CommerceInv, RowTypes
  <2> HIDE DEF j
  <2> QED BY <2>1, <2>2 DEF Jobs
<1> HIDE DEF j
<1>2. jobs' = [jobs EXCEPT ![d] = j]
    BY DEF j
<1>3. RowTypes'
    BY <1>1, <1>2 DEF CommerceInv, RowTypes, paymentVars
<1>4. jobs'[d] = j /\ \A x \in Downloads : x # d => jobs'[x] = jobs[x]
    BY <1>2 DEF CommerceInv, RowTypes
<1>5. entries[d] = Absent
    BY DEF CommerceInv, PairsOK, PairOK
<1>6. PairOK(j, Absent)
    BY <1>1 DEF PairOK
<1>7. \A x \in Downloads : PairOK(jobs'[x], entries'[x])
    BY <1>4, <1>5, <1>6 DEF CommerceInv, PairsOK
<1>8. Entitled(j)
    BY <1>1 DEF PremiumAt, Entitled
<1>9. \A x \in Downloads : jobs'[x] # Absent /\ jobs'[x].tier = "premium" => Entitled(jobs'[x])
    BY <1>4, <1>8, StillEntitled
<1>10. \A x \in Downloads : HoldsSlot(jobs'[x], entries'[x], dbNow') => HoldsSlot(jobs[x], entries[x], dbNow)
    BY <1>4, <1>5 DEF HoldsSlot
<1>11. dbNow' \in Nat /\ dbNow <= dbNow'
    BY DEF CommerceInv, RowTypes
<1> QED BY <1>3, <1>7, <1>9, <1>10, <1>11, QuotaStep DEF paymentVars

\* A new row of a Free client takes a slot that was free at `now`; what is held at the
\* clock was held at `now` already.
LEMMA AdmitFreeKeeps ==
    ASSUME CommerceInv, NEW d \in Downloads, NEW now \in Nows, NEW t \in Nat, jobs[d] = Absent, cookie \in Clients,
           Remaining(cookie, now),
           jobs' = [jobs EXCEPT ![d] = NewJob("free", NoOne, t)],
           entries' = [entries EXCEPT ![d] = [state |-> "reserved", client |-> cookie, expires |-> t, at |-> 0]],
           UNCHANGED <<dbNow, clients, cookie, paymentVars>>
    PROVE  CommerceInv'
<1> DEFINE j == NewJob("free", NoOne, t)
           e == [state |-> "reserved", client |-> cookie, expires |-> t, at |-> 0]
<1>1. j \in Jobs /\ j.state = "queued" /\ j.tier = "free" /\ j.expires = t /\ j.lease = FALSE /\ j.covered = FALSE
  <2>1. j = [state |-> "queued", tier |-> "free", owner |-> NoOne, since |-> 0,
             expires |-> t, lease |-> FALSE, covered |-> FALSE]
      BY DEF NewJob
  <2> HIDE DEF j
  <2> QED BY <2>1 DEF Jobs
<1>2. e \in Entries /\ e.state = "reserved" /\ e.client = cookie /\ e.expires = t
    BY DEF Entries
<1> HIDE DEF j, e
<1>3. jobs' = [jobs EXCEPT ![d] = j] /\ entries' = [entries EXCEPT ![d] = e]
    BY DEF j, e
<1>4. RowTypes'
    BY <1>1, <1>2, <1>3 DEF CommerceInv, RowTypes, paymentVars
<1>5. /\ jobs'[d] = j /\ entries'[d] = e
      /\ \A x \in Downloads : x # d => jobs'[x] = jobs[x] /\ entries'[x] = entries[x]
    BY <1>3 DEF CommerceInv, RowTypes
<1>6. j # Absent /\ e # Absent
    BY <1>1, <1>2, AbsentIsNone
<1>7. PairOK(j, e)
    BY <1>1, <1>2, <1>6 DEF PairOK
<1>8. PairsOK'
    BY <1>5, <1>7 DEF CommerceInv, PairsOK
<1>9. PaymentBuysOneEntitlement'
    BY DEF CommerceInv, PaymentBuysOneEntitlement, paymentVars
<1>10. \A x \in Downloads : jobs'[x] # Absent /\ jobs'[x].tier = "premium" => Entitled(jobs'[x])
    BY <1>1, <1>5, StillEntitled
<1>11. PremiumWasPaidFor'
    BY <1>10 DEF PremiumWasPaidFor, Entitled, paymentVars
<1>12. IsFiniteSet(Booked')
  <2>1. Booked' \subseteq Booked \cup {d}
      BY <1>5 DEF Booked
  <2>2. IsFiniteSet(Booked \cup {d})
      BY FS_AddElement DEF CommerceInv
  <2> QED BY <2>1, <2>2, FS_Subset
<1>13. dbNow \in Nat /\ now \in Nat /\ now <= dbNow /\ Limit \in Nat
    BY CommerceAssumption DEF Nows, CommerceInv, RowTypes
<1>14. ASSUME NEW c \in Clients PROVE Cardinality(Reserved(c, dbNow)') <= Limit
  <2> DEFINE after == Reserved(c, dbNow)'
  <2>1. after = {x \in Downloads : HoldsSlot(jobs'[x], entries'[x], dbNow) /\ entries'[x].client = c}
      BY DEF Reserved, EntriesOf, HoldsSlot
  <2>2. CASE c # cookie
    <3>1. after \subseteq Reserved(c, dbNow)
        BY <1>2, <1>5, <2>1, <2>2, ReservedIs
    <3>2. Cardinality(Reserved(c, dbNow)) <= Limit
        BY DEF CommerceInv, ReservationsWithinLimit
    <3> HIDE DEF after
    <3>3. IsFiniteSet(after) /\ Cardinality(after) <= Cardinality(Reserved(c, dbNow))
        BY <3>1, BookedIsFinite, FS_Subset
    <3>4. Cardinality(after) \in Nat
        BY <3>3, FS_CardinalityType
    <3>5. Cardinality(after) <= Limit
        BY <1>13, <3>2, <3>3, <3>4, BookedIsFinite
    <3> QED BY <3>5 DEF after
  <2>3. CASE c = cookie
    <3> DEFINE held == Reserved(c, now)
    <3>1. after \subseteq held \cup {d}
      <4> SUFFICES ASSUME NEW x \in after, x # d PROVE x \in held
          OBVIOUS
      <4>1. x \in Downloads /\ HoldsSlot(jobs[x], entries[x], dbNow) /\ entries[x].client = c
          BY <1>5, <2>1
      <4>2. entries[x].expires \in Nat
          BY <4>1, RowOf DEF CommerceInv, HoldsSlot, Entries
      <4>3. HoldsSlot(jobs[x], entries[x], now)
          BY <1>13, <4>1, <4>2 DEF HoldsSlot
      <4> QED BY <4>1, <4>3, ReservedIs
    <3>2. IsFiniteSet(held) /\ Cardinality(held) \in Nat
        BY BookedIsFinite
    <3>3. Limit > Cardinality(Used(cookie, now)) + Cardinality(held) /\ Cardinality(Used(cookie, now)) \in Nat
        BY <2>3, BookedIsFinite DEF Remaining
    <3> HIDE DEF after, held
    <3>4. IsFiniteSet(held \cup {d})
          /\ (Cardinality(held \cup {d}) = Cardinality(held) \/ Cardinality(held \cup {d}) = Cardinality(held) + 1)
        BY <3>2, FS_AddElement
    <3>5. IsFiniteSet(after) /\ Cardinality(after) <= Cardinality(held \cup {d})
        BY <3>1, <3>4, FS_Subset
    <3>6. Cardinality(after) \in Nat
        BY <3>5, FS_CardinalityType
    <3>7. Cardinality(after) <= Limit
        BY <1>13, <3>2, <3>3, <3>4, <3>5, <3>6
    <3> QED BY <3>7 DEF after
  <2> QED BY <2>2, <2>3
<1> QED BY <1>4, <1>8, <1>9, <1>11, <1>12, <1>14 DEF CommerceInv, ReservationsWithinLimit

\* Both ways an admission can go.
LEMMA AdmitKeeps == ASSUME CommerceInv, NEW d \in Downloads, NEW now \in Nows, Admit(d, now) PROVE CommerceInv'
<1>1. cookie \in Clients
    BY DEF Admit, Active, CommerceInv, RowTypes
<1>2. now + ArtifactTTL \in Nat
    BY CommerceAssumption DEF Nows, CommerceInv, RowTypes
<1>3. CASE PremiumAt(cookie, dbNow)
    BY <1>1, <1>2, <1>3, AdmitPremiumKeeps DEF Admit
<1>4. CASE ~ PremiumAt(cookie, dbNow)
    BY <1>1, <1>2, <1>4, AdmitFreeKeeps DEF Admit
<1> QED BY <1>3, <1>4

\* The repair of one entry: a reserved one is settled by its job's state, any other stays.
LEMMA RepairedIs ==
    ASSUME CommerceInv, NEW d \in Downloads, NEW t \in Nat
    PROVE  /\ Repaired(d, t) \in {Absent} \cup Entries
           /\ entries[d] = Absent => Repaired(d, t) = Absent
           /\ entries[d] # Absent => Repaired(d, t) # Absent /\ Repaired(d, t).client = entries[d].client
           /\ entries[d] # Absent /\ entries[d].state # "reserved" => Repaired(d, t) = entries[d]
           /\ RepairedJob(d, t) \in {Absent} \cup Jobs
           /\ PairOK(RepairedJob(d, t), Repaired(d, t)) /\ PairOK(RepairedJob(d, t), Absent)
           /\ jobs[d] = Absent => RepairedJob(d, t) = Absent
           /\ jobs[d] # Absent =>
                /\ RepairedJob(d, t) # Absent
                /\ RepairedJob(d, t).tier = jobs[d].tier /\ RepairedJob(d, t).owner = jobs[d].owner
                /\ RepairedJob(d, t).since = jobs[d].since /\ RepairedJob(d, t).lease = jobs[d].lease
           /\ Repaired(d, t) # Absent /\ Repaired(d, t).state = "reserved" => Repaired(d, t) = entries[d]
<1> DEFINE lapsed == /\ jobs[d].state = "queued"
                     /\ entries[d].expires <= t /\ jobs[d].expires <= t
<1>1. RowTypes /\ PairOK(jobs[d], entries[d])
    BY DEF CommerceInv, PairsOK
<1>2. CASE entries[d] = Absent
  <2>2. \A s \in {"consumed", "released", "expired"} : Settle(d, s, t) = Absent
      BY <1>1, <1>2, SettleIs
  <2>1. Repaired(d, t) = Absent /\ RepairedJob(d, t) = jobs[d]
      BY <1>2, <2>2 DEF Repaired, RepairedJob
  <2> QED BY <1>1, <1>2, <2>1, RowOf
<1>3. CASE entries[d] # Absent
  <2>1. jobs[d] # Absent /\ jobs[d] \in Jobs /\ entries[d] \in Entries
      BY <1>1, <1>3, RowOf DEF PairOK
  <2>2. CASE entries[d].state # "reserved"
    <3>1. \A s \in {"consumed", "released", "expired"} : Settle(d, s, t) = entries[d]
        BY <1>1, <1>3, <2>2, SettleIs
    <3>2. Repaired(d, t) = entries[d] /\ RepairedJob(d, t) = jobs[d]
        BY <1>3, <2>2, <3>1 DEF Repaired, RepairedJob
    <3>3. PairOK(jobs[d], Absent)
        BY <1>1 DEF PairOK
    <3> QED BY <1>1, <1>3, <2>1, <2>2, <3>2, <3>3
  <2>3. CASE entries[d].state = "reserved"
    <3>1. jobs[d].state # "expired"
        BY <1>1, <1>3, <2>1, <2>3 DEF PairOK
    <3>2. CASE jobs[d].state = "queued" /\ lapsed
      <4>1. Repaired(d, t) = Settle(d, "expired", t)
          BY <1>3, <3>2 DEF Repaired
      <4>2. RepairedJob(d, t) = [jobs[d] EXCEPT !.state = "expired"]
          BY <1>3, <2>3, <3>2 DEF RepairedJob
      <4>3. Settle(d, "expired", t) \in {Absent} \cup Entries /\ Settle(d, "expired", t) # Absent
            /\ Settle(d, "expired", t).state = "expired" /\ Settle(d, "expired", t).client = entries[d].client
          BY <1>1, <1>3, <2>3, SettleIs
      <4> DEFINE j == [jobs[d] EXCEPT !.state = "expired"]
      <4>4. j \in Jobs /\ j.state = "expired" /\ j.tier = jobs[d].tier /\ j.owner = jobs[d].owner
            /\ j.since = jobs[d].since /\ j.lease = jobs[d].lease /\ j.covered = jobs[d].covered
          BY <2>1 DEF Jobs
      <4> HIDE DEF j
      <4>5. j # Absent
          BY <4>4, AbsentIsNone
      <4>6. ~ jobs[d].lease /\ ~ jobs[d].covered /\ jobs[d].tier # "premium"
          BY <1>1, <1>3, <2>1, <2>3, <3>2 DEF PairOK
      <4>7. PairOK(j, Settle(d, "expired", t)) /\ PairOK(j, Absent)
          BY <4>3, <4>4, <4>5, <4>6 DEF PairOK
      <4> QED BY <1>3, <2>1, <2>3, <4>1, <4>2, <4>3, <4>4, <4>5, <4>7 DEF j
    <3>3. CASE ~ (jobs[d].state = "queued" /\ lapsed)
      <4>1. RepairedJob(d, t) = jobs[d]
          BY <3>3 DEF RepairedJob
      <4>2. PairOK(jobs[d], Absent)
          BY <1>1, <2>1 DEF PairOK
      <4>3. CASE jobs[d].state = "ready" /\ jobs[d].covered
        <5>1. Repaired(d, t) = Settle(d, "consumed", t)
            BY <1>3, <4>3 DEF Repaired
        <5>2. Settle(d, "consumed", t) \in {Absent} \cup Entries /\ Settle(d, "consumed", t) # Absent
              /\ Settle(d, "consumed", t).state = "consumed" /\ Settle(d, "consumed", t).client = entries[d].client
            BY <1>1, <1>3, <2>3, SettleIs
        <5>3. PairOK(jobs[d], Settle(d, "consumed", t))
            BY <1>1, <1>3, <2>1, <2>3, <4>3, <5>2 DEF PairOK
        <5> QED BY <1>3, <2>1, <2>3, <4>1, <4>2, <5>1, <5>2, <5>3
      <4>4. CASE jobs[d].state = "failed"
        <5>1. Repaired(d, t) = Settle(d, "released", t)
            BY <1>3, <4>4 DEF Repaired
        <5>2. Settle(d, "released", t) \in {Absent} \cup Entries /\ Settle(d, "released", t) # Absent
              /\ Settle(d, "released", t).state = "released" /\ Settle(d, "released", t).client = entries[d].client
            BY <1>1, <1>3, <2>3, SettleIs
        <5>3. PairOK(jobs[d], Settle(d, "released", t))
            BY <1>1, <1>3, <2>1, <2>3, <4>4, <5>2 DEF PairOK
        <5> QED BY <1>3, <2>1, <2>3, <4>1, <4>2, <5>1, <5>2, <5>3
      <4>5. CASE ~ (jobs[d].state = "ready" /\ jobs[d].covered) /\ jobs[d].state # "failed"
        <5>1. Repaired(d, t) = entries[d]
            BY <1>3, <3>1, <3>3, <4>5 DEF Repaired
        <5> QED BY <1>1, <1>3, <2>1, <2>3, <4>1, <4>2, <5>1
      <4> QED BY <4>3, <4>4, <4>5
    <3> QED BY <3>2, <3>3
  <2> QED BY <2>2, <2>3
<1> QED BY <1>2, <1>3

\* The pass repairs every entry, forgets the old settled ones and deletes identities.
LEMMA ReconcileQuotaKeeps == ASSUME CommerceInv, NEW now \in Nows, ReconcileQuota(now) PROVE CommerceInv'
<1>1. now \in Nat /\ dbNow \in Nat /\ dbNow' = dbNow
    BY DEF Nows, CommerceInv, RowTypes, ReconcileQuota
<1>2. UNCHANGED <<cookie, orders, entitlements, callbacks>>
    BY DEF ReconcileQuota, paymentVars
<1>3. jobs' = [d \in Downloads |-> RepairedJob(d, now)]
    BY DEF ReconcileQuota
<1>4. entries' \in [Downloads -> {Absent} \cup Entries]
      /\ \A d \in Downloads : entries'[d] = Absent \/ entries'[d] = Repaired(d, now)
    BY <1>1, RepairedIs DEF ReconcileQuota
<1>5. clients' \in [Clients -> Nat \cup {NoOne}]
    BY DEF ReconcileQuota, CommerceInv, RowTypes
<1>6. jobs' \in [Downloads -> {Absent} \cup Jobs] /\ \A d \in Downloads : jobs'[d] = RepairedJob(d, now)
    BY <1>1, <1>3, RepairedIs
<1>7. RowTypes'
    BY <1>1, <1>2, <1>4, <1>5, <1>6 DEF RowTypes, CommerceInv
<1>8. \A d \in Downloads : PairOK(jobs'[d], entries'[d])
    BY <1>1, <1>4, <1>6, RepairedIs
<1>9. ASSUME NEW d \in Downloads, jobs'[d] # Absent, jobs'[d].tier = "premium" PROVE Entitled(jobs'[d])
  <2>1. jobs[d] # Absent /\ jobs'[d].tier = jobs[d].tier /\ jobs'[d].owner = jobs[d].owner /\ jobs'[d].since = jobs[d].since
      BY <1>1, <1>6, <1>9, RepairedIs
  <2> QED BY <1>9, <2>1, StillEntitled
<1>10. \A d \in Downloads : entries'[d] # Absent => entries[d] # Absent
    BY <1>1, <1>4, RepairedIs
<1>11. ASSUME NEW d \in Downloads, HoldsSlot(jobs'[d], entries'[d], dbNow')
       PROVE  HoldsSlot(jobs[d], entries[d], dbNow) /\ entries'[d].client = entries[d].client
  <2>1. entries'[d] # Absent /\ entries'[d].state = "reserved" /\ entries'[d] = Repaired(d, now)
      BY <1>4, <1>11 DEF HoldsSlot
  <2>2. entries'[d] = entries[d]
      BY <1>1, <2>1, RepairedIs
  <2>3. jobs[d] # Absent
      BY <2>1, <2>2 DEF CommerceInv, PairsOK, PairOK
  <2>4. jobs'[d].lease = jobs[d].lease
      BY <1>1, <1>6, <2>3, RepairedIs
  <2> QED BY <1>1, <1>11, <2>2, <2>4 DEF HoldsSlot
<1> QED BY <1>1, <1>2, <1>7, <1>8, <1>9, <1>10, <1>11, QuotaStep

-----------------------------------------------------------------------------
(* Payments *)

\* A step on orders and entitlements that takes no entitlement away.
LEMMA PaymentStep ==
    ASSUME CommerceInv, UNCHANGED <<dbNow, clients, cookie, quotaVars>>,
           orders' \in [Orders -> {Absent} \cup PaymentOrders],
           entitlements' \in [Orders -> {NoOne} \cup Premiums],
           callbacks' \in [Orders -> 0..2],
           PaymentBuysOneEntitlement',
           \A o \in Orders : entitlements[o] # NoOne => entitlements'[o] = entitlements[o]
    PROVE  CommerceInv'
<1>1. RowTypes'
    BY DEF CommerceInv, RowTypes, quotaVars
<1>2. PairsOK'
    BY DEF CommerceInv, PairsOK, quotaVars
<1>3. PremiumWasPaidFor'
    BY DEF CommerceInv, PremiumWasPaidFor, quotaVars
<1>4. IsFiniteSet(Booked') /\ ReservationsWithinLimit'
  <2>1. Booked' = Booked
      BY DEF Booked, quotaVars
  <2>2. \A c \in Clients : Reserved(c, dbNow)' = Reserved(c, dbNow)
      BY DEF Reserved, EntriesOf, quotaVars
  <2> QED BY <2>1, <2>2 DEF CommerceInv, ReservationsWithinLimit
<1> QED BY <1>1, <1>2, <1>3, <1>4 DEF CommerceInv

\* A settled order, and an entitlement, that a step leaves alone.
SettledStays ==
    \A o \in Orders :
        /\ orders[o] # Absent /\ orders[o].state \in {"paid", "expired"} => orders'[o] = orders[o]
        /\ entitlements[o] # NoOne => entitlements'[o] = entitlements[o]

\* A new order has no entitlement yet.
LEMMA CreateOrderKeeps == ASSUME CommerceInv, NEW o \in Orders, CreateOrder(o) PROVE CommerceInv' /\ SettledStays
<1> DEFINE row == [state |-> "pending", client |-> cookie, expires |-> dbNow + OrderTTL, paidAt |-> 0, legacy |-> FALSE]
<1>1. cookie \in Clients /\ dbNow + OrderTTL \in Nat
    BY CommerceAssumption DEF CreateOrder, Active, CommerceInv, RowTypes
<1>2. row \in PaymentOrders /\ row.state = "pending"
    BY <1>1 DEF PaymentOrders
<1>3. orders' = [orders EXCEPT ![o] = row]
    BY DEF CreateOrder
<1> HIDE DEF row
<1>4. orders \in [Orders -> {Absent} \cup PaymentOrders] /\ orders[o] = Absent
      /\ entitlements' = entitlements /\ callbacks' = callbacks
    BY DEF CreateOrder, CommerceInv, RowTypes
<1>5. orders' \in [Orders -> {Absent} \cup PaymentOrders] /\ orders'[o] = row
      /\ \A x \in Orders : x # o => orders'[x] = orders[x]
    BY <1>2, <1>3, <1>4
<1>6. entitlements[o] = NoOne
  <2>1. orders[o].state # "paid"
      BY <1>4 DEF Absent
  <2> QED BY <2>1 DEF CommerceInv, PaymentBuysOneEntitlement
<1>7. PaymentBuysOneEntitlement'
    BY <1>2, <1>4, <1>5, <1>6 DEF CommerceInv, PaymentBuysOneEntitlement
<1>8. CommerceInv'
    BY <1>4, <1>5, <1>7, PaymentStep DEF CreateOrder, CommerceInv, RowTypes
<1> QED BY <1>4, <1>5, <1>8 DEF SettledStays

\* The unlocked read changes nothing that is stored.
LEMMA CallbackReadsKeeps == ASSUME CommerceInv, NEW o \in Orders, CallbackReads(o) PROVE CommerceInv' /\ SettledStays
<1>1. callbacks' \in [Orders -> 0..2] /\ UNCHANGED <<orders, entitlements, dbNow, clients, cookie, quotaVars>>
    BY DEF CallbackReads, CommerceInv, RowTypes
<1>2. PaymentBuysOneEntitlement'
    BY <1>1 DEF CommerceInv, PaymentBuysOneEntitlement
<1> QED BY <1>1, <1>2, PaymentStep DEF CommerceInv, RowTypes, SettledStays

\* Every further callback of a paid order finds the row and the window it would write.
LEMMA CallbackWritesKeeps == ASSUME CommerceInv, NEW o \in Orders, CallbackWrites(o) PROVE CommerceInv' /\ SettledStays
<1>1. callbacks' \in [Orders -> 0..2] /\ UNCHANGED <<dbNow, clients, cookie, quotaVars>>
    BY DEF CallbackWrites, CommerceInv, RowTypes
<1>2. CASE ~ Acceptable(o)
  <2>1. UNCHANGED <<orders, entitlements>>
      BY <1>2 DEF CallbackWrites
  <2>2. PaymentBuysOneEntitlement'
      BY <2>1 DEF CommerceInv, PaymentBuysOneEntitlement
  <2> QED BY <1>1, <2>1, <2>2, PaymentStep DEF CommerceInv, RowTypes, SettledStays
<1>3. CASE Acceptable(o)
  <2> DEFINE row == [orders[o] EXCEPT !.state = "paid", !.paidAt = PaidAt(o)]
             win == Ensured(o, PaidAt(o))
  <2>1. orders[o] # Absent /\ orders[o] \in PaymentOrders /\ dbNow \in Nat
      BY <1>3 DEF Acceptable, CommerceInv, RowTypes
  <2>2. PaidAt(o) \in Nat /\ (orders[o].state = "paid" => PaidAt(o) = orders[o].paidAt)
      BY <2>1 DEF PaidAt, PaymentOrders
  <2>3. orders' = [orders EXCEPT ![o] = row] /\ entitlements' = [entitlements EXCEPT ![o] = win]
      BY <1>3 DEF CallbackWrites
  <2>4. /\ row \in PaymentOrders /\ row.state = "paid" /\ row.paidAt = PaidAt(o) /\ row.client = orders[o].client
        /\ orders[o].state = "paid" => row = orders[o]
    <3> DEFINE p == PaidAt(o)
    <3> HIDE DEF p
    <3>1. p \in Nat /\ row = [orders[o] EXCEPT !.state = "paid", !.paidAt = p]
        BY <2>2 DEF p
    <3> HIDE DEF row
    <3>2. row \in PaymentOrders /\ row.state = "paid" /\ row.paidAt = p /\ row.client = orders[o].client
        BY <2>1, <3>1 DEF PaymentOrders
    <3>3. orders[o].state = "paid" => row = orders[o]
        BY <2>1, <2>2, <3>1 DEF PaymentOrders, p
    <3> QED BY <3>2, <3>3 DEF p
  <2>5. /\ entitlements[o] # NoOne => win = entitlements[o] /\ orders[o].state = "paid"
        /\ win \in Premiums /\ win # NoOne
        /\ win = [client |-> orders[o].client, starts |-> PaidAt(o), expires |-> PaidAt(o) + Duration]
    <3>1. PaidWindow(o, PaidAt(o)) \in Premiums /\ PaidWindow(o, PaidAt(o)) # NoOne
        BY <2>1, <2>2, WindowIsSomeone DEF CommerceInv
    <3>2. entitlements[o] # NoOne => entitlements[o] = PaidWindow(o, PaidAt(o)) /\ orders[o].state = "paid"
        BY <2>2 DEF CommerceInv, PaymentBuysOneEntitlement, PaidWindow
    <3>3. win = PaidWindow(o, PaidAt(o))
        BY <3>2 DEF Ensured
    <3> QED BY <3>1, <3>2, <3>3 DEF PaidWindow
  <2> HIDE DEF row, win
  <2>6. /\ orders' \in [Orders -> {Absent} \cup PaymentOrders] /\ entitlements' \in [Orders -> {NoOne} \cup Premiums]
        /\ orders'[o] = row /\ entitlements'[o] = win
        /\ \A x \in Orders : x # o => orders'[x] = orders[x] /\ entitlements'[x] = entitlements[x]
      BY <2>3, <2>4, <2>5 DEF CommerceInv, RowTypes
  <2>7. PaymentBuysOneEntitlement'
    <3> SUFFICES ASSUME NEW x \in Orders
                 PROVE  /\ entitlements'[x] # NoOne =>
                             /\ orders'[x].state = "paid"
                             /\ entitlements'[x] = [client |-> orders'[x].client, starts |-> orders'[x].paidAt,
                                                    expires |-> orders'[x].paidAt + Duration]
                        /\ orders'[x] # Absent /\ orders'[x].state = "paid" /\ ~ orders'[x].legacy =>
                             entitlements'[x] # NoOne
        BY DEF PaymentBuysOneEntitlement
    <3>1. CASE x = o
        BY <2>4, <2>5, <2>6, <3>1
    <3>2. CASE x # o
        BY <2>6, <3>2 DEF CommerceInv, PaymentBuysOneEntitlement
    <3> QED BY <3>1, <3>2
  <2>8. orders[o].state # "expired"
      BY <1>3 DEF Acceptable
  <2>9. SettledStays
      BY <2>4, <2>5, <2>6, <2>8 DEF SettledStays
  <2> QED BY <1>1, <2>6, <2>7, <2>9, PaymentStep DEF SettledStays
<1> QED BY <1>2, <1>3

\* An order that lapses was never paid.
LEMMA ExpireUnpaidKeeps == ASSUME CommerceInv, ExpireUnpaid PROVE CommerceInv' /\ SettledStays
<1> DEFINE due == {o \in Orders : /\ orders[o] # Absent /\ orders[o].state = "pending" /\ orders[o].expires <= dbNow}
<1>1. orders' = [o \in Orders |-> IF o \in due THEN [orders[o] EXCEPT !.state = "expired"] ELSE orders[o]]
      /\ UNCHANGED <<dbNow, clients, cookie, quotaVars, entitlements, callbacks>>
    BY DEF ExpireUnpaid
<1>2. ASSUME NEW o \in due
      PROVE  [orders[o] EXCEPT !.state = "expired"] \in PaymentOrders /\ [orders[o] EXCEPT !.state = "expired"].state = "expired"
  <2>1. orders[o] \in PaymentOrders
      BY DEF CommerceInv, RowTypes
  <2> QED BY <2>1 DEF PaymentOrders
<1>3. \A o \in due : o \in Orders /\ orders[o].state = "pending"
    OBVIOUS
<1> HIDE DEF due
<1>4. /\ orders' \in [Orders -> {Absent} \cup PaymentOrders]
      /\ \A o \in due : orders'[o].state = "expired"
      /\ \A o \in Orders : o \notin due => orders'[o] = orders[o]
    BY <1>1, <1>2, <1>3 DEF CommerceInv, RowTypes
<1>5. \A o \in due : entitlements[o] = NoOne
    BY <1>3 DEF CommerceInv, PaymentBuysOneEntitlement
<1>6. PaymentBuysOneEntitlement'
    BY <1>1, <1>4, <1>5 DEF CommerceInv, PaymentBuysOneEntitlement
<1>7. CommerceInv'
    BY <1>1, <1>4, <1>6, PaymentStep DEF CommerceInv, RowTypes
<1> QED BY <1>1, <1>3, <1>4, <1>7 DEF SettledStays

\* The reconciliation writes the windows that are missing.
LEMMA ReconcilePaidKeeps == ASSUME CommerceInv, ReconcilePaid PROVE CommerceInv' /\ SettledStays
<1> DEFINE missing == {o \in Orders : /\ orders[o] # Absent /\ orders[o].state = "paid" /\ entitlements[o] = NoOne}
<1>1. entitlements' = [o \in Orders |-> IF o \in missing THEN Ensured(o, orders[o].paidAt) ELSE entitlements[o]]
      /\ UNCHANGED <<dbNow, clients, cookie, quotaVars, orders, callbacks>>
    BY DEF ReconcilePaid
<1>2. ASSUME NEW o \in missing
      PROVE  /\ Ensured(o, orders[o].paidAt) = PaidWindow(o, orders[o].paidAt)
             /\ PaidWindow(o, orders[o].paidAt) \in Premiums /\ orders[o].state = "paid" /\ entitlements[o] = NoOne
  <2>1. orders[o] # Absent /\ orders[o] \in PaymentOrders
      BY DEF CommerceInv, RowTypes
  <2>2. orders[o].paidAt \in Nat
      BY <2>1 DEF PaymentOrders
  <2> QED BY <2>1, <2>2, WindowIsSomeone DEF CommerceInv, Ensured
<1>3. missing \subseteq Orders
    OBVIOUS
<1>4. \A o \in Orders : orders[o] # Absent /\ orders[o].state = "paid" /\ ~ orders[o].legacy => o \notin missing
    BY DEF CommerceInv, PaymentBuysOneEntitlement
<1> HIDE DEF missing
<1>5. /\ entitlements' \in [Orders -> {NoOne} \cup Premiums]
      /\ \A o \in missing : entitlements'[o] = PaidWindow(o, orders[o].paidAt)
      /\ \A o \in Orders : o \notin missing => entitlements'[o] = entitlements[o]
    BY <1>1, <1>2, <1>3 DEF CommerceInv, RowTypes
<1>6. PaymentBuysOneEntitlement'
    BY <1>1, <1>2, <1>4, <1>5 DEF CommerceInv, PaymentBuysOneEntitlement, PaidWindow
<1>7. SettledStays
    BY <1>1, <1>2, <1>5 DEF SettledStays
<1> QED BY <1>1, <1>5, <1>6, <1>7, PaymentStep DEF CommerceInv, RowTypes, SettledStays

-----------------------------------------------------------------------------
(* Every step *)

\* The steps of one download.
LEMMA DownloadKeeps ==
    ASSUME CommerceInv, NEW d \in Downloads,
           \/ \E now \in Nows : Admit(d, now) \/ Upgrade(d, now)
           \/ \E outcome \in {"ready", "failed"} : WorkerFinishes(d, outcome)
           \/ DeliveryBegins(d)
           \/ DeliveryCovers(d)
           \/ \E finalized \in BOOLEAN : DeliveryEnds(d, finalized)
           \/ ExpireDue(d)
    PROVE  CommerceInv' /\ UNCHANGED paymentVars
<1>1. CommerceInv'
    BY AdmitKeeps, UpgradeKeeps, WorkerFinishesKeeps, DeliveryBeginsKeeps, DeliveryCoversKeeps, DeliveryEndsKeeps,
       ExpireDueKeeps
<1>2. UNCHANGED paymentVars
    BY DEF Admit, Upgrade, WorkerFinishes, DeliveryBegins, DeliveryCovers, DeliveryEnds, ExpireDue
<1> QED BY <1>1, <1>2

\* Every step keeps the invariant and whatever is settled.
LEMMA CommerceKeeps == ASSUME CommerceInv, [CommerceNext]_commerceVars PROVE CommerceInv' /\ SettledStays
<1>1. ASSUME UNCHANGED paymentVars PROVE SettledStays
    BY <1>1 DEF SettledStays, paymentVars
<1>2. CASE UNCHANGED commerceVars
  <2>1. RowTypes'
      BY <1>2 DEF commerceVars, quotaVars, paymentVars, CommerceInv, RowTypes
  <2>2. PaymentBuysOneEntitlement'
      BY <1>2 DEF commerceVars, paymentVars, CommerceInv, PaymentBuysOneEntitlement
  <2> QED BY <1>1, <1>2, <2>1, <2>2, PaymentStep DEF commerceVars, paymentVars, RowTypes
<1>3. CASE TimePasses
    BY <1>1, <1>3, TimePassesKeeps DEF TimePasses
<1>4. CASE \E c \in Clients : BootstrapIdentity(c)
    BY <1>1, <1>4, BootstrapIdentityKeeps DEF BootstrapIdentity
<1>5. ASSUME NEW d \in Downloads,
             \/ \E now \in Nows : Admit(d, now) \/ Upgrade(d, now)
             \/ \E outcome \in {"ready", "failed"} : WorkerFinishes(d, outcome)
             \/ DeliveryBegins(d)
             \/ DeliveryCovers(d)
             \/ \E finalized \in BOOLEAN : DeliveryEnds(d, finalized)
             \/ ExpireDue(d)
      PROVE  CommerceInv' /\ SettledStays
    BY <1>1, <1>5, DownloadKeeps
<1>6. CASE Hygiene
    BY <1>1, <1>6, ReconcileQuotaKeeps DEF Hygiene, ReconcileQuota
<1>7. CASE \E o \in Orders : CreateOrder(o) \/ CallbackStep(o)
    BY <1>7, CreateOrderKeeps, CallbackReadsKeeps, CallbackWritesKeeps DEF CallbackStep
<1>8. CASE ExpireUnpaid \/ ReconcilePaid
    BY <1>8, ExpireUnpaidKeeps, ReconcilePaidKeeps
<1> QED BY <1>2, <1>3, <1>4, <1>5, <1>6, <1>7, <1>8 DEF CommerceNext, Expiry

\* An entry that is gone after a step was old: only the reconciliation pass deletes one.
LEMMA OnlyOldAreForgotten ==
    ASSUME CommerceInv, [CommerceNext]_commerceVars, NEW c \in Clients, NEW d \in Used(c, dbNow)
    PROVE  entries'[d] # Absent
<1>1. /\ d \in Downloads /\ entries[d] # Absent /\ entries[d].state = "consumed" /\ entries[d].at > dbNow - Window
      /\ entries[d] \in Entries /\ entries \in [Downloads -> {Absent} \cup Entries]
    BY RowOf DEF Used, EntriesOf, CommerceInv, RowTypes
<1>2. entries[d].at \in Nat /\ dbNow \in Nat
    BY <1>1 DEF Entries, CommerceInv, RowTypes
<1>3. \A s \in {"consumed", "released", "expired"}, t \in Nat : Settle(d, s, t) = entries[d]
    BY <1>1, SettleIs DEF CommerceInv
<1>4. CASE UNCHANGED entries
    BY <1>1, <1>4
<1>5. ASSUME NEW x \in Downloads, NEW e, entries' = [entries EXCEPT ![x] = e], x # d \/ e # Absent
      PROVE  entries'[d] # Absent
    BY <1>1, <1>5
<1>6. ASSUME NEW x \in Downloads, NEW s \in {"consumed", "released", "expired"}, NEW t \in Nat,
             entries' = [entries EXCEPT ![x] = Settle(x, s, t)]
      PROVE  entries'[d] # Absent
    BY <1>1, <1>3, <1>5, <1>6
<1>7. ASSUME NEW x \in Downloads, NEW now \in Nows, Admit(x, now) PROVE entries'[d] # Absent
  <2>1. CASE UNCHANGED entries
      BY <1>4, <2>1
  <2>2. CASE ~ UNCHANGED entries
    <3>1. jobs[x] = Absent
        BY <1>7 DEF Admit
    <3>2. x # d
        BY <1>1, <3>1 DEF CommerceInv, PairsOK, PairOK
    <3> QED BY <1>5, <1>7, <2>2, <3>2 DEF Admit
  <2> QED BY <2>1, <2>2
<1>8. ASSUME NEW x \in Downloads, NEW now \in Nows, Upgrade(x, now) PROVE entries'[d] # Absent
  <2>1. now \in Nat
      BY DEF Nows
  <2> QED BY <1>6, <1>8, <2>1 DEF Upgrade, PromotedEntry
<1>9. ASSUME NEW x \in Downloads, NEW outcome \in {"ready", "failed"}, WorkerFinishes(x, outcome) PROVE entries'[d] # Absent
    BY <1>2, <1>4, <1>6, <1>9 DEF WorkerFinishes
<1>10. ASSUME NEW x \in Downloads, NEW finalized \in BOOLEAN, DeliveryEnds(x, finalized) PROVE entries'[d] # Absent
    BY <1>2, <1>4, <1>6, <1>10 DEF DeliveryEnds
<1>11. ASSUME NEW x \in Downloads, ExpireDue(x) PROVE entries'[d] # Absent
    BY <1>2, <1>6, <1>11 DEF ExpireDue, ExpiredEntry
<1>12. ASSUME NEW now \in Nows, ReconcileQuota(now) PROVE entries'[d] # Absent
  <2>1. now \in Nat /\ now <= dbNow
      BY <1>2 DEF Nows
  <2>2. Repaired(d, now) = entries[d]
      BY <1>1, <2>1, RepairedIs
  <2>3. ~ Prunable(entries[d], now)
      BY <1>1, <1>2, <2>1, CommerceAssumption DEF Prunable
  <2> QED BY <1>1, <1>12, <2>2, <2>3 DEF ReconcileQuota
<1>13. CASE TimePasses \/ (\E x \in Clients : BootstrapIdentity(x)) \/ (\E o \in Orders : CreateOrder(o) \/ CallbackStep(o))
            \/ ExpireUnpaid \/ ReconcilePaid \/ UNCHANGED commerceVars
    BY <1>4, <1>13 DEF TimePasses, BootstrapIdentity, CreateOrder, CallbackStep, CallbackReads, CallbackWrites,
                       ExpireUnpaid, ReconcilePaid, quotaVars, commerceVars
<1>14. ASSUME NEW x \in Downloads, DeliveryBegins(x) \/ DeliveryCovers(x) PROVE entries'[d] # Absent
    BY <1>4, <1>14 DEF DeliveryBegins, DeliveryCovers
<1> QED BY <1>7, <1>8, <1>9, <1>10, <1>11, <1>12, <1>13, <1>14 DEF CommerceNext, Expiry, Hygiene

-----------------------------------------------------------------------------
(* The reset time *)

\* A set of numbers has a least one: the induction of this project.
LEMMA LeastNumber ==
    ASSUME NEW T, T \in SUBSET Nat, T # {}
    PROVE  \E x \in T : \A y \in T : x <= y
<1> DEFINE R == OpToRel(<, Nat)
<1>1. IsWellFoundedOn(R, Nat)
    BY NatLessThanWellFounded
<1> HIDE DEF R
<1>2. PICK x \in T : \A y \in T : ~ (<<y, x>> \in R)
    BY <1>1, WFMin
<1>3. \A y \in T : y < x => <<y, x>> \in R
    BY DEF R, OpToRel
<1>4. \A y \in T : ~ (y < x)
    BY <1>2, <1>3
<1>5. \A y \in T : x <= y
    BY <1>4
<1> QED BY <1>5


\* Among finitely many successes there is one whose turn to leave the window is the
\* (offset + 1)-th: not more than `offset` are older, more than `offset` not younger.
LEMMA ReleasingExists ==
    ASSUME CommerceInv, NEW c \in Clients, Cardinality(Used(c, dbNow)) >= Limit
    PROVE  LET U == Used(c, dbNow)
               g == Releasing(c, dbNow)
           IN  /\ g \in U
               /\ Cardinality({x \in U : entries[x].at < entries[g].at}) <= Cardinality(U) - Limit
               /\ Cardinality(U) - Limit < Cardinality({x \in U : entries[x].at <= entries[g].at})
<1> DEFINE U == Used(c, dbNow)
           n == Cardinality(U)
           Upto(t) == {x \in U : entries[x].at <= t}
           Older(t) == {x \in U : entries[x].at < t}
           T == {t \in Nat : n - Limit < Cardinality(Upto(t))}
<1>1. IsFiniteSet(U) /\ n \in Nat /\ Limit \in Nat \ {0} /\ n >= Limit /\ dbNow \in Nat
    BY BookedIsFinite, CommerceAssumption DEF CommerceInv, RowTypes
<1>2. \A x \in U : entries[x].at \in Nat /\ entries[x].at <= dbNow
  <2>1. ASSUME NEW x \in U PROVE x \in Downloads /\ entries[x] # Absent /\ entries[x].at <= dbNow
      BY DEF Used, EntriesOf
  <2>2. ASSUME NEW x \in U PROVE entries[x] \in Entries
      BY <2>1, RowOf DEF CommerceInv
  <2> QED BY <2>1, <2>2 DEF Entries
<1> HIDE DEF U
<1>3. \A t : Cardinality(Upto(t)) \in Nat /\ Cardinality(Older(t)) \in Nat
  <2>1. \A t : Upto(t) \subseteq U /\ Older(t) \subseteq U
      OBVIOUS
  <2> HIDE DEF Upto, Older
  <2>2. \A t : IsFiniteSet(Upto(t)) /\ IsFiniteSet(Older(t))
      BY <1>1, <2>1, FS_Subset
  <2> QED BY <2>2, FS_CardinalityType
<1>4. dbNow \in T
  <2>1. Upto(dbNow) = U
      BY <1>2
  <2>2. n - Limit < n
      BY <1>1
  <2> QED BY <1>1, <2>1, <2>2
<1>5. PICK t \in T : \A y \in T : t <= y
  <2>1. T \in SUBSET Nat /\ T # {}
      BY <1>4
  <2> HIDE DEF T
  <2> QED BY <2>1, LeastNumber
<1>6. t \in Nat /\ n - Limit < Cardinality(Upto(t))
    BY <1>5
<1>7. Cardinality(Older(t)) <= n - Limit
  <2>1. CASE t = 0
    <3>1. Older(t) = {}
        BY <1>2, <2>1
    <3>2. Cardinality({}) = 0
        BY FS_EmptySet
    <3>3. Cardinality(Older(t)) = 0
        BY <3>1, <3>2
    <3> HIDE DEF Older, n
    <3> QED BY <1>1, <3>3
  <2>2. CASE t # 0
    <3>1. t - 1 \in Nat /\ t - 1 \notin T
        BY <1>5, <1>6, <2>2
    <3>2. Older(t) = Upto(t - 1)
        BY <1>2, <1>6, <3>1
    <3>3. ~ (n - Limit < Cardinality(Upto(t - 1)))
        BY <3>1
    <3> HIDE DEF Older, Upto
    <3> QED BY <1>1, <1>3, <3>2, <3>3
  <2> QED BY <2>1, <2>2
<1>8. PICK g \in U : entries[g].at = t
  <2> SUFFICES ASSUME \A g \in U : entries[g].at # t PROVE FALSE
      OBVIOUS
  <2>1. Upto(t) = Older(t)
      BY <1>2, <1>6
  <2> HIDE DEF Upto, Older
  <2> QED BY <1>1, <1>3, <1>6, <1>7, <2>1
<1>9. Releasing(c, dbNow) =
        CHOOSE d \in U : Cardinality(Older(entries[d].at)) <= n - Limit /\ n - Limit < Cardinality(Upto(entries[d].at))
    BY DEF Releasing, U
<1> DEFINE Q(d) == Cardinality(Older(entries[d].at)) <= n - Limit /\ n - Limit < Cardinality(Upto(entries[d].at))
<1>10. Q(g)
    BY <1>6, <1>7, <1>8
<1>11. Releasing(c, dbNow) = CHOOSE d \in U : Q(d)
    BY <1>9
<1> HIDE DEF Q
<1>12. Releasing(c, dbNow) \in U /\ Q(Releasing(c, dbNow))
    BY <1>8, <1>10, <1>11
<1> QED BY <1>12 DEF Q, U

\* The published reset time is the first at which the counted successes leave room.
LEMMA ResetFollows == CommerceInv => ResetIsHonest
<1> SUFFICES ASSUME CommerceInv, NEW c \in Clients, Cardinality(Used(c, dbNow)) >= Limit
             PROVE  LET left(t) == {d \in Used(c, dbNow) : entries[d].at > t - Window}
                        reset == ResetAt(c, dbNow)
                    IN  /\ Cardinality(left(reset)) < Limit
                        /\ Cardinality(left(reset - 1)) >= Limit
    BY DEF ResetIsHonest
<1> DEFINE U == Used(c, dbNow)
           n == Cardinality(U)
           g == Releasing(c, dbNow)
           upto == {x \in U : entries[x].at <= entries[g].at}
           older == {x \in U : entries[x].at < entries[g].at}
<1>1. IsFiniteSet(U) /\ n \in Nat /\ Limit \in Nat \ {0} /\ Window \in Nat
    BY BookedIsFinite, CommerceAssumption
<1>2. g \in U /\ Cardinality(older) <= n - Limit /\ n - Limit < Cardinality(upto)
    BY ReleasingExists
<1>3. \A x \in U : entries[x].at \in Nat
  <2>1. ASSUME NEW x \in U PROVE entries[x] \in Entries
    <3>1. x \in Downloads /\ entries[x] # Absent
        BY DEF Used, EntriesOf
    <3> QED BY <3>1, RowOf DEF CommerceInv
  <2> QED BY <2>1 DEF Entries
<1>4. ResetAt(c, dbNow) = entries[g].at + Window
    BY DEF ResetAt
<1> HIDE DEF U, g
<1> DEFINE leftAt == {x \in U : entries[x].at > (entries[g].at + Window) - Window}
           leftBefore == {x \in U : entries[x].at > ((entries[g].at + Window) - 1) - Window}
<1>5. leftAt = U \ upto /\ leftBefore = U \ older
    BY <1>1, <1>2, <1>3
<1>6. U \cap upto = upto /\ U \cap older = older
    OBVIOUS
<1>7. upto \subseteq U /\ older \subseteq U
    OBVIOUS
<1> HIDE DEF upto, older, leftAt, leftBefore, n
<1>8. Cardinality(leftAt) = n - Cardinality(upto) /\ Cardinality(leftBefore) = n - Cardinality(older)
  <2>1. Cardinality(U \ upto) = Cardinality(U) - Cardinality(U \cap upto)
      BY <1>1, FS_Difference
  <2>2. Cardinality(U \ older) = Cardinality(U) - Cardinality(U \cap older)
      BY <1>1, FS_Difference
  <2> QED BY <1>5, <1>6, <2>1, <2>2 DEF n
<1>9. Cardinality(upto) \in Nat /\ Cardinality(older) \in Nat
    BY <1>1, <1>7, FS_Subset, FS_CardinalityType
<1>10. Cardinality(leftAt) < Limit /\ Cardinality(leftBefore) >= Limit
    BY <1>1, <1>2, <1>8, <1>9
<1> QED BY <1>4, <1>10 DEF U, leftAt, leftBefore

-----------------------------------------------------------------------------
(* Theorems *)

\* The relations between jobs, quota entries, orders and entitlements that every handler,
\* worker step and reconciliation pass keeps, however old the `now` it works with is.
THEOREM CommerceInvariance == CommerceSpec => []CommerceInv
<1>1. CommerceInv /\ [CommerceNext]_commerceVars => CommerceInv'
    BY CommerceKeeps
<1> QED BY <1>1, CommerceStarts, PTL DEF CommerceSpec

\* PremiumIsPaidFor: accept_callback and the reconciliation of paid orders give a payment one
\* window of entitlement, whatever callbacks repeat or overlap, and admit_locked and upgrade
\* give the Premium tier only inside such a window.
THEOREM PaidPremium == CommerceSpec => []PremiumIsPaidFor
<1>1. CommerceInv => PremiumIsPaidFor
    BY CommerceFollows
<1> QED BY <1>1, CommerceInvariance, PTL

\* SlotFollowsTheDownload: in whatever order finalize, promotion, expiry, failure and the
\* quota reconciliation settle an entry, a whole delivery stays charged, a Premium job holds
\* no slot, and a READY Free job still has one.
THEOREM SettledSlots == CommerceSpec => []SlotFollowsTheDownload
<1>1. CommerceInv => SlotFollowsTheDownload
    BY CommerceFollows
<1> QED BY <1>1, CommerceInvariance, PTL

\* The part of LimitsAreKept about the quota: admit_locked never lets a client hold more live
\* reservations than free_download_limit, and the reset_at that status_locked publishes is the
\* first moment at which the successes counted now leave room for one more.
THEOREM QuotaLimits == CommerceSpec => [](CommerceTypeOK /\ ReservationsWithinLimit /\ ResetIsHonest)
<1>1. CommerceInv => CommerceTypeOK /\ ReservationsWithinLimit /\ ResetIsHonest
    BY CommerceFollows, ResetFollows
<1> QED BY <1>1, CommerceInvariance, PTL

\* The part of BooksAreKept about the accounts: the retention pass forgets no success the
\* window still counts, and a settled order and an entitlement are never written again.
THEOREM AccountsAreKept == CommerceSpec => RetentionKeepsTheWindow /\ SettledOrdersStay
<1>1. ASSUME CommerceInv, [CommerceNext]_commerceVars
      PROVE  [\A c \in Clients : Used(c, dbNow) \subseteq {d \in Downloads : entries'[d] # Absent}]_commerceVars
  <2>1. \A c \in Clients : Used(c, dbNow) \subseteq Downloads
      BY DEF Used, EntriesOf
  <2> QED BY <1>1, <2>1, OnlyOldAreForgotten
<1>2. ASSUME CommerceInv, [CommerceNext]_commerceVars
      PROVE  [\A o \in Orders :
                 /\ orders[o] # Absent /\ orders[o].state \in {"paid", "expired"} => orders'[o] = orders[o]
                 /\ entitlements[o] # NoOne => entitlements'[o] = entitlements[o]]_commerceVars
    BY <1>2, CommerceKeeps DEF SettledStays
<1> QED BY <1>1, <1>2, CommerceInvariance, PTL DEF CommerceSpec, RetentionKeepsTheWindow, SettledOrdersStay
=============================================================================
