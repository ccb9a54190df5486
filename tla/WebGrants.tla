----------------------------- MODULE WebGrants -----------------------------
(***************************************************************************)
(* The ready phase of the web client (controller.ts, download.ts): arming  *)
(* the browser grant behind the download link, refreshing it before it     *)
(* expires, and promoting the prepared download to Premium.                *)
(*                                                                         *)
(* Grants are numbered by the request that asks for them.  The controller  *)
(* knows its own request by grantGeneration; here `owner` is the number of *)
(* the request that still owns the outcome, 0 when there is none.  Every   *)
(* change of the machine's generation goes through clearGrantState, so an  *)
(* owned request is one of the current generation.  Times are what is left *)
(* (of a grant's life, of a timer); the clocks of the client and of the    *)
(* server agree, and a timer may fire late.  The page is a secure context. *)
(***************************************************************************)
EXTENDS Integers

CONSTANTS MaxFlows,      \* bound: flows of one page load that become ready
          MaxRequests,   \* bound: grant requests of one page load
          GrantLife,     \* ticks a grant lives
          Buffer,        \* GRANT_REISSUE_BUFFER_MS
          MinDelay,      \* MIN_GRANT_REFRESH_DELAY_MS
          Safety,        \* GRANT_HANDOFF_SAFETY_MS
          MaxAttempts    \* MAX_PREMIUM_UPGRADE_ATTEMPTS

ASSUME GrantAssumption ==
    /\ {MaxFlows, MaxRequests, GrantLife, Buffer, MinDelay, Safety, MaxAttempts} \subseteq Nat
    /\ 0 < MaxAttempts /\ 0 < Safety /\ Safety < MinDelay /\ MinDelay <= Buffer /\ Buffer < GrantLife

VARIABLES ready,     \* the flow on screen is in the phase "ready"
          flow,      \* its generation
          shown,     \* the page is not in the bfcache
          arm,       \* the controller's grant fields
          open,      \* grant requests whose answer has not come
          premium,   \* premiumState, and whether a lookup is in flight
          upgrade,   \* the controller's upgrade fields
          asked,     \* flows with an upgrade request in flight
          grants,    \* the server's grants
          life,      \* what is left of the life of each
          policy     \* the delivery policy of each flow's download

grantVars == <<ready, flow, shown, arm, open, premium, upgrade, asked, grants, life, policy>>

Flows == 1..MaxFlows
GrantIds == 1..MaxRequests
NoTimer == -1

\* clearGrantState
Unarmed(a) ==
    [a EXCEPT !.path = 0, !.arming = FALSE, !.retry = FALSE, !.timer = NoTimer, !.owner = 0]

\* clearUpgradeState
NoUpgrade == [pending |-> FALSE, promoted |-> FALSE, attempts |-> 0, auto |-> FALSE]

GrantsInit ==
    /\ ready = FALSE /\ flow = 0 /\ shown = TRUE
    /\ arm = [path |-> 0, arming |-> FALSE, retry |-> FALSE, timer |-> NoTimer,
              owner |-> 0, prev |-> 0, sent |-> 0]
    /\ open = {}
    /\ premium = [state |-> "loading", lookup |-> FALSE]
    /\ upgrade = NoUpgrade
    /\ asked = {}
    /\ grants = [n \in GrantIds |-> "none"]
    /\ life = [n \in GrantIds |-> 0]
    /\ policy = [f \in Flows |-> "free"]

-----------------------------------------------------------------------------
(* Arming *)

\* grantStillValid(safety)
StillValid(a, safety) == a.path # 0 /\ life[a.path] - safety > 0

\* computeGrantRefreshDelayMs of a grant that has not expired.
RefreshDelay(left) ==
    LET ideal    == left - Buffer
        fallback == IF left \div 2 > MinDelay THEN left \div 2 ELSE MinDelay
        delay    == IF left - 1 < fallback THEN left - 1 ELSE fallback
    IN  IF ideal >= MinDelay THEN ideal ELSE IF delay > 1 THEN delay ELSE 1

\* invalidateExpiredGrantHref
Invalidated(a) ==
    IF StillValid(a, Safety) THEN a
    ELSE [a EXCEPT !.timer = NoTimer, !.path = 0, !.retry = TRUE]

\* scheduleGrantRefresh in the phase "ready".
Scheduled(a) ==
    IF a.path = 0 THEN [a EXCEPT !.timer = NoTimer]
    ELSE IF life[a.path] > 0 THEN [a EXCEPT !.timer = RefreshDelay(life[a.path])]
    ELSE Invalidated([a EXCEPT !.timer = NoTimer])

\* armNativeDownload in the phase "ready", up to its request: nothing while one
\* is in flight, a new timer for a grant with enough life, else a request.
Arming(a) ==
    IF a.arming THEN a
    ELSE IF a.path # 0 /\ life[a.path] > Buffer THEN Scheduled([a EXCEPT !.retry = FALSE])
    ELSE [a EXCEPT !.prev = IF StillValid(a, Safety) THEN a.path ELSE 0,
                   !.path = 0, !.arming = TRUE,
                   !.owner = a.sent + 1, !.sent = a.sent + 1]

\* The requests that turn `arm` into a.
Sends(a) ==
    /\ a.sent <= MaxRequests
    /\ arm' = a
    /\ open' = open \cup ((arm.sent + 1)..a.sent)

\* The grant comes back without its timer.
RevertedUntimed(a) == [a EXCEPT !.arming = FALSE, !.retry = FALSE, !.path = a.prev, !.owner = 0]

\* The grant that the request of arm kept aside comes back.
Reverted(a) == Scheduled([a EXCEPT !.arming = FALSE, !.retry = FALSE, !.path = a.prev, !.owner = 0])

\* createBrowserGrant is answered with a grant.
GrantAnswered(n) ==
    /\ shown
    /\ n \in open /\ grants[n] # "none"
    /\ open' = open \ {n}
    /\ arm' = IF arm.owner = n
              THEN Scheduled([arm EXCEPT !.path = n, !.arming = FALSE, !.retry = FALSE, !.owner = 0])
              ELSE arm
    /\ UNCHANGED <<ready, flow, shown, premium, upgrade, asked, grants, life, policy>>

\* createBrowserGrant fails: a grant that was still valid is kept.
GrantFails(n) ==
    /\ shown
    /\ n \in open
    /\ open' = open \ {n}
    /\ arm' = IF arm.owner # n THEN arm
              ELSE IF arm.prev # 0 THEN Reverted(arm)
              ELSE [arm EXCEPT !.arming = FALSE, !.retry = TRUE, !.owner = 0]
    /\ UNCHANGED <<ready, flow, shown, premium, upgrade, asked, grants, life, policy>>

\* The timer of scheduleGrantRefresh.
TimerFires ==
    /\ shown /\ ready /\ arm.timer = 0
    /\ Sends(Arming([arm EXCEPT !.timer = NoTimer]))
    /\ UNCHANGED <<ready, flow, shown, premium, upgrade, asked, grants, life, policy>>

-----------------------------------------------------------------------------
(* Premium *)

\* upgradeToPremium() may ask.
MayUpgrade(u) == ready /\ ~ u.promoted /\ ~ u.pending /\ u.attempts < MaxAttempts

\* upgradeToPremium up to its request; the grant is dropped first.
Upgrading(u, auto) ==
    [u EXCEPT !.pending = TRUE, !.attempts = u.attempts + 1, !.auto = u.auto \/ auto]

\* The upgrade that follows a positive lookup, once per flow.
UpgradeWhenActive(f, u) ==
    IF ~ u.auto
    THEN /\ upgrade' = Upgrading(u, TRUE) /\ asked' = asked \cup {f}
         /\ arm' = Unarmed(arm)
    ELSE upgrade' = u /\ UNCHANGED <<arm, asked>>

\* refreshPremium is answered.
PremiumAnswered(state) ==
    /\ shown /\ premium.lookup
    /\ premium' = [state |-> state, lookup |-> FALSE]
    /\ IF state = "active" /\ MayUpgrade(upgrade) THEN UpgradeWhenActive(flow, upgrade)
       ELSE UNCHANGED <<upgrade, asked, arm>>
    /\ UNCHANGED <<ready, flow, shown, open, grants, life, policy>>

\* refreshPremium: a lookup in flight is joined.
LookUp(p) == IF p.lookup THEN p ELSE [state |-> "loading", lookup |-> TRUE]

\* initializeAccount, when its quota lookup is over, and enqueueDownload after a
\* refusal.
RefreshPremium ==
    /\ shown /\ ~ premium.lookup
    /\ premium' = LookUp(premium)
    /\ UNCHANGED <<ready, flow, shown, arm, open, upgrade, asked, grants, life, policy>>

\* The visitor asks for the upgrade.
UpgradeToPremium ==
    /\ shown /\ premium.state = "active" /\ MayUpgrade(upgrade)
    /\ upgrade' = Upgrading(upgrade, FALSE)
    /\ asked' = asked \cup {flow}
    /\ arm' = Unarmed(arm)
    /\ UNCHANGED <<ready, flow, shown, open, premium, grants, life, policy>>

\* upgradeDownloadJobToPremium is answered.  `ok` says the server promoted the
\* download; a failure may be a refusal for want of Premium, or any other, and
\* the promotion may have been made all the same.
UpgradeAnswered(f, ok) ==
    /\ shown /\ f \in asked
    /\ ok => policy[f] = "premium"
    /\ asked' = asked \ {f}
    /\ \/ /\ f = flow /\ ready
          /\ upgrade' = [upgrade EXCEPT !.pending = FALSE, !.promoted = ok]
          /\ Sends(Arming(arm))
          /\ premium' \in {premium} \cup (IF ok THEN {} ELSE {LookUp(premium)})
       \/ /\ f # flow \/ ~ ready
          /\ UNCHANGED <<upgrade, arm, open, premium>>
    /\ UNCHANGED <<ready, flow, shown, grants, life, policy>>

-----------------------------------------------------------------------------
(* The life of the flow and of the page *)

\* pollDownload's flow becomes ready: the upgrade arms the grant itself.
BecomeReady ==
    /\ shown /\ ~ ready /\ flow < MaxFlows
    /\ ready' = TRUE /\ flow' = flow + 1
    /\ IF premium.state = "active"
       THEN UpgradeWhenActive(flow + 1, NoUpgrade) /\ UNCHANGED open
       ELSE Sends(Arming(Unarmed(arm))) /\ upgrade' = NoUpgrade /\ UNCHANGED asked
    /\ UNCHANGED <<shown, premium, grants, life, policy>>

\* startOver, or a new flow.
Leave ==
    /\ shown /\ ready
    /\ ready' = FALSE /\ arm' = Unarmed(arm) /\ upgrade' = NoUpgrade
    /\ UNCHANGED <<flow, shown, open, premium, asked, grants, life, policy>>

\* onForegroundResume: focus, visibilitychange, pageshow.
ForegroundResume ==
    /\ shown
    /\ premium' = LookUp(premium)
    /\ IF ~ ready THEN UNCHANGED <<arm, open>>
       ELSE LET a == Invalidated(arm)
            IN  IF a.arming THEN Sends(a)
                ELSE Sends(IF StillValid(a, Buffer) THEN Scheduled(a) ELSE Arming(a))
    /\ UNCHANGED <<ready, flow, shown, upgrade, asked, grants, life, policy>>

\* onPageHide: the aborted request gives the grant it replaces back.
HideGrants ==
    /\ shown /\ shown' = FALSE
    /\ arm' = LET a == [arm EXCEPT !.timer = NoTimer]
              IN  IF ~ a.arming THEN a
                  ELSE IF a.prev # 0 THEN Reverted(a)
                  ELSE [a EXCEPT !.arming = FALSE, !.owner = 0]
    /\ open' = open \ {arm.owner}
    /\ UNCHANGED <<ready, flow, premium, upgrade, asked, grants, life, policy>>

\* onPageShow(persisted): the flow is given up and restored from the record.
ShowGrants ==
    /\ ~ shown /\ shown' = TRUE
    /\ ready' = FALSE /\ arm' = Unarmed(arm) /\ upgrade' = NoUpgrade
    /\ UNCHANGED <<flow, open, premium, asked, grants, life, policy>>

\* The link shown by the last render; what is behind it may be stale by now.
OfferedLink == ready /\ arm.path # 0 /\ ~ arm.arming /\ ~ upgrade.pending

\* onNativeDownloadClick: the browser follows a link that is still valid, any
\* other click arms a new grant.
Click ==
    /\ shown /\ OfferedLink
    /\ IF StillValid(arm, Safety) THEN UNCHANGED <<arm, open>>
       ELSE Sends(Arming(Invalidated(arm)))
    /\ UNCHANGED <<ready, flow, shown, premium, upgrade, asked, grants, life, policy>>

\* snapshot(): armed, downloadHref, canRetryGrant
Armed == arm.path # 0 /\ ~ arm.arming /\ StillValid(arm, Safety)
Offered == ready /\ Armed /\ ~ upgrade.pending
CanRetryGrant ==
    /\ ready /\ ~ arm.arming /\ ~ upgrade.pending /\ ~ Armed
    /\ arm.retry \/ arm.path = 0

RetryGrantAccess ==
    /\ shown /\ CanRetryGrant
    /\ Sends(Arming([arm EXCEPT !.retry = TRUE]))
    /\ UNCHANGED <<ready, flow, shown, premium, upgrade, asked, grants, life, policy>>

-----------------------------------------------------------------------------
(* External: the server, and time *)

IssueGrant(n) ==
    /\ n \in open /\ grants[n] = "none"
    /\ grants' = [grants EXCEPT ![n] = "live"]
    /\ life' = [life EXCEPT ![n] = GrantLife]
    /\ UNCHANGED <<ready, flow, shown, arm, open, premium, upgrade, asked, policy>>

\* The promotion of a download revokes its grants (DeliveryAccess).  The grants
\* of earlier flows belong to other downloads, and no page uses them any more.
Promote(f) ==
    /\ f \in asked /\ policy[f] = "free"
    /\ policy' = [policy EXCEPT ![f] = "premium"]
    /\ grants' = [n \in GrantIds |-> IF grants[n] = "live" /\ f = flow THEN "revoked" ELSE grants[n]]
    /\ UNCHANGED <<ready, flow, shown, arm, open, premium, upgrade, asked, life>>

Elapse ==
    /\ \E n \in GrantIds : life[n] > 0
    /\ life' = [n \in GrantIds |-> IF life[n] > 0 THEN life[n] - 1 ELSE 0]
    /\ arm' = IF arm.timer > 0 THEN [arm EXCEPT !.timer = arm.timer - 1] ELSE arm
    /\ UNCHANGED <<ready, flow, shown, open, premium, upgrade, asked, grants, policy>>

GrantsNext ==
    \/ \E n \in GrantIds : GrantAnswered(n) \/ GrantFails(n)
    \/ \E f \in Flows, ok \in BOOLEAN : UpgradeAnswered(f, ok)
    \/ TimerFires \/ RefreshPremium
    \/ \E state \in {"free", "active", "error"} : PremiumAnswered(state)
    \/ UpgradeToPremium
    \/ BecomeReady \/ Leave \/ ForegroundResume \/ HideGrants \/ ShowGrants
    \/ Click \/ RetryGrantAccess
    \/ \E n \in GrantIds : IssueGrant(n)
    \/ \E f \in Flows : Promote(f)
    \/ Elapse

GrantsSpec == GrantsInit /\ [][GrantsNext]_grantVars

-----------------------------------------------------------------------------
(* Properties *)

\* Types; only a request that was sent can be open or own the outcome, and no more
\* promotions are tried than upgradeToPremium allows.
GrantsTypeOK ==
    /\ ready \in BOOLEAN /\ flow \in 0..MaxFlows /\ shown \in BOOLEAN
    /\ arm.path \in 0..MaxRequests /\ arm.timer \in NoTimer..GrantLife
    /\ arm.owner \in {0, arm.sent} /\ arm.sent \in 0..MaxRequests
    /\ open \subseteq 1..arm.sent
    /\ upgrade.attempts \in 0..MaxAttempts /\ asked \subseteq Flows
    /\ grants \in [GrantIds -> {"none", "live", "revoked"}]
    /\ life \in [GrantIds -> 0..GrantLife]

\* A visitor in the ready phase always has a way on: a link, the retry button,
\* or something that is on its way to one of them (the grant request, the
\* upgrade, the refresh timer).  No failed, late or disowned answer, no abort
\* and no expiry leaves the page without any.
NeverStranded ==
    shown /\ ready =>
        \/ Offered \/ CanRetryGrant
        \/ arm.owner \in open
        \/ upgrade.pending /\ flow \in asked
        \/ arm.timer # NoTimer

\* "Preparing" is shown exactly while the controller owns a request in flight,
\* so concurrent retries, refreshes and resumes share one request.
ArmingIsOwned == arm.arming <=> arm.owner # 0 /\ arm.owner \in open

\* The refresh timer of a grant is due before the grant expires, also when it is
\* set late in the grant's life or for a grant that was put back.
RefreshPrecedesExpiry ==
    arm.path # 0 /\ arm.timer # NoTimer /\ life[arm.path] > 1 => arm.timer < life[arm.path]

\* The page calls a download promoted only when the server has promoted it,
\* whatever answers of earlier flows come late.
PromotedIsTrue == upgrade.promoted => ready /\ policy[flow] = "premium"

\* The link is never one of an earlier flow, nor one that another request of
\* this flow has replaced, unless that request failed.
LinkIsTheLatest == arm.path # 0 => ready /\ arm.path \in {arm.sent, arm.prev}

\* The link that is offered can be used: its grant is live on the server.
OfferedLinkIsLive == Offered => grants[arm.path] = "live"
=============================================================================
