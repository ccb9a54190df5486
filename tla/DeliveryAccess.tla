--------------------------- MODULE DeliveryAccess ---------------------------
(***************************************************************************)
(* One ready download and the requests for its bytes: the browser grants   *)
(* the API issues (downloads/grant_service, grant_repository), and the     *)
(* content handlers of the delivery service (delivery/routes, service,     *)
(* reader, stream) with what they hold while they run: a permit of the     *)
(* process's semaphore and the artifact's file descriptor.                 *)
(*                                                                         *)
(* A handler may be cancelled at any await.  The ASGI server may drop a    *)
(* returned response without ever iterating its body.  What the ledger     *)
(* does with an attempt is the module DeliveryAccounting.                  *)
(***************************************************************************)
EXTENDS Integers, FiniteSets, ByteRanges

CONSTANTS Grants,        \* grant ids
          Requests,      \* content requests
          Concurrency,   \* media_delivery_concurrency
          MaxGrants,     \* media_browser_grant_max_active
          GrantTTL,      \* media_browser_grant_ttl_seconds
          JobTTL,        \* time at which the download expires
          FileSize,      \* bytes of the artifact, one per chunk
          Bearer,        \* the parent's access token, not a grant
          MaxClock       \* bound: the clock stops here

ASSUME AccessAssumption ==
    /\ Bearer \notin Grants
    /\ {Concurrency, MaxGrants, GrantTTL, JobTTL, FileSize} \subseteq Nat \ {0}
    /\ MaxClock \in Nat

VARIABLES now,       \* the database clock and, for the pacer, the monotonic one
          life,      \* public state of the download job
          policy,    \* the effective policy in the job's snapshot
          entry,     \* state of its quota entry
          disk,      \* what is left of the artifact's published directory
          artifact,  \* how its files compare with the row (no code changes them)
          grants,    \* media_delivery_grants
          permits,   \* free permits of the semaphore
          requests   \* the content handlers

jobVars == <<life, policy, entry>>
accessVars == <<now, jobVars, disk, artifact, grants, permits, requests>>

\* Free, with the delivery rate limit on or off, or Premium, which has no rate.
Policies == {"throttled", "unthrottled", "premium"}

\* A Premium download has no entry, nor has a Free one made with the quota off.
EntryStates == {"none", "reserved", "consumed", "released", "expired"}

NoGrant == [state |-> "absent"]
GrantRows == [state : {"active", "revoked"}, created : Nat, expires : Nat]

Files == {"dir", "manifest", "media"}

\* The manifest has every field of its schema and the row's values, or other
\* values, or it does not parse.  The media file is the regular file of the
\* row's size, or has another size, or is a link, a foreign file, not regular.
Artifacts == [manifest : {"agrees", "differs", "broken"}, media : {"whole", "short", "unsafe"}]

\* idle; waiting for a permit; past authorize; in open_published with the
\* directory open, with the manifest checked, on its way out by an exception;
\* artifact open; ledger attempt begun; response returned; a chunk read and
\* paced; the next one wanted; in the body's finally; over.
Pcs == {"idle", "waiting", "authorized", "walked", "checked", "failed", "open",
        "begun", "returned", "paced", "sending", "finalizing", "done", "dropped"}

\* open_published does not await: no other handler runs between its steps.
Reading == {"walked", "checked", "failed"}

NewRequest == [pc |-> "idle", key |-> Bearer, policy |-> "none", permit |-> FALSE, fds |-> {},
               header |-> [form |-> "absent"], at |-> 0, end |-> 0,
               deadline |-> 0, last |-> 0]

AccessInit ==
    /\ now = 0
    /\ life = "ready"
    /\ policy \in Policies
    /\ entry \in IF policy = "premium" THEN {"none"} ELSE {"none", "reserved"}
    /\ disk = Files
    /\ artifact \in Artifacts
    /\ grants = [g \in Grants |-> NoGrant]
    /\ permits = Concurrency
    /\ requests = [r \in Requests |-> NewRequest]

Clock ==
    /\ now < MaxClock
    /\ now' = now + 1
    /\ UNCHANGED <<jobVars, disk, artifact, grants, permits, requests>>

-----------------------------------------------------------------------------
(* Browser grants *)

LiveAt(g, t) == grants[g].state = "active" /\ grants[g].expires > t
ActiveGrants == {g \in Grants : LiveAt(g, now)}

\* active[:overflow] of the grants ordered by created_at; ties in any order.
Oldest(S, n) ==
    {T \in SUBSET S : /\ Cardinality(T) = n
                      /\ \A g \in T, h \in S \ T : grants[g].created <= grants[h].created}

Revoked(S) ==
    [g \in Grants |-> IF g \in S THEN [grants[g] EXCEPT !.state = "revoked"] ELSE grants[g]]

Overflow == Cardinality(ActiveGrants) - (MaxGrants - 1)

\* issue: under the lock of the life's row, with the clock read after it.
Issue(g) ==
    /\ grants[g] = NoGrant
    /\ life = "ready" /\ now < JobTTL
    /\ \E evicted \in Oldest(ActiveGrants, IF Overflow > 0 THEN Overflow ELSE 0) :
         grants' = [Revoked(evicted) EXCEPT ![g] =
             [state |-> "active", created |-> now, expires |-> Least(now + GrantTTL, JobTTL)]]
    /\ UNCHANGED <<now, jobVars, disk, artifact, permits, requests>>

\* The Premium upgrade of a Free download, with the clock read before the locks: a
\* reservation is given back unless all of the artifact was delivered, every active
\* grant is revoked.  It refuses while an attempt's lease is live, which is the
\* module DeliveryAccounting's matter: a lease may have lapsed under its response.
UpgradeJob ==
    /\ life = "ready" /\ policy # "premium"
    /\ policy' = "premium"
    /\ entry' \in IF entry = "reserved" THEN {"consumed", "released"} ELSE {entry}
    /\ \E read \in 0..now :
         read < JobTTL /\ grants' = Revoked({g \in Grants : LiveAt(g, read)})
    /\ UNCHANGED <<now, life, disk, artifact, permits, requests>>

\* _consume_if_complete, by whichever response or pass completes the coverage.
Charge ==
    /\ life = "ready" /\ entry = "reserved"
    /\ entry' = "consumed"
    /\ UNCHANGED <<now, life, policy, disk, artifact, grants, permits, requests>>

\* delete_expired_batch
DeleteGrants ==
    LET gone == {g \in Grants : grants[g] # NoGrant /\ ~ LiveAt(g, now)}
    IN  /\ gone # {}
        /\ grants' = [g \in Grants |-> IF g \in gone THEN NoGrant ELSE grants[g]]
        /\ UNCHANGED <<now, jobVars, disk, artifact, permits, requests>>

\* expire_due_jobs revokes the grants, clears the pointer and settles a reservation; a
\* delivery in progress may defer it (DeliveryAccounting).
ExpireJob ==
    /\ life = "ready" /\ JobTTL <= now
    /\ life' = "expired"
    /\ entry' = IF entry = "reserved" THEN "expired" ELSE entry
    /\ grants' = Revoked(ActiveGrants)
    /\ UNCHANGED <<now, policy, disk, artifact, permits, requests>>

\* delete_artifact, after the expiry was committed: rmtree removes one entry
\* after the other, the directory last, and may stop at an error.
DeleteEntry(e) ==
    /\ life = "expired" /\ e \in disk
    /\ e = "dir" => disk = {"dir"}
    /\ disk' = disk \ {e}
    /\ UNCHANGED <<now, jobVars, artifact, grants, permits, requests>>

-----------------------------------------------------------------------------
(* A content request *)

Set(r, rec) == requests' = [requests EXCEPT ![r] = rec]
Move(r, pc) == Set(r, [requests[r] EXCEPT !.pc = pc])

\* _cleanup_prestream that forgets the permit.
CleanupKeepsPermit(r) ==
    /\ Set(r, [NewRequest EXCEPT !.pc = "done", !.permit = requests[r].permit])
    /\ UNCHANGED permits

\* _cleanup_prestream: every early return and every exception before the
\* response is returned closes the handle and gives the permit back.  Other
\* descriptors are not its business.
Cleanup(r) ==
    /\ Set(r, [NewRequest EXCEPT !.pc = "done", !.fds = requests[r].fds \ {"media"}])
    /\ permits' = IF requests[r].permit THEN permits + 1 ELSE permits

\* The token's shape is checked before the semaphore.
Arrive(r, key) ==
    /\ requests[r].pc = "idle"
    /\ Set(r, [requests[r] EXCEPT !.pc = "waiting", !.key = key])
    /\ UNCHANGED <<now, jobVars, disk, artifact, grants, permits>>

\* authorize and authorize_browser_grant: plain reads, no lock.
Authorized(key) ==
    /\ life = "ready" /\ now < JobTTL
    /\ key # Bearer => grants[key] # NoGrant /\ LiveAt(key, now)

\* The permit is taken, then the request is authorized, with the policy of the moment,
\* or refused.
Acquire(r) ==
    /\ requests[r].pc = "waiting" /\ permits > 0
    /\ \/ /\ Authorized(requests[r].key)
          /\ Set(r, [requests[r] EXCEPT !.pc = "authorized", !.permit = TRUE,
                                            !.policy = policy])
          /\ permits' = permits - 1
       \/ /\ ~ Authorized(requests[r].key)
          /\ Cleanup(r)
    /\ UNCHANGED <<now, jobVars, disk, artifact, grants>>

-----------------------------------------------------------------------------
(* open_artifact: the row read by authorize had not expired *)

\* A failed check raises: the finally clauses of open_published close what it
\* has opened, and the exception is on its way to the handler.
Refuse(r) == Set(r, [requests[r] EXCEPT !.pc = "failed", !.fds = {}])

\* open_root_fd and _open_child_dir walk from / to the artifact's directory
\* without following links, each descriptor closed when the next is open.
Walk(r) ==
    /\ requests[r].pc = "authorized"
    /\ IF "dir" \in disk
       THEN Set(r, [requests[r] EXCEPT !.pc = "walked", !.fds = {"dir"}])
       ELSE Refuse(r)
    /\ UNCHANGED <<now, jobVars, disk, artifact, grants, permits>>

\* _assert_manifest_coherent: job, format, fence, attempt, size, container,
\* content type, digest and expiry against the row.
Coherent == artifact.manifest = "agrees"

\* _read_manifest, then the coherence check.
CheckManifest(r) ==
    /\ requests[r].pc = "walked"
    /\ IF "manifest" \in disk /\ artifact.manifest # "broken" /\ Coherent
       THEN Move(r, "checked")
       ELSE Refuse(r)
    /\ UNCHANGED <<now, jobVars, disk, artifact, grants, permits>>

\* _open_regular_child and the size check; an entry unlinked between its open
\* and its fstat has no link left and is refused like one that is gone.  The
\* directory is closed and the handle returned.
OpenMedia(r) ==
    /\ requests[r].pc = "checked"
    /\ IF "media" \in disk /\ artifact.media = "whole"
       THEN Set(r, [requests[r] EXCEPT !.pc = "open", !.fds = {"media"}])
       ELSE Refuse(r)
    /\ UNCHANGED <<now, jobVars, disk, artifact, grants, permits>>

-----------------------------------------------------------------------------
(* The response *)

\* begin books nothing, takes no lock and authorizes nothing again for a request that
\* was authorized as Premium or whose download has no quota entry.
Accounted(r) == requests[r].policy # "premium" /\ entry # "none"

\* begin without its revalidate callback.
NotRevalidated(r) == TRUE

\* The revalidate callback of begin: the same checks, now under the locks of
\* the job and its entry.
Revalidated(r) == Authorized(requests[r].key)

\* What begin asks of an accounted request.  A consumed entry streams unbooked, one
\* that was given back is refused (ACCOUNTING_QUOTA_TERMINAL).
Begun(r) == Accounted(r) => Revalidated(r) /\ entry \in {"reserved", "consumed"}

\* The Range header is applied.  416, 400 and a HEAD request end here; otherwise
\* begin accepts the request and the response is built for the selected interval.
BeginStream(r, header) ==
    LET range == ParseRange(header, FileSize)
        interval == Selected(range, FileSize)
        refused == range.kind \in {"unsatisfiable", "refused"}
    IN  /\ requests[r].pc = "open"
        /\ \/ /\ ~ refused /\ Begun(r)
              /\ Set(r, [requests[r] EXCEPT !.pc = "begun", !.header = header,
                                            !.at = interval[1], !.end = interval[2]])
              /\ UNCHANGED permits
           \/ /\ refused \/ ~ Begun(r)
              /\ Cleanup(r)
        /\ UNCHANGED <<now, jobVars, disk, artifact, grants>>

HeadOnly(r) ==
    /\ requests[r].pc = "open"
    /\ Cleanup(r)
    /\ UNCHANGED <<now, jobVars, disk, artifact, grants>>

\* StreamingResponse is constructed and the body becomes the owner of both.
Return(r) ==
    /\ requests[r].pc = "begun"
    /\ Move(r, "returned")
    /\ UNCHANGED <<now, jobVars, disk, artifact, grants, permits>>

\* CancelledError or any other exception before the return.
Cancel(r) ==
    /\ requests[r].pc \in {"waiting", "authorized", "failed", "open", "begun"}
    /\ Cleanup(r)
    /\ UNCHANGED <<now, jobVars, disk, artifact, grants>>

\* pace: the deadline moves on from the later of itself and the clock.  Without a
\* rate there is no pacer.
Paced(q) ==
    IF q.policy = "throttled" THEN (IF q.deadline >= now THEN q.deadline ELSE now) + 1
    ELSE q.deadline

\* iter_fd_range reads the next chunk and paces it.
Pace(r) ==
    /\ requests[r].pc \in {"returned", "sending"}
    /\ requests[r].at < requests[r].end
    /\ Set(r, [requests[r] EXCEPT !.pc = "paced", !.deadline = Paced(requests[r]),
                                  !.header = NewRequest.header, !.key = Bearer])
    /\ UNCHANGED <<now, jobVars, disk, artifact, grants, permits>>

\* The chunk is yielded once its deadline has passed.
Yield(r) ==
    /\ requests[r].pc = "paced" /\ requests[r].deadline <= now
    /\ Set(r, [requests[r] EXCEPT !.pc = "sending", !.at = @ + 1, !.last = now])
    /\ UNCHANGED <<now, jobVars, disk, artifact, grants, permits>>

\* The last byte, an early EOF, a failed checkpoint or a disconnect.
\* iter_fd_range closes the descriptor in its finally.
EndStream(r) ==
    /\ requests[r].pc \in {"paced", "sending"}
    /\ Set(r, [NewRequest EXCEPT !.pc = "finalizing", !.permit = TRUE])
    /\ UNCHANGED <<now, jobVars, disk, artifact, grants, permits>>

\* The body's finally: the accounting is finalized, or that fails, and the
\* permit is released in either case.
Finish(r) ==
    /\ requests[r].pc = "finalizing"
    /\ Cleanup(r)
    /\ UNCHANGED <<now, jobVars, disk, artifact, grants>>

\* External: the server drops the returned response without iterating its
\* body.  No finally of the handler or of the body runs.
Drop(r) ==
    /\ requests[r].pc = "returned"
    /\ Move(r, "dropped")
    /\ UNCHANGED <<now, jobVars, disk, artifact, grants, permits>>

RequestStep(r) ==
    /\ \A other \in Requests \ {r} : requests[other].pc \notin Reading
    /\ \/ \E key \in Grants \cup {Bearer} : Arrive(r, key)
       \/ Acquire(r) \/ Walk(r) \/ CheckManifest(r) \/ OpenMedia(r) \/ HeadOnly(r)
       \/ \E h \in Headers(FileSize + 1) : BeginStream(r, h)
       \/ Return(r) \/ Pace(r) \/ Yield(r) \/ EndStream(r) \/ Finish(r)
       \/ Cancel(r) \/ Drop(r)

AccessNext ==
    \/ Clock
    \/ \E g \in Grants : Issue(g)
    \/ UpgradeJob \/ Charge \/ DeleteGrants \/ ExpireJob
    \/ \E e \in Files : DeleteEntry(e)
    \/ \E r \in Requests : RequestStep(r)

AccessSpec == AccessInit /\ [][AccessNext]_accessVars

-----------------------------------------------------------------------------
(* Properties *)

\* Types; the semaphore never counts above the configured concurrency.
AccessTypeOK ==
    /\ now \in 0..MaxClock
    /\ life \in {"ready", "expired"} /\ policy \in Policies /\ entry \in EntryStates
    /\ disk \subseteq Files /\ artifact \in Artifacts
    /\ \A g \in Grants : grants[g] = NoGrant \/ grants[g] \in GrantRows
    /\ permits \in 0..Concurrency
    /\ \A r \in Requests : requests[r].pc \in Pcs

\* At no time are more than media_browser_grant_max_active grants of a
\* download usable, however many tabs ask for one.
GrantsAreBounded == Cardinality(ActiveGrants) <= MaxGrants

\* A permit is held exactly by the requests between authorization and their
\* end; a request that is over holds neither a permit nor a descriptor,
\* whichever exit it took; and the directory's descriptor never outlives
\* open_published.
NothingIsLeaked ==
    /\ permits + Cardinality({r \in Requests : requests[r].permit}) = Concurrency
    /\ \A r \in Requests :
         /\ requests[r].pc = "done" => ~ requests[r].permit /\ requests[r].fds = {}
         /\ "dir" \in requests[r].fds => requests[r].pc \in Reading

\* Whatever is deleted while open_published runs, a handler gets a descriptor
\* only of a media file that agrees with its manifest and its row.
OnlyTheArtifactIsOpened ==
    \A r \in Requests :
        "media" \in requests[r].fds =>
            artifact.manifest = "agrees" /\ artifact.media = "whole"

\* The bytes a response has sent and will send are the bytes its Range header
\* asks for, and a header that asks for none gets none.
ResponseIsTheRange ==
    \A r \in Requests :
        LET q == requests[r]
        IN  q.pc \in {"begun", "returned"} =>
                q.at..(q.end - 1) = Asked(q.header, FileSize) /\ q.at < q.end

\* A Free response that is booked starts only for a download that may still be delivered
\* and with a grant that is still good, whatever happened since the request was
\* authorized; nor does it start against a reservation that the upgrade gave back.
\* Requests that are not booked are decided by their authorization alone.
RevokedStartsNothing ==
    [][\A r \in Requests :
         requests[r].pc = "open" /\ requests'[r].pc = "begun" /\ Accounted(r) =>
             /\ life = "ready" /\ now < JobTTL
             /\ requests[r].key \in Grants => requests[r].key \in ActiveGrants
             /\ policy = "premium" => entry = "consumed"]_accessVars

\* The pacer gives no credit for a stall: a chunk follows the one before it by
\* at least the time its bytes take at the rate of the request's policy.
ChunksAreSpaced ==
    [][\A r \in Requests :
         requests'[r].at > requests[r].at /\ requests[r].last > 0
             /\ requests[r].pc = "paced" /\ requests[r].policy = "throttled" =>
             requests'[r].last > requests[r].last]_accessVars

\* A response sends what was asked for, of the artifact the row names, and, whichever
\* way it ends, gives back what it held.
ResponsesAreSound == NothingIsLeaked /\ OnlyTheArtifactIsOpened /\ ResponseIsTheRange

\* A booked delivery starts only while the download may be delivered, and a throttled one
\* goes no faster than the rate of its policy.
DeliveryIsAllowed == RevokedStartsNothing /\ ChunksAreSpaced
=============================================================================
