------------------------------ MODULE WebFlow ------------------------------
(***************************************************************************)
(* The media flow of the web client (web/src/lib/media-flow): the phase    *)
(* machine, the controller's asynchronous chains (submit, restore, poll,   *)
(* enqueue, cancel) and the recovery record in sessionStorage.             *)
(*                                                                         *)
(* A chain runs between two awaits in one step.  Start over, a new flow    *)
(* and the page going away do not stop it: they abort its signal and give  *)
(* the machine a new generation, and what it does when its answer comes is *)
(* for its own checks to decide.  An aborted request fails, unless its     *)
(* answer was already there; both may come late, but see Settled.          *)
(*                                                                         *)
(* A media job is named by the number of the submission that made it; its  *)
(* download and its access token have the same name.  The server's side    *)
(* (MediaJobQueue, DownloadJobs) is reduced to the states a poll tells     *)
(* apart.  The grants of a ready download are the module WebGrants.        *)
(***************************************************************************)
EXTENDS Integers

CONSTANTS Media,      \* media jobs: a set of numbers
          None,
          MaxGen      \* bound: generations of one page load

ASSUME FlowAssumption == Media \subseteq Nat /\ None \notin Media /\ MaxGen \in Nat

VARIABLES phase, generation, busy,    \* FlowMachine
          token, media, file,         \* credential, mediaJob, downloadJob
          resumeId, restored, error,  \* controller fields
          record,                     \* the recovery record, or None
          chains,                     \* the running chain of each generation
          cancels,                    \* cancelTask awaiting its answer
          page,                       \* visible, or hidden in the bfcache
          inspections, files          \* the server's jobs

machine == <<phase, generation, busy>>
fields == <<token, media, file, resumeId, restored, error>>
serverVars == <<inspections, files>>
flowVars == <<machine, fields, record, chains, cancels, page, serverVars>>

Generations == 0..MaxGen
Ended == [pc |-> "ended", job |-> None, aborted |-> FALSE, resumed |-> FALSE]
Chain(pc, j, resumed) == [pc |-> pc, job |-> j, aborted |-> FALSE, resumed |-> resumed]

Terminal == {"inspection_failed", "download_failed", "expired", "unsupported",
             "cancelled", "network_error"}
Restorable == {"submitting", "inspecting", "inspected", "enqueueing_download",
               "downloading", "ready"}
Working == {"submitting", "inspecting", "enqueueing_download", "downloading"}

\* ALLOWED; internal_error is never asked for.
CanTransition(from, to) ==
    CASE from = "idle"       -> to = "submitting"
      [] from = "submitting" -> to \in (Terminal \ {"download_failed"}) \cup {"inspecting"}
      [] from = "inspecting" -> to \in (Terminal \ {"download_failed"}) \cup {"inspected"}
      [] from = "inspected"  -> to \in {"enqueueing_download", "cancelled", "expired", "unsupported"}
      [] from = "enqueueing_download" ->
             to \in (Terminal \ {"inspection_failed"}) \cup {"inspected", "downloading"}
      [] from = "downloading" ->
             to \in (Terminal \ {"inspection_failed", "unsupported"}) \cup {"ready"}
      [] from = "ready"      -> to \in {"cancelled", "expired"}
      [] OTHER               -> to = "idle"

FlowInit ==
    /\ phase = "idle" /\ generation = 0 /\ busy = FALSE
    /\ token = None /\ media = None /\ file = None
    /\ resumeId = None /\ restored = FALSE /\ error = FALSE
    /\ record = None
    /\ chains = [g \in Generations |-> Ended]
    /\ cancels = [g \in Generations |-> None]
    /\ page = "visible"
    /\ inspections = [j \in Media |-> "none"]
    /\ files = [j \in Media |-> "none"]

-----------------------------------------------------------------------------
(* The recovery record *)

\* isCoherent; a format is selected whenever a media job was inspected.
Coherent(r) ==
    /\ r.phase \in Restorable /\ r.media # None
    /\ (r.file # None) <=> (r.phase \in {"downloading", "ready"})

ASSUME RecordAssumption ==
    None \notin [phase : Restorable, token : Media, media : Media, file : Media \cup {None}]

\* persist() and FlowSession.write(): the record of the given state, nothing
\* when it is not restorable or not coherent, the old one when there is no
\* expiry to store yet.
Persisted(ph, tok, med, fil) ==
    IF tok = None \/ ph \notin Restorable THEN None
    ELSE IF med = None /\ fil = None THEN record
    ELSE LET r == [phase |-> ph, token |-> tok, media |-> med, file |-> fil]
         IN  IF Coherent(r) THEN r ELSE None

-----------------------------------------------------------------------------
(* Chains *)

\* isCurrentGeneration
Current(g) == g = generation

Running(g) == page = "visible" /\ chains[g].pc # "ended"
At(g, pcs) == page = "visible" /\ chains[g].pc \in pcs

Goto(g, c) == chains' = [chains EXCEPT ![g] = c]
EndChain(g) == Goto(g, Ended)

\* An answer to a chain of an older generation: the chain returns and changes
\* nothing else, not even `busy`.
Dropped(g) ==
    /\ EndChain(g)
    /\ UNCHANGED <<machine, fields, record, cancels, page>>

\* The same, for a request or a poll of resume() that throws: its catch forgets the
\* download to be restored before fail() looks at the generation.
DroppedResume(g) ==
    /\ EndChain(g)
    /\ resumeId' = IF chains[g].resumed THEN None ELSE resumeId
    /\ UNCHANGED <<machine, token, media, file, restored, error, record, cancels, page>>

\* The same, for a restored download that throws: pollInspection's catch forgets the download
\* before it looks at the generation.
DroppedFile(g) ==
    /\ EndChain(g)
    /\ file' = IF chains[g].resumed THEN None ELSE file
    /\ UNCHANGED <<machine, token, media, resumeId, restored, error, record, cancels, page>>

\* A rejection is handled before the next answer comes from the network.
Settled(g) ==
    \A h \in Generations \ {g} : chains[h].aborted => chains[h].pc \notin {"file", "download"}

\* fail() that forgets the credential in memory only.
FailKeepsRecord(g, to) ==
    /\ CanTransition(phase, to)
    /\ phase' = to /\ error' = TRUE /\ busy' = FALSE /\ token' = None
    /\ EndChain(g)
    /\ UNCHANGED <<generation, record, media, file, resumeId, restored, cancels, page>>

\* fail(): the phase, or idle when the transition is illegal; a terminal
\* phase forgets the credential and the record.
Fail(g, to) ==
    LET legal == CanTransition(phase, to)
    IN  /\ phase' = IF legal THEN to ELSE "idle"
        /\ generation' = IF legal THEN generation ELSE generation + 1
        /\ busy' = FALSE /\ error' = TRUE
        /\ token' = IF legal THEN None ELSE token
        /\ record' = IF legal THEN None ELSE record
        /\ resumeId' = IF At(g, {"resume", "inspection"}) THEN None ELSE resumeId
        /\ EndChain(g)
        /\ UNCHANGED <<media, file, restored, cancels, page>>

\* submit(): the form is enabled in idle only.  The token is new.
Submit(j) ==
    /\ page = "visible" /\ phase = "idle" /\ ~ busy /\ generation < MaxGen
    /\ inspections[j] = "none" /\ \A i \in Media : i < j => inspections[i] # "none"
    /\ phase' = "submitting" /\ generation' = generation + 1 /\ busy' = TRUE
    /\ token' = j /\ media' = None /\ file' = None
    /\ resumeId' = None /\ error' = FALSE
    /\ chains' = [chains EXCEPT ![generation + 1] = Chain("create", j, FALSE)]
    /\ inspections' = [inspections EXCEPT ![j] = "unanswered"]
    /\ UNCHANGED <<restored, record, cancels, page, files>>

\* createInspectionJob is answered; when it fails the job may exist all the
\* same.
SubmitAnswered(g, ok) ==
    LET j == chains[g].job
    IN  /\ At(g, {"create"})
        /\ inspections[j] = "unanswered"
        /\ \E made \in {"running", "lost"} :
             /\ ok => made = "running"
             /\ inspections' = [inspections EXCEPT ![j] = made]
        /\ \/ /\ ok /\ Current(g)
              /\ media' = j
              /\ record' = Persisted(phase, token, j, file)
              /\ phase' = "inspecting"
              /\ Goto(g, [chains[g] EXCEPT !.pc = "inspection"])
              /\ UNCHANGED <<generation, busy, token, file, resumeId, restored, error, cancels, page>>
           \/ /\ ~ ok /\ Current(g)
              /\ \E to \in {"unsupported", "network_error", "inspection_failed"} : Fail(g, to)
           \/ /\ ~ Current(g) \/ chains[g].aborted
              /\ Dropped(g)
        /\ UNCHANGED files

\* getInspectionJob of resume() is answered.
ResumeAnswered(g, ok) ==
    /\ At(g, {"resume"})
    /\ \/ /\ ok /\ Current(g)
          /\ media' = chains[g].job
          /\ phase' = "inspecting"
          /\ Goto(g, [chains[g] EXCEPT !.pc = "inspection"])
          /\ UNCHANGED <<generation, busy, token, file, resumeId, restored, error, record, cancels, page>>
       \/ ~ ok /\ Current(g) /\ Fail(g, "network_error")
       \/ ok /\ ~ Current(g) /\ Dropped(g)
       \/ ~ ok /\ (~ Current(g) \/ chains[g].aborted) /\ DroppedResume(g)
    /\ UNCHANGED serverVars

\* onTick of pollInspection: a value that is not terminal.
InspectionTick(g) ==
    /\ At(g, {"inspection"}) /\ Current(g)
    /\ inspections[chains[g].job] = "running"
    /\ record' = Persisted(phase, token, media, file)
    /\ UNCHANGED <<machine, fields, chains, cancels, page, serverVars>>

\* The rest of pollInspection once the job was inspected: the onTick of the
\* terminal value, then the download of a restored session, or the end.
Inspected(g) ==
    /\ Current(g)
    /\ phase' = "inspected"
    /\ resumeId' = None
    /\ \/ /\ resumeId # None /\ token # None
          /\ Goto(g, [chains[g] EXCEPT !.pc = "file", !.job = resumeId])
          /\ record' = Persisted(phase, token, media, file)
          /\ UNCHANGED busy
       \/ /\ resumeId = None \/ token = None
          /\ EndChain(g)
          /\ record' = Persisted("inspected", token, media, file)
          /\ busy' = FALSE
    /\ UNCHANGED <<generation, token, media, file, restored, error, cancels, page>>

\* pollUntilTerminal without a deadline.
InspectionEndsWhenDone(g) ==
    LET state == inspections[chains[g].job]
    IN  /\ At(g, {"inspection"})
        /\ \/ state = "inspected" /\ Inspected(g)
           \/ state = "failed" /\ Current(g) /\ Fail(g, "inspection_failed")
           \/ state = "expired" /\ Current(g) /\ Fail(g, "expired")
           \/ ~ Current(g) /\ Dropped(g)
           \/ (~ Current(g) \/ chains[g].aborted) /\ DroppedResume(g)
        /\ UNCHANGED serverVars

\* pollUntilTerminal of an inspection ends: a terminal state, its deadline, the
\* job's expiry, or an error that is not retried (any more).
InspectionEnds(g) ==
    LET state == inspections[chains[g].job]
    IN  /\ At(g, {"inspection"})
        /\ \/ state = "inspected" /\ Inspected(g)
           \/ state = "failed" /\ Current(g) /\ Fail(g, "inspection_failed")
           \/ state = "expired" /\ Current(g) /\ Fail(g, "expired")
           \/ Current(g) /\ Fail(g, IF chains[g].resumed THEN "network_error" ELSE "inspection_failed")
           \/ ~ Current(g) /\ Dropped(g)
           \/ (~ Current(g) \/ chains[g].aborted) /\ DroppedResume(g)
        /\ UNCHANGED serverVars

\* The catch of a restored download that does not look at the generation.
ResumeFailsAnyFlow(g, shown) ==
    /\ file' = None /\ busy' = FALSE
    /\ record' = Persisted(phase, token, media, None)
    /\ error' = (error \/ shown)
    /\ EndChain(g)
    /\ UNCHANGED <<phase, generation, token, media, resumeId, restored, cancels, page>>

\* The catch of a restored download: no download, not busy, whatever the phase.
ResumeFails(g, shown) ==
    /\ Current(g)
    /\ file' = None /\ busy' = FALSE
    /\ record' = Persisted(phase, token, media, None)
    /\ error' = (error \/ shown)
    /\ EndChain(g)
    /\ UNCHANGED <<phase, generation, token, media, resumeId, restored, cancels, page>>

\* getDownloadJob of a restored session is answered.
FileAnswered(g, ok) ==
    /\ At(g, {"file"})
    /\ \/ /\ ok /\ Current(g) /\ Settled(g)
          /\ file' = chains[g].job
          /\ phase' = "downloading"
          /\ Goto(g, [chains[g] EXCEPT !.pc = "download"])
          /\ UNCHANGED <<generation, busy, token, media, resumeId, restored, error, record, cancels, page>>
       \/ ~ ok /\ ResumeFails(g, TRUE)
       \/ chains[g].aborted /\ ResumeFails(g, FALSE)
       \/ ok /\ ~ Current(g) /\ Dropped(g)
       \/ ~ ok /\ ~ Current(g) /\ DroppedFile(g)
    /\ UNCHANGED serverVars

\* enqueueDownload() up to the quota lookup.
EnqueueDownload ==
    /\ page = "visible" /\ phase = "inspected" /\ ~ busy
    /\ token # None /\ media # None
    /\ phase' = "enqueueing_download" /\ busy' = TRUE /\ error' = FALSE
    /\ Goto(generation, Chain("quota", None, FALSE))
    /\ UNCHANGED <<generation, token, media, file, resumeId, restored, record, cancels, page, serverVars>>

\* refreshQuota(false) is answered.  Its request has a signal of its own, and
\* the next one is made for whatever media job the controller holds by then.
QuotaAnswered(g, ok) ==
    /\ At(g, {"quota"})
    /\ \/ /\ ok /\ media # None
          /\ Goto(g, [chains[g] EXCEPT !.pc = "enqueue", !.job = media])
          /\ UNCHANGED <<machine, fields, record, cancels, page>>
       \/ ~ ok /\ Current(g) /\ Fail(g, "download_failed")
       \/ (~ ok \/ media = None) /\ ~ Current(g) /\ Dropped(g)
    /\ UNCHANGED serverVars

\* createDownloadJob is answered: created (or found), refused for want of
\* Premium, or failed.
EnqueueAnswered(g, answer) ==
    LET j == chains[g].job
    IN  /\ At(g, {"enqueue"})
        /\ files' = IF answer = "ok" /\ files[j] = "none"
                    THEN [files EXCEPT ![j] = "running"] ELSE files
        /\ \/ /\ answer = "ok" /\ Current(g) /\ Settled(g)
              /\ file' = j
              /\ phase' = "downloading"
              /\ record' = Persisted("downloading", token, media, j)
              /\ Goto(g, [chains[g] EXCEPT !.pc = "download"])
              /\ UNCHANGED <<generation, busy, token, media, resumeId, restored, error, cancels, page>>
           \/ /\ answer = "premium" /\ Current(g)
              /\ Goto(g, [chains[g] EXCEPT !.pc = "premium"])
              /\ UNCHANGED <<machine, fields, record, cancels, page>>
           \/ answer = "error" /\ Current(g) /\ Fail(g, "download_failed")
           \/ (~ Current(g) \/ chains[g].aborted) /\ Dropped(g)
        /\ UNCHANGED inspections

\* refreshPremium of that refusal is over.  The generation is checked by
\* transition() alone: the message and endAction() reach whichever flow is
\* current.
PremiumRefreshed(g) ==
    /\ At(g, {"premium"})
    /\ error' = TRUE /\ busy' = FALSE
    /\ phase' = IF Current(g) THEN "inspected" ELSE phase
    /\ EndChain(g)
    /\ UNCHANGED <<generation, token, media, file, resumeId, restored, record, cancels, page, serverVars>>

\* onTick of pollDownload that does not look at the generation.
DownloadTickAnyFlow(g) ==
    /\ At(g, {"download"})
    /\ files[chains[g].job] = "running"
    /\ file' = chains[g].job
    /\ record' = Persisted(phase, token, media, chains[g].job)
    /\ UNCHANGED <<machine, token, media, resumeId, restored, error, chains, cancels, page, serverVars>>

\* onTick of pollDownload, also for an answer that came with the abort.
DownloadTick(g) ==
    /\ At(g, {"download"}) /\ Current(g)
    /\ files[chains[g].job] = "running"
    /\ file' = chains[g].job
    /\ record' = Persisted(phase, token, media, chains[g].job)
    /\ UNCHANGED <<machine, token, media, resumeId, restored, error, chains, cancels, page, serverVars>>

\* The poll sees the file ready: the grant is armed from here (WebGrants).
Ready(g) ==
    /\ Current(g) /\ phase = "downloading"
    /\ phase' = "ready" /\ busy' = FALSE
    /\ file' = chains[g].job
    /\ record' = Persisted("ready", token, media, chains[g].job)
    /\ EndChain(g)
    /\ UNCHANGED <<generation, token, media, resumeId, restored, error, cancels, page>>

\* The poll sees the cancellation.  When cancelTask was first, the transition
\* throws: enqueueDownload's catch returns, a restored session's reports it.
CancelledSeen(g) ==
    /\ Current(g)
    /\ \/ /\ CanTransition(phase, "cancelled")
          /\ phase' = "cancelled" /\ busy' = FALSE /\ error' = FALSE
          /\ file' = chains[g].job /\ token' = None /\ record' = None
          /\ EndChain(g)
          /\ UNCHANGED <<generation, media, resumeId, restored, cancels, page>>
       \/ /\ ~ CanTransition(phase, "cancelled")
          /\ IF chains[g].resumed THEN ResumeFails(g, TRUE) ELSE Dropped(g)

\* pollUntilTerminal of a download ends.
DownloadEnds(g) ==
    LET state == files[chains[g].job]
        thrown == IF chains[g].resumed THEN ResumeFails(g, TRUE) ELSE Fail(g, "download_failed")
    IN  /\ At(g, {"download"})
        /\ \/ state = "ready" /\ Ready(g)
           \/ state = "cancelled" /\ CancelledSeen(g)
           \/ state = "failed" /\ Current(g) /\ phase = "downloading" /\ Fail(g, "download_failed")
           \/ state = "expired" /\ Current(g) /\ phase = "downloading" /\ Fail(g, "expired")
           \/ Current(g) /\ phase = "downloading" /\ ~ chains[g].aborted /\ thrown
           \/ /\ Current(g) /\ chains[g].aborted
              /\ IF chains[g].resumed THEN ResumeFails(g, FALSE) ELSE Dropped(g)
           \/ ~ Current(g) /\ (Dropped(g) \/ DroppedFile(g))
        /\ UNCHANGED serverVars

-----------------------------------------------------------------------------
(* Cancel, start over, and the life of the page *)

\* this.abort.abort()
AbortCurrent == [chains EXCEPT ![generation].aborted = chains[generation].pc # "ended"]

CancelTask ==
    /\ page = "visible" /\ token # None /\ file # None
    /\ phase \in {"downloading", "enqueueing_download"}
    /\ cancels[generation] = None
    /\ cancels' = [cancels EXCEPT ![generation] = file]
    /\ UNCHANGED <<machine, fields, record, chains, page, serverVars>>

\* cancelDownloadJob is answered: a queued job is cancelled at once, a running
\* one later, any other is returned as it is.
CancelAnswered(g, ok) ==
    LET j == cancels[g]
    IN  /\ page = "visible" /\ j # None
        /\ cancels' = [cancels EXCEPT ![g] = None]
        /\ \/ /\ ok /\ Current(g)
              /\ file' = j
              /\ \E state \in {files[j]} \cup (IF files[j] = "running" THEN {"cancelled"} ELSE {}) :
                   /\ files' = [files EXCEPT ![j] = state]
                   /\ IF state # "cancelled"
                      THEN UNCHANGED <<machine, token, error, record, chains>>
                      ELSE IF CanTransition(phase, "cancelled")
                      THEN /\ phase' = "cancelled" /\ busy' = FALSE /\ error' = FALSE
                           /\ token' = None /\ record' = None
                           /\ chains' = AbortCurrent
                           /\ UNCHANGED generation
                      ELSE /\ error' = TRUE
                           /\ UNCHANGED <<machine, token, record, chains>>
           \/ /\ ~ ok /\ Current(g)
              /\ error' = TRUE
              /\ UNCHANGED <<machine, token, file, record, chains, files>>
           \/ /\ ~ Current(g) \/ chains[g].aborted
              /\ UNCHANGED <<machine, token, file, error, record, chains, files>>
        /\ UNCHANGED <<media, resumeId, restored, page, inspections>>

Forget ==
    /\ token' = None /\ media' = None /\ file' = None
    /\ resumeId' = None /\ restored' = FALSE /\ error' = FALSE

StartOver ==
    /\ page = "visible" /\ phase # "idle" /\ generation < MaxGen
    /\ phase' = "idle" /\ busy' = FALSE /\ generation' = generation + 1
    /\ chains' = AbortCurrent
    /\ Forget /\ record' = None
    /\ UNCHANGED <<cancels, page, serverVars>>

\* onPageHide: the page may go into the bfcache, where nothing runs.
PageHide ==
    /\ page = "visible" /\ page' = "hidden"
    /\ record' = Persisted(phase, token, media, file)
    /\ chains' = AbortCurrent
    /\ UNCHANGED <<machine, fields, cancels, serverVars>>

\* restore() and resume() on a machine that is idle at generation g; read()
\* drops a record that has expired.
Restore(g, old) ==
    \/ /\ record # None /\ g < MaxGen
       /\ phase' = "submitting" /\ generation' = g + 1 /\ busy' = TRUE
       /\ token' = record.token /\ resumeId' = record.file /\ restored' = TRUE
       /\ media' = None /\ file' = None /\ error' = FALSE
       /\ chains' = [old EXCEPT ![g + 1] = Chain("resume", record.media, TRUE)]
       /\ UNCHANGED record
    \/ /\ phase' = "idle" /\ generation' = g /\ busy' = FALSE
       /\ Forget /\ chains' = old
       /\ record' = None

\* onPageShow(persisted): back from the bfcache.
PageShow ==
    /\ page = "hidden" /\ page' = "visible"
    /\ generation < MaxGen
    /\ Restore(generation + 1, AbortCurrent)
    /\ UNCHANGED <<cancels, serverVars>>

\* The page is loaded again, after onPageHide or after a crash of the tab.
Reload ==
    /\ page' = "visible"
    /\ Restore(0, [g \in Generations |-> Ended])
    /\ cancels' = [g \in Generations |-> None]
    /\ UNCHANGED serverVars

\* External: the server's jobs move on.
ServerMoves(j) ==
    \/ /\ inspections[j] = "running"
       /\ \E s \in {"inspected", "failed", "expired"} :
            inspections' = [inspections EXCEPT ![j] = s]
       /\ UNCHANGED <<machine, fields, record, chains, cancels, page, files>>
    \/ /\ files[j] = "running"
       /\ \E s \in {"ready", "failed", "cancelled", "expired"} :
            files' = [files EXCEPT ![j] = s]
       /\ UNCHANGED <<machine, fields, record, chains, cancels, page, inspections>>

-----------------------------------------------------------------------------
ChainStep(g) ==
    \/ \E ok \in BOOLEAN : SubmitAnswered(g, ok) \/ ResumeAnswered(g, ok)
                           \/ FileAnswered(g, ok) \/ QuotaAnswered(g, ok)
    \/ \E answer \in {"ok", "premium", "error"} : EnqueueAnswered(g, answer)
    \/ InspectionEnds(g) \/ PremiumRefreshed(g) \/ DownloadEnds(g)

Answers == \E g \in Generations : ChainStep(g)

FlowNext ==
    \/ \E j \in Media : Submit(j) \/ ServerMoves(j)
    \/ Answers
    \/ \E g \in Generations : \/ InspectionTick(g) \/ DownloadTick(g)
                              \/ \E ok \in BOOLEAN : CancelAnswered(g, ok)
    \/ EnqueueDownload \/ CancelTask \/ StartOver
    \/ PageHide \/ PageShow \/ Reload

FlowSpec == FlowInit /\ [][FlowNext]_flowVars

-----------------------------------------------------------------------------
(* Properties *)

\* Types; a stored record is one that a reload accepts.
FlowTypeOK ==
    /\ phase \in Terminal \cup Restorable \cup {"idle"}
    /\ generation \in Generations /\ busy \in BOOLEAN
    /\ {token, media, file, resumeId} \subseteq Media \cup {None}
    /\ restored \in BOOLEAN /\ error \in BOOLEAN
    /\ record # None => record.token \in Media /\ Coherent(record)
    /\ cancels \in [Generations -> Media \cup {None}]
    /\ page \in {"visible", "hidden"}

\* What is shown belongs to the flow on screen: the media job and the download
\* are those of the token, however late the answers of an abandoned flow are.
ShownBelongsToTheFlow ==
    /\ token # None /\ media # None => media = token
    /\ token # None /\ file # None => file = token
    /\ record # None => record.token = record.media /\ record.file \in {None, record.media}

\* The machine is never busy without a chain that will end it: no failure,
\* cancellation or restored session locks the visitor out.
BusyIsDriven == page = "visible" /\ busy => Running(generation)

\* While it shows a phase that works for the visitor, the client does work,
\* except after the poll of a restored download failed: the phase of that flow
\* stays "downloading".
WorkingIsDriven ==
    page = "visible" /\ phase \in Working =>
        Running(generation) \/ (phase = "downloading" /\ restored)

\* A flow that has ended leaves no credential behind, in memory or in
\* sessionStorage, whichever of its polls, cancellations and page events come
\* after the end.
EndedFlowForgets == phase \in Terminal => token = None /\ record = None

\* A download of a fresh flow is in the recovery record from the moment it is
\* shown, so a crash of the tab does not lose it.  (While a restored session
\* is still being restored, its record has no download.)
FreshDownloadIsRecorded ==
    ~ restored /\ phase \in {"downloading", "ready"} =>
        record # None /\ record.file = file

\* A chain of an older generation changes nothing the visitor sees of the current
\* flow, nor its record.  All it can do is make a later restore forget its download,
\* and only the rejection of an earlier restore does that.
StaleChainIsSilent ==
    [][\A g \in Generations :
         g # generation /\ ChainStep(g) =>
             /\ UNCHANGED <<phase, token, media, file, record>>
             /\ resumeId' # resumeId =>
                  /\ resumeId' = None /\ restored
                  /\ chains[g].resumed /\ chains[g].pc \in {"resume", "inspection"}]_flowVars

\* Every phase that works for the visitor comes to an end.
WorkEnds == phase \in Working ~> (phase \notin Working \/ page = "hidden" \/ restored)

\* The recovery record names the download of a flow in progress and is gone with it.
RecordFollowsTheFlow == EndedFlowForgets /\ FreshDownloadIsRecorded
=============================================================================
