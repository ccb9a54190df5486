----------------------------- MODULE WebProofs -----------------------------
(***************************************************************************)
(* Theorems about the web client, for any number of media jobs,            *)
(* generations, flows and grant requests and any delays that satisfy the   *)
(* assumptions of WebFlow and WebGrants.                                   *)
(*                                                                         *)
(* The flow.  The properties hold because of what the chain of the current *)
(* generation, the phase and the fields have to do with each other: the    *)
(* phase fixes which await the chain can stand at (ChainFitsPhase), whose  *)
(* job the fields hold (DataFitsPhase) and whether a cancellation can be   *)
(* under way (CancelFitsPhase).  Of the chains of older generations only   *)
(* two facts are needed (OlderChains): they are aborted, and none of them  *)
(* can still forget a download while one is shown.                         *)
(*                                                                         *)
(* The grants.  The fields of the controller always fit each other         *)
(* (ArmBase), a timer is due in time (DueInTime), a link that is shown has *)
(* a timer or the retry button behind it (Timed), and the request that     *)
(* owns the outcome is in flight (Asks).                                   *)
(***************************************************************************)
EXTENDS MCWeb, TLAPS

-----------------------------------------------------------------------------
(* The flow: the inductive invariant *)

\* The awaits a chain can stand at.
Pcs == {"ended", "create", "resume", "inspection", "file", "quota", "enqueue", "premium", "download"}
ChainSet == [pc : Pcs, job : Media \cup {None}, aborted : BOOLEAN, resumed : BOOLEAN]
\* What FlowSession.write() stores.
StoredRecords == [phase : Restorable, token : Media, media : Media, file : Media \cup {None}]
\* The restorable phases in which there is no download yet.
BeforeDownload == {"submitting", "inspecting", "inspected", "enqueueing_download"}

\* A stored record is coherent and of one flow.
SoundRecord(r) ==
  r # None => /\ r \in StoredRecords /\ Coherent(r)
              /\ r.token = r.media /\ r.file \in {None, r.media}

\* Types of the flow.
FlowTypes ==
    /\ phase \in Terminal \cup Restorable \cup {"idle"}
    /\ generation \in Generations /\ busy \in BOOLEAN
    /\ token \in Media \cup {None} /\ media \in Media \cup {None}
    /\ file \in Media \cup {None} /\ resumeId \in Media \cup {None}
    /\ restored \in BOOLEAN /\ error \in BOOLEAN
    /\ chains \in [Generations -> ChainSet]
    /\ cancels \in [Generations -> Media \cup {None}]
    /\ page \in {"visible", "hidden"}
    /\ SoundRecord(record)

\* Chains of other generations: they are aborted or have ended, later generations are
\* unused, and one that would forget the download finds none to forget.
OlderChains ==
    \A h \in Generations :
       /\ h # generation /\ chains[h].pc # "ended" => chains[h].aborted
       /\ h > generation => chains[h].pc = "ended" /\ cancels[h] = None
       /\ h # generation /\ chains[h].pc \in {"file", "download"} =>
             /\ file = None /\ cancels[generation] = None
             /\ chains[generation].pc # "download"

\* The await of the current chain and the phase; a busy machine has a chain.
ChainFitsPhase(pc) ==
    /\ phase = "idle" => pc = "ended"
    /\ phase = "submitting" => pc \in {"create", "resume"}
    /\ phase = "inspecting" => pc = "inspection"
    /\ phase = "inspected" => pc \in {"ended", "file"}
    /\ phase = "enqueueing_download" => pc \in {"quota", "enqueue", "premium"}
    /\ phase = "downloading" => pc = "download" \/ (pc = "ended" /\ restored)
    /\ phase = "ready" => pc = "ended"
    /\ phase \in Terminal => pc = "ended" \/ (phase = "cancelled" /\ pc = "download")
    /\ busy => pc # "ended" /\ phase \notin Terminal

\* The fields, the chain c of the current generation, the record and the phase.
DataFitsPhase(c) ==
    /\ phase = "idle" => token = None /\ media = None /\ file = None /\ record = None
    /\ phase \in Terminal => token = None /\ record = None
    /\ phase \in Restorable => token # None /\ resumeId \in {None, token}
    /\ phase = "submitting" => media = None
    /\ phase \in Restorable \ {"submitting"} => media = token
    /\ phase \in BeforeDownload => file = None
    /\ phase = "downloading" => file \in {None, token}
    /\ phase = "downloading" /\ (c.pc = "download" \/ ~ restored) => file = token
    /\ phase = "ready" => file = token
    /\ phase \in Restorable /\ c.pc \in {"create", "resume", "inspection", "file", "enqueue", "download"} =>
           c.job = token
    /\ ~ restored => c.pc \notin {"resume", "file"}
    /\ c.pc # "ended" /\ c.resumed => restored
    /\ resumeId # None => restored
    /\ c.pc # "ended" /\ c.aborted /\ page = "visible" => phase = "cancelled"
    /\ ~ restored /\ phase \in {"downloading", "ready"} => record # None /\ record.file = file

\* A cancellation under way is of the download on screen.
CancelFitsPhase(k) ==
    /\ phase \in BeforeDownload \cup {"idle"} => k = None
    /\ phase \in {"downloading", "ready"} => k \in {None, token}

\* The flow's inductive invariant.
FlowInv ==
    /\ FlowTypes /\ OlderChains
    /\ ChainFitsPhase(chains[generation].pc)
    /\ DataFitsPhase(chains[generation])
    /\ CancelFitsPhase(cancels[generation])

-----------------------------------------------------------------------------
(* The flow: one lemma per step *)

\* persist() stores only sound records, none outside the restorable phases, and the
\* download of a flow that has one.
LEMMA PersistedIsSound ==
  ASSUME NEW ph, NEW tok \in Media \cup {None}, NEW med, NEW fil,
         tok # None => med \in {None, tok} /\ fil \in {None, tok}, SoundRecord(record)
  PROVE  /\ SoundRecord(Persisted(ph, tok, med, fil))
         /\ ph \notin Restorable \/ tok = None => Persisted(ph, tok, med, fil) = None
         /\ /\ ph \in {"downloading", "ready"} /\ tok # None /\ med = tok /\ fil = tok
            => /\ Persisted(ph, tok, med, fil) # None
               /\ Persisted(ph, tok, med, fil).file = fil
<1> DEFINE r == [phase |-> ph, token |-> tok, media |-> med, file |-> fil]
<1>1. ph \in Restorable /\ tok # None /\ med # None => r \in StoredRecords /\ r # None
  BY RecordAssumption DEF StoredRecords
<1>2. r.phase = ph /\ r.token = tok /\ r.media = med /\ r.file = fil
  OBVIOUS
<1>3. Coherent(r) <=> ph \in Restorable /\ med # None /\ ((fil # None) <=> (ph \in {"downloading", "ready"}))
  BY <1>2 DEF Coherent
<1>4. Persisted(ph, tok, med, fil) = IF tok = None \/ ph \notin Restorable THEN None
    ELSE IF med = None /\ fil = None THEN record ELSE IF Coherent(r) THEN r ELSE None
  BY DEF Persisted
<1> HIDE DEF r
<1>5. SoundRecord(None)
  BY DEF SoundRecord
<1>6. Coherent(r) /\ tok # None => SoundRecord(r) /\ r # None /\ r.file = fil
  BY <1>1, <1>2, <1>3 DEF SoundRecord
<1>7. ph \in {"downloading", "ready"} => ph \in Restorable
  BY DEF Restorable
<1> QED BY <1>3, <1>4, <1>5, <1>6, <1>7

\* The transitions fail() and the cancellation ask for are in ALLOWED.
LEMMA Legal ==
  /\ \A to \in Terminal \ {"download_failed"} : CanTransition("submitting", to) /\ CanTransition("inspecting", to)
  /\ CanTransition("enqueueing_download", "download_failed")
  /\ \A to \in {"download_failed", "expired", "cancelled"} : CanTransition("downloading", to)
  /\ CanTransition("ready", "cancelled")
  /\ \A from \in Terminal : ~ CanTransition(from, "cancelled")
BY DEF CanTransition, Terminal

\* What persist() stores of a state of the invariant; what is shown is of the token.
LEMMA ShownOK ==
  ASSUME FlowInv
  PROVE  /\ SoundRecord(Persisted(phase, token, media, file))
         /\ token # None => media \in {None, token} /\ file \in {None, token}
         /\ token # None => phase \in Restorable
         /\ phase \in Restorable => token # None
         /\ phase \notin Restorable => Persisted(phase, token, media, file) = None
         /\ ~ restored /\ phase \in {"downloading", "ready"} =>
              /\ Persisted(phase, token, media, file) # None
              /\ Persisted(phase, token, media, file).file = file
<1>0. token # None => phase \in Restorable
  BY DEF FlowInv, FlowTypes, DataFitsPhase
<1>1. token # None => media \in {None, token} /\ file \in {None, token}
  BY <1>0 DEF FlowInv, FlowTypes, DataFitsPhase, Restorable, BeforeDownload
<1>2. SoundRecord(Persisted(phase, token, media, file))
  BY PersistedIsSound, <1>1 DEF FlowInv, FlowTypes
<1>3. phase \notin Restorable => Persisted(phase, token, media, file) = None
  BY PersistedIsSound, <1>1 DEF FlowInv, FlowTypes
<1>4. ~ restored /\ phase \in {"downloading", "ready"} => token # None /\ media = token /\ file = token
  BY DEF FlowInv, DataFitsPhase, Restorable
<1>5. ~ restored /\ phase \in {"downloading", "ready"} =>
              /\ Persisted(phase, token, media, file) # None
              /\ Persisted(phase, token, media, file).file = file
  BY PersistedIsSound, <1>1, <1>4 DEF FlowInv, FlowTypes
<1>6. phase \in Restorable => token # None
  BY DEF FlowInv, DataFitsPhase
<1> QED BY <1>0, <1>1, <1>2, <1>3, <1>5, <1>6

\* this.abort.abort() marks the current chain and leaves the others alone.
LEMMA AbortFacts ==
  ASSUME FlowInv
  PROVE  /\ AbortCurrent \in [Generations -> ChainSet]
         /\ \A h \in Generations : h # generation => AbortCurrent[h] = chains[h]
         /\ AbortCurrent[generation].pc = chains[generation].pc
         /\ AbortCurrent[generation].job = chains[generation].job
         /\ AbortCurrent[generation].resumed = chains[generation].resumed
         /\ AbortCurrent[generation].pc # "ended" => AbortCurrent[generation].aborted
<1> DEFINE c == chains[generation]
           d == [pc |-> c.pc, job |-> c.job, aborted |-> c.pc # "ended", resumed |-> c.resumed]
<1>1. generation \in Generations /\ chains \in [Generations -> ChainSet]
  BY DEF FlowInv, FlowTypes
<1>2. c \in ChainSet
  BY <1>1
<1>c. \A b \in BOOLEAN : [c EXCEPT !.aborted = b] = [pc |-> c.pc, job |-> c.job, aborted |-> b, resumed |-> c.resumed]
  BY <1>2 DEF ChainSet
<1>d. AbortCurrent = [chains EXCEPT ![generation] = [c EXCEPT !.aborted = c.pc # "ended"]]
  BY <1>1 DEF AbortCurrent
<1>3. AbortCurrent = [chains EXCEPT ![generation] = d]
  BY <1>c, <1>d
<1>4. d \in ChainSet
  BY <1>2 DEF ChainSet
<1>5. d.pc = c.pc /\ d.job = c.job /\ d.resumed = c.resumed
  OBVIOUS
<1>6. d.pc # "ended" => d.aborted
  BY Zenon
<1> HIDE DEF d
<1>7. AbortCurrent[generation] = d
  BY <1>1, <1>3
<1>8. \A h \in Generations : h # generation => AbortCurrent[h] = chains[h]
  BY <1>1, <1>3
<1> QED BY <1>1, <1>3, <1>4, <1>5, <1>6, <1>7, <1>8

\* submit() keeps the invariant.
LEMMA SubmitKeeps ==
  ASSUME FlowInv, NEW j \in Media, Submit(j)
  PROVE  FlowInv'
<1>a. Chain("create", j, FALSE) \in ChainSet
  BY DEF Chain, ChainSet, Pcs
<1>b. generation + 1 \in Generations
  BY FlowAssumption DEF FlowInv, FlowTypes, Generations, Submit
<1>c. chains' \in [Generations -> ChainSet]
  BY <1>a, <1>b DEF FlowInv, FlowTypes, Submit
<1> USE FlowAssumption
   DEF FlowInv, Submit, Chain, machine, fields, serverVars, At, Current, Generations,
   BeforeDownload, Restorable, Terminal
<1>0. SoundRecord(record')
  BY ShownOK DEF SoundRecord, FlowTypes
<1>1. FlowTypes'
  BY <1>0, ShownOK, <1>b, <1>c DEF FlowTypes, ChainSet, Pcs
<1>2. OlderChains'
  BY <1>0, ShownOK, <1>b, <1>c
     DEF FlowTypes, OlderChains, ChainFitsPhase, DataFitsPhase, CancelFitsPhase,
     ChainSet, Pcs
<1>3. ChainFitsPhase(chains[generation].pc)'
  BY <1>0, ShownOK, <1>b, <1>c
     DEF FlowTypes, OlderChains, ChainFitsPhase, DataFitsPhase, CancelFitsPhase,
     ChainSet, Pcs
<1>4. DataFitsPhase(chains[generation])'
  BY <1>0, ShownOK, <1>b, <1>c
     DEF FlowTypes, OlderChains, ChainFitsPhase, DataFitsPhase, CancelFitsPhase,
     ChainSet, Pcs
<1>5. CancelFitsPhase(cancels[generation])'
  BY <1>0, ShownOK, <1>b, <1>c
     DEF FlowTypes, OlderChains, ChainFitsPhase, DataFitsPhase, CancelFitsPhase,
     ChainSet, Pcs
<1> QED BY <1>1, <1>2, <1>3, <1>4, <1>5

\* The server moving on keeps the invariant.
LEMMA MovesKeep ==
  ASSUME FlowInv, NEW j \in Media, ServerMoves(j)
  PROVE  FlowInv'
<1> USE FlowAssumption
   DEF FlowInv, ServerMoves, machine, fields, serverVars, At, Current, Generations,
   BeforeDownload, Restorable, Terminal
<1>0. SoundRecord(record')
  BY ShownOK DEF SoundRecord, FlowTypes
<1>1. FlowTypes'
  BY <1>0, ShownOK DEF FlowTypes, ChainSet, Pcs
<1>2. OlderChains'
  BY <1>0, ShownOK DEF FlowTypes, OlderChains, ChainFitsPhase, DataFitsPhase,
     CancelFitsPhase, ChainSet, Pcs
<1>3. ChainFitsPhase(chains[generation].pc)'
  BY <1>0, ShownOK DEF FlowTypes, OlderChains, ChainFitsPhase, DataFitsPhase,
     CancelFitsPhase, ChainSet, Pcs
<1>4. DataFitsPhase(chains[generation])'
  BY <1>0, ShownOK DEF FlowTypes, OlderChains, ChainFitsPhase, DataFitsPhase,
     CancelFitsPhase, ChainSet, Pcs
<1>5. CancelFitsPhase(cancels[generation])'
  BY <1>0, ShownOK DEF FlowTypes, OlderChains, ChainFitsPhase, DataFitsPhase,
     CancelFitsPhase, ChainSet, Pcs
<1> QED BY <1>1, <1>2, <1>3, <1>4, <1>5

\* onTick of pollInspection keeps the invariant.
LEMMA InspectionTickKeeps ==
  ASSUME FlowInv, NEW g \in Generations, InspectionTick(g)
  PROVE  FlowInv'
<1> USE FlowAssumption
   DEF FlowInv, InspectionTick, machine, fields, serverVars, At, Current,
   Generations, BeforeDownload, Restorable, Terminal
<1>0. SoundRecord(record')
  BY ShownOK DEF SoundRecord, FlowTypes
<1>1. FlowTypes'
  BY <1>0, ShownOK DEF FlowTypes, ChainSet, Pcs
<1>2. OlderChains'
  BY <1>0, ShownOK DEF FlowTypes, OlderChains, ChainFitsPhase, DataFitsPhase,
     CancelFitsPhase, ChainSet, Pcs
<1>3. ChainFitsPhase(chains[generation].pc)'
  BY <1>0, ShownOK DEF FlowTypes, OlderChains, ChainFitsPhase, DataFitsPhase,
     CancelFitsPhase, ChainSet, Pcs
<1>4. DataFitsPhase(chains[generation])'
  BY <1>0, ShownOK DEF FlowTypes, OlderChains, ChainFitsPhase, DataFitsPhase,
     CancelFitsPhase, ChainSet, Pcs
<1>5. CancelFitsPhase(cancels[generation])'
  BY <1>0, ShownOK DEF FlowTypes, OlderChains, ChainFitsPhase, DataFitsPhase,
     CancelFitsPhase, ChainSet, Pcs
<1> QED BY <1>1, <1>2, <1>3, <1>4, <1>5

\* enqueueDownload() up to its first await keeps the invariant.
LEMMA EnqueueKeeps ==
  ASSUME FlowInv, EnqueueDownload
  PROVE  FlowInv'
<1> USE FlowAssumption
   DEF FlowInv, EnqueueDownload, Chain, Goto, machine, fields, serverVars, At,
   Current, Generations, BeforeDownload, Restorable, Terminal
<1>0. SoundRecord(record')
  BY ShownOK DEF SoundRecord, FlowTypes
<1>1. FlowTypes'
  BY <1>0, ShownOK DEF FlowTypes, ChainSet, Pcs
<1>2. OlderChains'
  BY <1>0, ShownOK DEF FlowTypes, OlderChains, ChainFitsPhase, DataFitsPhase,
     CancelFitsPhase, ChainSet, Pcs
<1>3. ChainFitsPhase(chains[generation].pc)'
  BY <1>0, ShownOK DEF FlowTypes, OlderChains, ChainFitsPhase, DataFitsPhase,
     CancelFitsPhase, ChainSet, Pcs
<1>4. DataFitsPhase(chains[generation])'
  BY <1>0, ShownOK DEF FlowTypes, OlderChains, ChainFitsPhase, DataFitsPhase,
     CancelFitsPhase, ChainSet, Pcs
<1>5. CancelFitsPhase(cancels[generation])'
  BY <1>0, ShownOK DEF FlowTypes, OlderChains, ChainFitsPhase, DataFitsPhase,
     CancelFitsPhase, ChainSet, Pcs
<1> QED BY <1>1, <1>2, <1>3, <1>4, <1>5

\* cancelTask() up to its await keeps the invariant.
LEMMA CancelTaskKeeps ==
  ASSUME FlowInv, CancelTask
  PROVE  FlowInv'
<1> USE FlowAssumption
   DEF FlowInv, CancelTask, machine, fields, serverVars, At, Current, Generations,
   BeforeDownload, Restorable, Terminal
<1>0. SoundRecord(record')
  BY ShownOK DEF SoundRecord, FlowTypes
<1>1. FlowTypes'
  BY <1>0, ShownOK DEF FlowTypes, ChainSet, Pcs
<1>2. OlderChains'
  BY <1>0, ShownOK DEF FlowTypes, OlderChains, ChainFitsPhase, DataFitsPhase,
     CancelFitsPhase, ChainSet, Pcs
<1>3. ChainFitsPhase(chains[generation].pc)'
  BY <1>0, ShownOK DEF FlowTypes, OlderChains, ChainFitsPhase, DataFitsPhase,
     CancelFitsPhase, ChainSet, Pcs
<1>4. DataFitsPhase(chains[generation])'
  BY <1>0, ShownOK DEF FlowTypes, OlderChains, ChainFitsPhase, DataFitsPhase,
     CancelFitsPhase, ChainSet, Pcs
<1>5. CancelFitsPhase(cancels[generation])'
  BY <1>0, ShownOK DEF FlowTypes, OlderChains, ChainFitsPhase, DataFitsPhase,
     CancelFitsPhase, ChainSet, Pcs
<1> QED BY <1>1, <1>2, <1>3, <1>4, <1>5

\* startOver() keeps the invariant.
LEMMA StartOverKeeps ==
  ASSUME FlowInv, StartOver
  PROVE  FlowInv'
<1> DEFINE new == AbortCurrent
<1>a. chains' = new
  BY DEF StartOver
<1>b. /\ new \in [Generations -> ChainSet]
      /\ \A h \in Generations : h # generation => new[h] = chains[h]
      /\ new[generation].pc = chains[generation].pc
      /\ new[generation].job = chains[generation].job
      /\ new[generation].resumed = chains[generation].resumed
      /\ new[generation].pc # "ended" => new[generation].aborted
  BY AbortFacts
<1> HIDE DEF new
<1>c. generation + 1 \in Generations
  BY FlowAssumption DEF FlowInv, FlowTypes, Generations, StartOver
<1> USE FlowAssumption
   DEF FlowInv, StartOver, Forget, machine, fields, serverVars, At, Current,
   Generations, BeforeDownload, Restorable, Terminal
<1>0. SoundRecord(record')
  BY ShownOK DEF SoundRecord, FlowTypes
<1>1. FlowTypes'
  BY <1>0, ShownOK, <1>a, <1>b, <1>c DEF FlowTypes, ChainSet, Pcs
<1>2. OlderChains'
  BY <1>0, ShownOK, <1>a, <1>b, <1>c
     DEF FlowTypes, OlderChains, ChainFitsPhase, DataFitsPhase, CancelFitsPhase,
     ChainSet, Pcs
<1>3. ChainFitsPhase(chains[generation].pc)'
  BY <1>0, ShownOK, <1>a, <1>b, <1>c
     DEF FlowTypes, OlderChains, ChainFitsPhase, DataFitsPhase, CancelFitsPhase,
     ChainSet, Pcs
<1>4. DataFitsPhase(chains[generation])'
  BY <1>0, ShownOK, <1>a, <1>b, <1>c
     DEF FlowTypes, OlderChains, ChainFitsPhase, DataFitsPhase, CancelFitsPhase,
     ChainSet, Pcs
<1>5. CancelFitsPhase(cancels[generation])'
  BY <1>0, ShownOK, <1>a, <1>b, <1>c
     DEF FlowTypes, OlderChains, ChainFitsPhase, DataFitsPhase, CancelFitsPhase,
     ChainSet, Pcs
<1> QED BY <1>1, <1>2, <1>3, <1>4, <1>5

\* onPageHide keeps the invariant.
LEMMA PageHideKeeps ==
  ASSUME FlowInv, PageHide
  PROVE  FlowInv'
<1> DEFINE new == AbortCurrent
<1>a. chains' = new
  BY DEF PageHide
<1>b. /\ new \in [Generations -> ChainSet]
      /\ \A h \in Generations : h # generation => new[h] = chains[h]
      /\ new[generation].pc = chains[generation].pc
      /\ new[generation].job = chains[generation].job
      /\ new[generation].resumed = chains[generation].resumed
      /\ new[generation].pc # "ended" => new[generation].aborted
  BY AbortFacts
<1> HIDE DEF new
<1> USE FlowAssumption
   DEF FlowInv, PageHide, machine, fields, serverVars, At, Current, Generations,
   BeforeDownload, Restorable, Terminal
<1>0. SoundRecord(record')
  BY ShownOK DEF SoundRecord, FlowTypes
<1>1. FlowTypes'
  BY <1>0, ShownOK, <1>a, <1>b DEF FlowTypes, ChainSet, Pcs
<1>2. OlderChains'
  BY <1>0, ShownOK, <1>a, <1>b
     DEF FlowTypes, OlderChains, ChainFitsPhase, DataFitsPhase, CancelFitsPhase,
     ChainSet, Pcs
<1>3. ChainFitsPhase(chains[generation].pc)'
  BY <1>0, ShownOK, <1>a, <1>b
     DEF FlowTypes, OlderChains, ChainFitsPhase, DataFitsPhase, CancelFitsPhase,
     ChainSet, Pcs
<1>4. DataFitsPhase(chains[generation])'
  BY <1>0, ShownOK, <1>a, <1>b
     DEF FlowTypes, OlderChains, ChainFitsPhase, DataFitsPhase, CancelFitsPhase,
     ChainSet, Pcs
<1>5. CancelFitsPhase(cancels[generation])'
  BY <1>0, ShownOK, <1>a, <1>b
     DEF FlowTypes, OlderChains, ChainFitsPhase, DataFitsPhase, CancelFitsPhase,
     ChainSet, Pcs
<1> QED BY <1>1, <1>2, <1>3, <1>4, <1>5

\* onTick of pollDownload keeps the invariant, also after the cancellation.
LEMMA DownloadTickKeeps ==
  ASSUME FlowInv, NEW g \in Generations, DownloadTick(g)
  PROVE  FlowInv'
<1>a. g = generation /\ chains[g].pc = "download" /\ phase \in {"downloading", "cancelled"}
  BY DEF FlowInv, DownloadTick, At, Current, FlowTypes, ChainFitsPhase, Restorable
<1>b. phase = "downloading" => chains[g].job = token /\ file = token /\ media = token /\ token # None
  BY <1>a DEF FlowInv, DataFitsPhase, Restorable
<1>c. record' = Persisted(phase, token, media, chains[g].job) /\ file' = chains[g].job
  BY DEF DownloadTick
<1>d. phase = "cancelled" => record' = None /\ token = None
  BY <1>c, PersistedIsSound DEF FlowInv, DataFitsPhase, Terminal, Restorable, FlowTypes
<1>e. chains[g] \in ChainSet /\ chains[g].job \in Media \cup {None}
  BY DEF FlowInv, FlowTypes, ChainSet
<1>f. SoundRecord(record') 
  BY <1>a, <1>b, <1>c, <1>d, ShownOK DEF SoundRecord
<1> USE FlowAssumption
   DEF FlowInv, DownloadTick, machine, fields, serverVars, At, Current, Generations,
   BeforeDownload, Restorable, Terminal
<1>0. SoundRecord(record')
  BY ShownOK, <1>f DEF SoundRecord, FlowTypes
<1>1. FlowTypes'
  BY <1>0, ShownOK, <1>a, <1>b, <1>c, <1>d, <1>e, <1>f DEF FlowTypes, ChainSet, Pcs
<1>2. OlderChains'
  BY <1>0, ShownOK, <1>a, <1>b, <1>c, <1>d, <1>e, <1>f
     DEF FlowTypes, OlderChains, ChainFitsPhase, DataFitsPhase, CancelFitsPhase,
     ChainSet, Pcs
<1>3. ChainFitsPhase(chains[generation].pc)'
  BY <1>0, ShownOK, <1>a, <1>b, <1>c, <1>d, <1>e, <1>f
     DEF FlowTypes, OlderChains, ChainFitsPhase, DataFitsPhase, CancelFitsPhase,
     ChainSet, Pcs
<1>4. DataFitsPhase(chains[generation])'
  BY <1>0, ShownOK, <1>a, <1>b, <1>c, <1>d, <1>e, <1>f
     DEF FlowTypes, OlderChains, ChainFitsPhase, DataFitsPhase, CancelFitsPhase,
     ChainSet, Pcs
<1>5. CancelFitsPhase(cancels[generation])'
  BY <1>0, ShownOK, <1>a, <1>b, <1>c, <1>d, <1>e, <1>f
     DEF FlowTypes, OlderChains, ChainFitsPhase, DataFitsPhase, CancelFitsPhase,
     ChainSet, Pcs
<1> QED BY <1>1, <1>2, <1>3, <1>4, <1>5

\* A chain that returns: the others are left alone.
LEMMA EndFacts ==
  ASSUME FlowInv, NEW g \in Generations, EndChain(g)
  PROVE  /\ chains' \in [Generations -> ChainSet]
         /\ chains'[g].pc = "ended"
         /\ \A h \in Generations : h # g => chains'[h] = chains[h]
<1>1. Ended \in ChainSet /\ Ended.pc = "ended"
  BY DEF Ended, ChainSet, Pcs
<1> QED BY <1>1 DEF FlowInv, FlowTypes, EndChain, Goto

\* A chain that returns without a word, but may forget the download to be restored, is
\* of an older generation or of a cancelled flow.
LEMMA DroppedKeeps ==
  ASSUME FlowInv, NEW g \in Generations, Dropped(g) \/ DroppedResume(g),
         g = generation => phase = "cancelled"
  PROVE  FlowInv'
<1>0. /\ resumeId' \in {None, resumeId} /\ EndChain(g)
      /\ UNCHANGED <<phase, generation, busy, token, media, file, restored, error, record, cancels, page>>
  BY DEF Dropped, DroppedResume, machine, fields
<1> USE DEF FlowInv
<1>1. FlowTypes'
  BY <1>0, EndFacts DEF FlowTypes, SoundRecord
<1>2. OlderChains'
  BY <1>0, EndFacts DEF FlowTypes, OlderChains
<1>3. ChainFitsPhase(chains[generation].pc)'
  BY <1>0, EndFacts DEF FlowTypes, ChainFitsPhase, Terminal
<1>4. DataFitsPhase(chains[generation])'
  BY <1>0, EndFacts DEF FlowTypes, DataFitsPhase, Restorable, Terminal, BeforeDownload
<1>5. CancelFitsPhase(cancels[generation])'
  BY <1>0 DEF CancelFitsPhase
<1> QED BY <1>1, <1>2, <1>3, <1>4, <1>5

\* The catch of pollInspection in an older chain finds no download to forget.
LEMMA DroppedFileIsDropped ==
  ASSUME FlowInv, NEW g \in Generations, DroppedFile(g), g # generation,
         chains[g].pc \in {"file", "download"}
  PROVE  Dropped(g)
<1>1. file = None
  BY DEF FlowInv, OlderChains
<1> QED BY <1>1 DEF Dropped, DroppedFile, machine, fields

\* fail() with a legal transition keeps the invariant.
LEMMA FailKeeps ==
  ASSUME FlowInv, NEW to \in Terminal, CanTransition(phase, to), Fail(generation, to)
  PROVE  FlowInv'
<1> USE DEF FlowInv, Fail
<1>0. /\ phase' = to /\ generation' = generation /\ busy' = FALSE /\ error' = TRUE
      /\ token' = None /\ record' = None
      /\ resumeId' \in {None, resumeId}
      /\ EndChain(generation)
      /\ UNCHANGED <<media, file, restored, cancels, page>>
  BY DEF Fail
<1>g. generation \in Generations
  BY DEF FlowTypes
<1>1. FlowTypes'
  BY <1>0, <1>g, EndFacts DEF FlowTypes, SoundRecord
<1>2. OlderChains'
  BY <1>0, <1>g, EndFacts DEF FlowTypes, OlderChains
<1>3. ChainFitsPhase(chains[generation].pc)'
  BY <1>0, <1>g, EndFacts DEF FlowTypes, ChainFitsPhase, Terminal
<1>4. DataFitsPhase(chains[generation])'
  BY <1>0, <1>g, EndFacts
     DEF FlowTypes, DataFitsPhase, Restorable, Terminal, BeforeDownload
<1>5. CancelFitsPhase(cancels[generation])'
  BY <1>0 DEF CancelFitsPhase, Terminal, BeforeDownload
<1> QED BY <1>1, <1>2, <1>3, <1>4, <1>5

\* The catch of a restored download keeps the invariant.
LEMMA ResumeFailsKeeps ==
  ASSUME FlowInv, NEW shw \in BOOLEAN, ResumeFails(generation, shw),
         phase \in {"inspected", "cancelled"} \/ (phase = "downloading" /\ restored)
  PROVE  FlowInv'
<1> USE DEF FlowInv, ResumeFails
<1>g. generation \in Generations /\ EndChain(generation)
  BY DEF FlowTypes
<1>a. SoundRecord(record') /\ (phase \notin Restorable => record' = None)
  BY PersistedIsSound, ShownOK DEF FlowTypes, SoundRecord
<1>1. FlowTypes'
  BY <1>a, <1>g, EndFacts DEF FlowTypes, SoundRecord
<1>2. OlderChains'
  BY <1>a, <1>g, EndFacts DEF FlowTypes, OlderChains
<1>3. ChainFitsPhase(chains[generation].pc)'
  BY <1>a, <1>g, EndFacts DEF FlowTypes, ChainFitsPhase, Terminal
<1>4. DataFitsPhase(chains[generation])'
  BY <1>a, <1>g, EndFacts
     DEF FlowTypes, DataFitsPhase, Restorable, Terminal, BeforeDownload
<1>5. CancelFitsPhase(cancels[generation])'
  BY DEF CancelFitsPhase, Terminal, BeforeDownload
<1> QED BY <1>1, <1>2, <1>3, <1>4, <1>5

\* A chain that goes on to its next await, with a new job.
LEMMA GotoFacts ==
  ASSUME FlowInv, NEW g \in Generations, NEW p \in Pcs, NEW j \in Media \cup {None},
         Goto(g, [chains[g] EXCEPT !.pc = p, !.job = j])
  PROVE  /\ chains' \in [Generations -> ChainSet]
         /\ chains'[g].pc = p /\ chains'[g].job = j
         /\ chains'[g].aborted = chains[g].aborted /\ chains'[g].resumed = chains[g].resumed
         /\ \A h \in Generations : h # g => chains'[h] = chains[h]
<1> DEFINE d == [chains[g] EXCEPT !.pc = p, !.job = j]
<1>1. chains[g] \in ChainSet /\ chains \in [Generations -> ChainSet]
  BY DEF FlowInv, FlowTypes
<1>2. d \in ChainSet /\ d.pc = p /\ d.job = j /\ d.aborted = chains[g].aborted /\ d.resumed = chains[g].resumed
  BY <1>1 DEF ChainSet
<1>3. chains' = [chains EXCEPT ![g] = d]
  BY DEF Goto
<1> HIDE DEF d
<1> QED BY <1>1, <1>2, <1>3

\* The same with the old job.
LEMMA GotoPc ==
  ASSUME FlowInv, NEW g \in Generations, NEW p \in Pcs
  PROVE  /\ [chains[g] EXCEPT !.pc = p] = [chains[g] EXCEPT !.pc = p, !.job = chains[g].job]
         /\ chains[g].job \in Media \cup {None}
<1>1. chains[g] \in ChainSet
  BY DEF FlowInv, FlowTypes
<1> QED BY <1>1 DEF ChainSet

\* While the page is visible, an aborted chain is of an older flow or a cancelled one.
LEMMA AbortedIsOver ==
  ASSUME FlowInv, NEW g \in Generations, page = "visible", chains[g].pc # "ended",
         g # generation \/ chains[g].aborted
  PROVE  g = generation => phase = "cancelled"
BY DEF FlowInv, DataFitsPhase

\* The answer to createInspectionJob keeps the invariant.
LEMMA SubmitAnsweredKeeps ==
  ASSUME FlowInv, NEW g \in Generations, NEW ok \in BOOLEAN, SubmitAnswered(g, ok)
  PROVE  FlowInv'
<1> DEFINE j == chains[g].job
<1>1. page = "visible" /\ chains[g].pc = "create"
  BY DEF SubmitAnswered, At
<1>2. g = generation => phase = "submitting" /\ token = j /\ token # None /\ media = None /\ file = None
  BY <1>1 DEF FlowInv, FlowTypes, ChainFitsPhase, DataFitsPhase, Restorable,
     Terminal, BeforeDownload
<1>3. ASSUME Current(g), media' = j, record' = Persisted(phase, token, j, file), phase' = "inspecting",
             Goto(g, [chains[g] EXCEPT !.pc = "inspection"]),
             UNCHANGED <<generation, busy, token, file, resumeId, restored, error, cancels, page>>
      PROVE  FlowInv'
  <2>0. g = generation
    BY <1>3 DEF Current
  <2>1. SoundRecord(record')
    BY <1>2, <1>3, <2>0, PersistedIsSound DEF FlowInv, FlowTypes, SoundRecord
  <2>2. "inspection" \in Pcs
    BY DEF Pcs
  <2>3. /\ chains' \in [Generations -> ChainSet]
        /\ chains'[g].pc = "inspection" /\ chains'[g].job = j
        /\ chains'[g].aborted = chains[g].aborted /\ chains'[g].resumed = chains[g].resumed
        /\ \A h \in Generations : h # g => chains'[h] = chains[h]
    BY <1>3, <2>2, GotoFacts, GotoPc
  <2>4. j \in Media \cup {None}
    BY GotoPc, <2>2
  <2> USE DEF FlowInv
  <2> HIDE DEF j
  <2>5. FlowTypes'
    BY <1>3, <2>1, <2>3, <2>4 DEF FlowTypes, Restorable
  <2>6. OlderChains'
    BY <1>1, <1>3, <2>0, <2>3 DEF FlowTypes, OlderChains
  <2>7. ChainFitsPhase(chains[generation].pc)'
    BY <1>1, <1>2, <1>3, <2>0, <2>3 DEF ChainFitsPhase, Terminal
  <2>8. DataFitsPhase(chains[generation])'
    BY <1>1, <1>2, <1>3, <2>0, <2>3
       DEF DataFitsPhase, Restorable, Terminal, BeforeDownload
  <2>9. CancelFitsPhase(cancels[generation])'
    BY <1>2, <1>3, <2>0 DEF CancelFitsPhase, BeforeDownload
  <2> QED BY <2>5, <2>6, <2>7, <2>8, <2>9
<1>4. ASSUME Current(g), NEW to \in {"unsupported", "network_error", "inspection_failed"}, Fail(g, to)
      PROVE  FlowInv'
  <2>1. to \in Terminal \ {"download_failed"}
    BY DEF Terminal
  <2> QED BY <1>2, <1>4, <2>1, Legal, FailKeeps DEF Current
<1>5. CASE (~ Current(g) \/ chains[g].aborted) /\ Dropped(g)
  BY <1>1, <1>5, AbortedIsOver, DroppedKeeps DEF Current
<1> QED BY <1>3, <1>4, <1>5 DEF SubmitAnswered

\* The answer to getInspectionJob of resume() keeps the invariant.
LEMMA ResumeAnsweredKeeps ==
  ASSUME FlowInv, NEW g \in Generations, NEW ok \in BOOLEAN, ResumeAnswered(g, ok)
  PROVE  FlowInv'
<1> DEFINE j == chains[g].job
<1>1. page = "visible" /\ chains[g].pc = "resume"
  BY DEF ResumeAnswered, At
<1>2. g = generation => phase = "submitting" /\ token = j /\ token # None /\ media = None /\ file = None
  BY <1>1 DEF FlowInv, FlowTypes, ChainFitsPhase, DataFitsPhase, Restorable,
     Terminal, BeforeDownload
<1>3. ASSUME Current(g), media' = j, phase' = "inspecting",
             Goto(g, [chains[g] EXCEPT !.pc = "inspection"]),
             UNCHANGED <<generation, busy, token, file, resumeId, restored, error, record, cancels, page>>
      PROVE  FlowInv'
  <2>0. g = generation
    BY <1>3 DEF Current
  <2>1. SoundRecord(record')
    BY <1>3 DEF FlowInv, FlowTypes, SoundRecord
  <2>2. "inspection" \in Pcs
    BY DEF Pcs
  <2>3. /\ chains' \in [Generations -> ChainSet]
        /\ chains'[g].pc = "inspection" /\ chains'[g].job = j
        /\ chains'[g].aborted = chains[g].aborted /\ chains'[g].resumed = chains[g].resumed
        /\ \A h \in Generations : h # g => chains'[h] = chains[h]
    BY <1>3, <2>2, GotoFacts, GotoPc
  <2>4. j \in Media \cup {None}
    BY GotoPc, <2>2
  <2> USE DEF FlowInv
  <2> HIDE DEF j
  <2>5. FlowTypes'
    BY <1>3, <2>1, <2>3, <2>4 DEF FlowTypes, Restorable
  <2>6. OlderChains'
    BY <1>1, <1>3, <2>0, <2>3 DEF FlowTypes, OlderChains
  <2>7. ChainFitsPhase(chains[generation].pc)'
    BY <1>1, <1>2, <1>3, <2>0, <2>3 DEF ChainFitsPhase, Terminal
  <2>8. DataFitsPhase(chains[generation])'
    BY <1>1, <1>2, <1>3, <2>0, <2>3
       DEF DataFitsPhase, Restorable, Terminal, BeforeDownload
  <2>9. CancelFitsPhase(cancels[generation])'
    BY <1>2, <1>3, <2>0 DEF CancelFitsPhase, BeforeDownload
  <2> QED BY <2>5, <2>6, <2>7, <2>8, <2>9
<1>4. CASE Current(g) /\ Fail(g, "network_error")
  <2>1. "network_error" \in Terminal \ {"download_failed"}
    BY DEF Terminal
  <2> QED BY <1>2, <1>4, <2>1, Legal, FailKeeps DEF Current
<1>5. CASE (~ Current(g) \/ chains[g].aborted) /\ (Dropped(g) \/ DroppedResume(g))
  BY <1>1, <1>5, AbortedIsOver, DroppedKeeps DEF Current
<1> QED BY <1>3, <1>4, <1>5 DEF ResumeAnswered

\* The end of pollInspection keeps the invariant.
LEMMA InspectionEndsKeeps ==
  ASSUME FlowInv, NEW g \in Generations, InspectionEnds(g)
  PROVE  FlowInv'
<1>1. page = "visible" /\ chains[g].pc = "inspection"
  BY DEF InspectionEnds, At
<1>2. g = generation => /\ phase = "inspecting" /\ token = chains[g].job /\ token # None
                        /\ media = token /\ file = None /\ resumeId \in {None, token}
  BY <1>1 DEF FlowInv, FlowTypes, ChainFitsPhase, DataFitsPhase, Restorable,
     Terminal, BeforeDownload
<1>3. CASE Inspected(g)
  <2>0. g = generation
    BY <1>3 DEF Inspected, Current
  <2>1. SoundRecord(record')
    BY <1>2, <1>3, <2>0, PersistedIsSound, ShownOK
       DEF FlowInv, FlowTypes, SoundRecord, Inspected
  <2> USE DEF FlowInv
  <2>2. CASE resumeId # None /\ Goto(g, [chains[g] EXCEPT !.pc = "file", !.job = resumeId]) /\ UNCHANGED busy
    <3>1. "file" \in Pcs /\ resumeId \in Media \cup {None}
      BY DEF Pcs, FlowTypes
    <3>2. /\ chains' \in [Generations -> ChainSet]
          /\ chains'[g].pc = "file" /\ chains'[g].job = resumeId
          /\ chains'[g].aborted = chains[g].aborted /\ chains'[g].resumed = chains[g].resumed
          /\ \A h \in Generations : h # g => chains'[h] = chains[h]
      BY <2>2, <3>1, GotoFacts
    <3>3. restored
      BY <2>2, <1>2, <2>0 DEF DataFitsPhase, Restorable
    <3>4. UNCHANGED <<generation, token, media, file, restored, error, cancels, page>> /\ phase' = "inspected" /\ resumeId' = None
      BY <1>3 DEF Inspected
    <3>5. FlowTypes'
      BY <2>1, <2>2, <3>2, <3>4 DEF FlowTypes, Restorable
    <3>6. OlderChains'
      BY <1>1, <1>2, <2>0, <3>2, <3>4 DEF FlowTypes, OlderChains
    <3>7. ChainFitsPhase(chains[generation].pc)'
      BY <1>1, <1>2, <2>0, <2>2, <3>2, <3>4 DEF ChainFitsPhase, Terminal
    <3>8. DataFitsPhase(chains[generation])'
      BY <1>1, <1>2, <2>0, <2>2, <3>2, <3>3, <3>4
         DEF DataFitsPhase, Restorable, Terminal, BeforeDownload
    <3>9. CancelFitsPhase(cancels[generation])'
      BY <1>2, <2>0, <3>4 DEF CancelFitsPhase, BeforeDownload
    <3> QED BY <3>5, <3>6, <3>7, <3>8, <3>9
  <2>3. CASE EndChain(g) /\ busy' = FALSE
    <3>4. UNCHANGED <<generation, token, media, file, restored, error, cancels, page>> /\ phase' = "inspected" /\ resumeId' = None
      BY <1>3 DEF Inspected
    <3>5. FlowTypes'
      BY <2>1, <2>3, EndFacts, <3>4 DEF FlowTypes, Restorable
    <3>6. OlderChains'
      BY <1>1, <1>2, <2>0, <2>3, EndFacts, <3>4 DEF FlowTypes, OlderChains
    <3>7. ChainFitsPhase(chains[generation].pc)'
      BY <1>1, <1>2, <2>0, <2>3, EndFacts, <3>4 DEF ChainFitsPhase, Terminal
    <3>8. DataFitsPhase(chains[generation])'
      BY <1>1, <1>2, <2>0, <2>3, EndFacts, <3>4
         DEF DataFitsPhase, Restorable, Terminal, BeforeDownload
    <3>9. CancelFitsPhase(cancels[generation])'
      BY <1>2, <2>0, <3>4 DEF CancelFitsPhase, BeforeDownload
    <3> QED BY <3>5, <3>6, <3>7, <3>8, <3>9
  <2> QED BY <1>3, <2>2, <2>3 DEF Inspected
<1>4. ASSUME Current(g), NEW to \in {"inspection_failed", "expired", "network_error"}, Fail(g, to)
      PROVE  FlowInv'
  <2>1. to \in Terminal \ {"download_failed"}
    BY DEF Terminal
  <2> QED BY <1>2, <1>4, <2>1, Legal, FailKeeps DEF Current
<1>5. CASE (~ Current(g) \/ chains[g].aborted) /\ (Dropped(g) \/ DroppedResume(g))
  BY <1>1, <1>5, AbortedIsOver, DroppedKeeps DEF Current
<1> QED BY <1>3, <1>4, <1>5 DEF InspectionEnds

\* The answer to getDownloadJob of a restored session keeps the invariant.
LEMMA FileAnsweredKeeps ==
  ASSUME FlowInv, NEW g \in Generations, NEW ok \in BOOLEAN, FileAnswered(g, ok)
  PROVE  FlowInv'
<1> DEFINE j == chains[g].job
<1>1. page = "visible" /\ chains[g].pc = "file"
  BY DEF FileAnswered, At
<1>2. g = generation => /\ phase = "inspected" /\ token = j /\ token # None
                        /\ media = token /\ file = None /\ restored
  BY <1>1 DEF FlowInv, FlowTypes, ChainFitsPhase, DataFitsPhase, Restorable,
     Terminal, BeforeDownload
<1>3. ASSUME Current(g), Settled(g), file' = j, phase' = "downloading",
             Goto(g, [chains[g] EXCEPT !.pc = "download"]),
             UNCHANGED <<generation, busy, token, media, resumeId, restored, error, record, cancels, page>>
      PROVE  FlowInv'
  <2>0. g = generation
    BY <1>3 DEF Current
  <2>1. SoundRecord(record')
    BY <1>3 DEF FlowInv, FlowTypes, SoundRecord
  <2>2. "download" \in Pcs
    BY DEF Pcs
  <2>3. /\ chains' \in [Generations -> ChainSet]
        /\ chains'[g].pc = "download" /\ chains'[g].job = j
        /\ chains'[g].aborted = chains[g].aborted /\ chains'[g].resumed = chains[g].resumed
        /\ \A h \in Generations : h # g => chains'[h] = chains[h]
    BY <1>3, <2>2, GotoFacts, GotoPc
  <2>4. j \in Media \cup {None}
    BY GotoPc, <2>2
  <2> USE DEF FlowInv
  <2> HIDE DEF j
  <2>a. \A h \in Generations : h # generation => chains[h].pc \notin {"file", "download"}
    BY <1>3, <2>0 DEF Settled, OlderChains
  <2>5. FlowTypes'
    BY <1>3, <2>1, <2>3, <2>4 DEF FlowTypes, Restorable
  <2>6. OlderChains'
    BY <1>1, <1>3, <2>a, <2>0, <2>3 DEF FlowTypes, OlderChains
  <2>7. ChainFitsPhase(chains[generation].pc)'
    BY <1>1, <1>2, <1>3, <2>0, <2>3 DEF ChainFitsPhase, Terminal
  <2>8. DataFitsPhase(chains[generation])'
    BY <1>1, <1>2, <1>3, <2>0, <2>3
       DEF DataFitsPhase, Restorable, Terminal, BeforeDownload
  <2>9. CancelFitsPhase(cancels[generation])'
    BY <1>2, <1>3, <2>0 DEF CancelFitsPhase, BeforeDownload
  <2> QED BY <2>5, <2>6, <2>7, <2>8, <2>9
<1>4. ASSUME NEW shw \in BOOLEAN, ResumeFails(g, shw)
      PROVE  FlowInv'
  BY <1>2, <1>4, ResumeFailsKeeps DEF ResumeFails, Current
<1>5. CASE ~ Current(g) /\ (Dropped(g) \/ DroppedFile(g))
  BY <1>1, <1>5, DroppedFileIsDropped, DroppedKeeps DEF Current
<1> QED BY <1>3, <1>4, <1>5 DEF FileAnswered

\* The answer to the quota lookup of enqueueDownload keeps the invariant.
LEMMA QuotaAnsweredKeeps ==
  ASSUME FlowInv, NEW g \in Generations, NEW ok \in BOOLEAN, QuotaAnswered(g, ok)
  PROVE  FlowInv'
<1>1. page = "visible" /\ chains[g].pc = "quota"
  BY DEF QuotaAnswered, At
<1>2. g = generation => phase = "enqueueing_download" /\ media = token /\ token # None /\ file = None
  BY <1>1 DEF FlowInv, FlowTypes, ChainFitsPhase, DataFitsPhase, Restorable,
     Terminal, BeforeDownload
<1>3. ASSUME Goto(g, [chains[g] EXCEPT !.pc = "enqueue", !.job = media]),
             UNCHANGED <<machine, fields, record, cancels, page>>
      PROVE  FlowInv'
  <2>g. Goto(g, [chains[g] EXCEPT !.pc = "enqueue", !.job = media])
    BY <1>3
  <2>1. "enqueue" \in Pcs /\ media \in Media \cup {None}
    BY DEF Pcs, FlowInv, FlowTypes
  <2>2. /\ chains' \in [Generations -> ChainSet]
        /\ chains'[g].pc = "enqueue" /\ chains'[g].job = media
        /\ chains'[g].aborted = chains[g].aborted /\ chains'[g].resumed = chains[g].resumed
        /\ \A h \in Generations : h # g => chains'[h] = chains[h]
    <3> HIDE DEF Goto
    <3>1. \A m \in Media \cup {None} : Goto(g, [chains[g] EXCEPT !.pc = "enqueue", !.job = m]) =>
            /\ chains' \in [Generations -> ChainSet]
            /\ chains'[g].pc = "enqueue" /\ chains'[g].job = m
            /\ chains'[g].aborted = chains[g].aborted /\ chains'[g].resumed = chains[g].resumed
            /\ \A h \in Generations : h # g => chains'[h] = chains[h]
      BY <2>1, GotoFacts
    <3> QED BY <2>g, <2>1, <3>1
  <2> USE DEF FlowInv, machine, fields
  <2>5. FlowTypes'
    BY <1>3, <2>2 DEF FlowTypes, SoundRecord
  <2>6. OlderChains'
    BY <1>1, <1>3, <2>2 DEF FlowTypes, OlderChains
  <2>7. ChainFitsPhase(chains[generation].pc)'
    BY <1>1, <1>2, <1>3, <2>2 DEF FlowTypes, ChainFitsPhase, Terminal
  <2>8. DataFitsPhase(chains[generation])'
    BY <1>1, <1>2, <1>3, <2>2
       DEF FlowTypes, DataFitsPhase, Restorable, Terminal, BeforeDownload
  <2>9. CancelFitsPhase(cancels[generation])'
    BY <1>3 DEF CancelFitsPhase, BeforeDownload
  <2> QED BY <2>5, <2>6, <2>7, <2>8, <2>9
<1>4. CASE Current(g) /\ Fail(g, "download_failed")
  <2>1. "download_failed" \in Terminal
    BY DEF Terminal
  <2> QED BY <1>2, <1>4, <2>1, Legal, FailKeeps DEF Current
<1>5. CASE ~ Current(g) /\ Dropped(g)
  BY <1>5, DroppedKeeps DEF Current
<1> QED BY <1>3, <1>4, <1>5 DEF QuotaAnswered

\* The answer to createDownloadJob keeps the invariant.
LEMMA EnqueueAnsweredKeeps ==
  ASSUME FlowInv, NEW g \in Generations, NEW answer \in {"ok", "premium", "error"},
         EnqueueAnswered(g, answer)
  PROVE  FlowInv'
<1> DEFINE j == chains[g].job
<1>1. page = "visible" /\ chains[g].pc = "enqueue"
  BY DEF EnqueueAnswered, At
<1>2. g = generation => /\ phase = "enqueueing_download" /\ token = j /\ token # None
                        /\ media = token /\ file = None
  BY <1>1 DEF FlowInv, FlowTypes, ChainFitsPhase, DataFitsPhase, Restorable,
     Terminal, BeforeDownload
<1>3. ASSUME Current(g), Settled(g), file' = j, phase' = "downloading",
             record' = Persisted("downloading", token, media, j),
             Goto(g, [chains[g] EXCEPT !.pc = "download"]),
             UNCHANGED <<generation, busy, token, media, resumeId, restored, error, cancels, page>>
      PROVE  FlowInv'
  <2>0. g = generation
    BY <1>3 DEF Current
  <2>2. "download" \in Pcs
    BY DEF Pcs
  <2>3. /\ chains' \in [Generations -> ChainSet]
        /\ chains'[g].pc = "download" /\ chains'[g].job = j
        /\ chains'[g].aborted = chains[g].aborted /\ chains'[g].resumed = chains[g].resumed
        /\ \A h \in Generations : h # g => chains'[h] = chains[h]
    BY <1>3, <2>2, GotoFacts, GotoPc
  <2>4. j \in Media \cup {None}
    BY GotoPc, <2>2
  <2> USE DEF FlowInv
  <2> HIDE DEF j
  <2>1. SoundRecord(record') /\ record' # None /\ record'.file = j
    BY <1>2, <1>3, <2>0, PersistedIsSound DEF FlowTypes, SoundRecord
  <2>a. \A h \in Generations : h # generation => chains[h].pc \notin {"file", "download"}
    BY <1>3, <2>0 DEF Settled, OlderChains
  <2>5. FlowTypes'
    BY <1>3, <2>1, <2>3, <2>4 DEF FlowTypes, Restorable
  <2>6. OlderChains'
    BY <1>1, <1>3, <2>a, <2>0, <2>3 DEF FlowTypes, OlderChains
  <2>7. ChainFitsPhase(chains[generation].pc)'
    BY <1>1, <1>2, <1>3, <2>0, <2>3 DEF ChainFitsPhase, Terminal
  <2>8. DataFitsPhase(chains[generation])'
    BY <1>1, <1>2, <1>3, <2>0, <2>1, <2>3
       DEF DataFitsPhase, Restorable, Terminal, BeforeDownload
  <2>9. CancelFitsPhase(cancels[generation])'
    BY <1>2, <1>3, <2>0 DEF CancelFitsPhase, BeforeDownload
  <2> QED BY <2>5, <2>6, <2>7, <2>8, <2>9
<1>4. ASSUME Current(g), Goto(g, [chains[g] EXCEPT !.pc = "premium"]),
             UNCHANGED <<machine, fields, record, cancels, page>>
      PROVE  FlowInv'
  <2>2. "premium" \in Pcs
    BY DEF Pcs
  <2>3. /\ chains' \in [Generations -> ChainSet]
        /\ chains'[g].pc = "premium" /\ chains'[g].job = j
        /\ chains'[g].aborted = chains[g].aborted /\ chains'[g].resumed = chains[g].resumed
        /\ \A h \in Generations : h # g => chains'[h] = chains[h]
    BY <1>4, <2>2, GotoFacts, GotoPc
  <2> USE DEF FlowInv, machine, fields, Current
  <2>5. FlowTypes'
    BY <1>4, <2>3 DEF FlowTypes, SoundRecord
  <2>6. OlderChains'
    BY <1>1, <1>4, <2>3 DEF FlowTypes, OlderChains
  <2>7. ChainFitsPhase(chains[generation].pc)'
    BY <1>1, <1>2, <1>4, <2>3 DEF FlowTypes, ChainFitsPhase, Terminal
  <2>8. DataFitsPhase(chains[generation])'
    BY <1>1, <1>2, <1>4, <2>3
       DEF FlowTypes, DataFitsPhase, Restorable, Terminal, BeforeDownload
  <2>9. CancelFitsPhase(cancels[generation])'
    BY <1>4 DEF CancelFitsPhase, BeforeDownload
  <2> QED BY <2>5, <2>6, <2>7, <2>8, <2>9
<1>5. CASE Current(g) /\ Fail(g, "download_failed")
  <2>1. "download_failed" \in Terminal
    BY DEF Terminal
  <2> QED BY <1>2, <1>5, <2>1, Legal, FailKeeps DEF Current
<1>6. CASE (~ Current(g) \/ chains[g].aborted) /\ Dropped(g)
  BY <1>1, <1>6, AbortedIsOver, DroppedKeeps DEF Current
<1> QED BY <1>3, <1>4, <1>5, <1>6 DEF EnqueueAnswered

\* The Premium lookup after a refusal keeps the invariant, whichever flow it reaches.
LEMMA PremiumRefreshedKeeps ==
  ASSUME FlowInv, NEW g \in Generations, PremiumRefreshed(g)
  PROVE  FlowInv'
<1>1. page = "visible" /\ chains[g].pc = "premium" /\ EndChain(g)
  BY DEF PremiumRefreshed, At
<1>2. g = generation => phase = "enqueueing_download" /\ media = token /\ token # None /\ file = None
  BY <1>1 DEF FlowInv, FlowTypes, ChainFitsPhase, DataFitsPhase, Restorable,
     Terminal, BeforeDownload
<1> USE DEF FlowInv, PremiumRefreshed, Current
<1>5. FlowTypes'
  BY <1>1, EndFacts DEF FlowTypes, SoundRecord, Restorable
<1>6. OlderChains'
  BY <1>1, EndFacts DEF FlowTypes, OlderChains
<1>7. ChainFitsPhase(chains[generation].pc)'
  BY <1>1, <1>2, EndFacts DEF FlowTypes, ChainFitsPhase, Terminal
<1>8. DataFitsPhase(chains[generation])'
  BY <1>1, <1>2, EndFacts
     DEF FlowTypes, DataFitsPhase, Restorable, Terminal, BeforeDownload
<1>9. CancelFitsPhase(cancels[generation])'
  BY <1>2 DEF CancelFitsPhase, BeforeDownload
<1> QED BY <1>5, <1>6, <1>7, <1>8, <1>9

\* The end of pollDownload keeps the invariant.
LEMMA DownloadEndsKeeps ==
  ASSUME FlowInv, NEW g \in Generations, DownloadEnds(g)
  PROVE  FlowInv'
<1> DEFINE j == chains[g].job
<1>1. page = "visible" /\ chains[g].pc = "download"
  BY DEF DownloadEnds, At
<1>2. g = generation => phase \in {"downloading", "cancelled"}
  BY <1>1 DEF FlowInv, FlowTypes, ChainFitsPhase, Restorable, Terminal
<1>3. g = generation /\ phase = "downloading" =>
         token = j /\ token # None /\ media = token /\ file = token
  BY <1>1 DEF FlowInv, DataFitsPhase, Restorable
<1>4. g = generation /\ chains[g].resumed => restored
  BY <1>1 DEF FlowInv, DataFitsPhase
<1>5. j \in Media \cup {None}
  BY DEF FlowInv, FlowTypes, ChainSet
<1>6. CASE Ready(g)
  <2> USE DEF FlowInv, Ready, Current
  <2>e. EndChain(g)
    BY <1>6
  <2>r. SoundRecord(record') /\ record' # None /\ record'.file = j
    BY <1>3, <1>6, PersistedIsSound DEF FlowTypes, SoundRecord
  <2> HIDE DEF j
  <2>f. file' = j
    BY <1>6 DEF j
  <2>5. FlowTypes'
    BY <1>5, <1>6, <2>f, <2>e, <2>r, EndFacts DEF FlowTypes, Restorable
  <2>6. OlderChains'
    BY <1>1, <1>6, <2>e, EndFacts DEF FlowTypes, OlderChains
  <2>7. ChainFitsPhase(chains[generation].pc)'
    BY <1>6, <2>e, EndFacts DEF FlowTypes, ChainFitsPhase, Terminal
  <2>8. DataFitsPhase(chains[generation])'
    BY <1>3, <1>6, <2>e, <2>f, <2>r, EndFacts
       DEF FlowTypes, DataFitsPhase, Restorable, Terminal, BeforeDownload
  <2>9. CancelFitsPhase(cancels[generation])'
    BY <1>6 DEF CancelFitsPhase, BeforeDownload
  <2> QED BY <2>5, <2>6, <2>7, <2>8, <2>9
<1>7. ASSUME NEW shw \in BOOLEAN, ResumeFails(g, shw), chains[g].resumed
      PROVE  FlowInv'
  BY <1>2, <1>4, <1>7, ResumeFailsKeeps DEF ResumeFails, Current
<1>8. CASE CancelledSeen(g)
  <2>1. CASE CanTransition(phase, "cancelled")
    <3>1. /\ g = generation /\ phase' = "cancelled" /\ busy' = FALSE /\ error' = FALSE
          /\ file' = j /\ token' = None /\ record' = None /\ EndChain(g)
          /\ UNCHANGED <<generation, media, resumeId, restored, cancels, page>>
      BY <1>8, <2>1 DEF CancelledSeen, Current
    <3> USE DEF FlowInv
    <3> HIDE DEF j
    <3>5. FlowTypes'
      BY <1>5, <3>1, EndFacts DEF FlowTypes, SoundRecord, Terminal
    <3>6. OlderChains'
      BY <1>1, <3>1, EndFacts DEF FlowTypes, OlderChains
    <3>7. ChainFitsPhase(chains[generation].pc)'
      BY <3>1, EndFacts DEF FlowTypes, ChainFitsPhase, Terminal
    <3>8. DataFitsPhase(chains[generation])'
      BY <3>1, EndFacts DEF FlowTypes, DataFitsPhase, Restorable, Terminal,
         BeforeDownload
    <3>9. CancelFitsPhase(cancels[generation])'
      BY <3>1 DEF CancelFitsPhase, BeforeDownload
    <3> QED BY <3>5, <3>6, <3>7, <3>8, <3>9
  <2>2. CASE ~ CanTransition(phase, "cancelled")
    <3>1. g = generation /\ phase = "cancelled"
      BY <1>2, <1>8, <2>2, Legal DEF CancelledSeen, Current
    <3>2. CASE chains[g].resumed /\ ResumeFails(g, TRUE)
      BY <3>2, <1>7
    <3>3. CASE Dropped(g)
      BY <3>1, <3>3, DroppedKeeps
    <3> QED BY <1>8, <2>2, <3>2, <3>3 DEF CancelledSeen
  <2> QED BY <2>1, <2>2
<1>9. ASSUME Current(g), phase = "downloading", NEW to \in {"download_failed", "expired"}, Fail(g, to)
      PROVE  FlowInv'
  <2>1. to \in Terminal /\ to \in {"download_failed", "expired", "cancelled"}
    BY DEF Terminal
  <2> QED BY <1>9, <2>1, Legal, FailKeeps DEF Current
<1>10. CASE Current(g) /\ chains[g].aborted /\ Dropped(g)
  BY <1>1, <1>10, AbortedIsOver, DroppedKeeps DEF Current
<1>11. CASE ~ Current(g) /\ (Dropped(g) \/ DroppedFile(g))
  BY <1>1, <1>11, DroppedFileIsDropped, DroppedKeeps DEF Current
<1> HIDE DEF j
<1> QED BY <1>6, <1>7, <1>8, <1>9, <1>10, <1>11 DEF DownloadEnds

\* The answer to cancelDownloadJob keeps the invariant.
LEMMA CancelAnsweredKeeps ==
  ASSUME FlowInv, NEW g \in Generations, NEW ok \in BOOLEAN, CancelAnswered(g, ok)
  PROVE  FlowInv'
<1> DEFINE j == cancels[g]
<1>1. /\ page = "visible" /\ j # None /\ cancels' = [cancels EXCEPT ![g] = None]
      /\ UNCHANGED <<media, resumeId, restored, page>>
  BY DEF CancelAnswered
<1>2. j \in Media
  BY <1>1 DEF FlowInv, FlowTypes
<1>3. g = generation => phase \in {"downloading", "ready"} \cup Terminal
  BY <1>1 DEF FlowInv, FlowTypes, CancelFitsPhase, Restorable, BeforeDownload
<1>4. g = generation /\ phase \in {"downloading", "ready"} => j = token /\ token # None /\ (~ restored => file = token)
  BY <1>1 DEF FlowInv, CancelFitsPhase, DataFitsPhase, Restorable
<1>5. /\ cancels' \in [Generations -> Media \cup {None}] /\ cancels'[g] = None
      /\ \A h \in Generations : h # g => cancels'[h] = cancels[h]
  BY <1>1 DEF FlowInv, FlowTypes
<1>6. g = generation => \A h \in Generations : h # generation => chains[h].pc \notin {"file", "download"}
  BY <1>1 DEF FlowInv, OlderChains
<1> HIDE DEF j
<1>7. ASSUME file' = file \/ (g = generation /\ file' = j), error' \in BOOLEAN,
             UNCHANGED <<machine, token, record, chains>>
      PROVE  FlowInv'
  <2> USE DEF FlowInv, machine
  <2>5. FlowTypes'
    BY <1>1, <1>2, <1>5, <1>7 DEF FlowTypes, SoundRecord
  <2>6. OlderChains'
    BY <1>1, <1>5, <1>6, <1>7 DEF FlowTypes, OlderChains
  <2>7. ChainFitsPhase(chains[generation].pc)'
    BY <1>1, <1>7 DEF ChainFitsPhase
  <2>8. DataFitsPhase(chains[generation])'
    BY <1>1, <1>3, <1>4, <1>7 DEF DataFitsPhase, Restorable, Terminal, BeforeDownload
  <2>9. CancelFitsPhase(cancels[generation])'
    BY <1>1, <1>5, <1>7 DEF FlowTypes, CancelFitsPhase, BeforeDownload
  <2> QED BY <2>5, <2>6, <2>7, <2>8, <2>9
<1>8. ASSUME g = generation, file' = j, CanTransition(phase, "cancelled"),
             phase' = "cancelled", busy' = FALSE, error' = FALSE, token' = None, record' = None,
             chains' = AbortCurrent, UNCHANGED generation
      PROVE  FlowInv'
  <2> DEFINE new == AbortCurrent
  <2>a. chains' = new
    BY <1>8
  <2>b. /\ new \in [Generations -> ChainSet]
        /\ \A h \in Generations : h # generation => new[h] = chains[h]
        /\ new[generation].pc = chains[generation].pc
        /\ new[generation].resumed = chains[generation].resumed
    BY AbortFacts
  <2> HIDE DEF new
  <2>c. phase \in {"downloading", "ready"}
    BY <1>3, <1>8, Legal
  <2>d. chains[generation].pc \in {"ended", "download"}
    BY <2>c DEF FlowInv, ChainFitsPhase
  <2> USE DEF FlowInv
  <2>5. FlowTypes'
    BY <1>1, <1>2, <1>5, <1>8, <2>a, <2>b DEF FlowTypes, SoundRecord, Terminal
  <2>6. OlderChains'
    BY <1>1, <1>5, <1>6, <1>8, <2>a, <2>b DEF FlowTypes, OlderChains
  <2>7. ChainFitsPhase(chains[generation].pc)'
    BY <1>1, <1>8, <2>a, <2>b, <2>d DEF ChainFitsPhase, Terminal
  <2>8. DataFitsPhase(chains[generation])'
    BY <1>1, <1>8, <2>a, <2>b, <2>d
       DEF DataFitsPhase, Restorable, Terminal, BeforeDownload
  <2>9. CancelFitsPhase(cancels[generation])'
    BY <1>1, <1>5, <1>8 DEF FlowTypes, CancelFitsPhase, BeforeDownload
  <2> QED BY <2>5, <2>6, <2>7, <2>8, <2>9
<1>9. error \in BOOLEAN
  BY DEF FlowInv, FlowTypes
<1>10. CASE ok /\ Current(g) /\ file' = j
  <2>1. PICK state : IF state # "cancelled"
                     THEN UNCHANGED <<machine, token, error, record, chains>>
                     ELSE IF CanTransition(phase, "cancelled")
                     THEN /\ phase' = "cancelled" /\ busy' = FALSE /\ error' = FALSE
                          /\ token' = None /\ record' = None
                          /\ chains' = AbortCurrent
                          /\ UNCHANGED generation
                     ELSE /\ error' = TRUE
                          /\ UNCHANGED <<machine, token, record, chains>>
    BY <1>1, <1>9, <1>10 DEF CancelAnswered, Current
  <2> QED BY <1>7, <1>8, <1>9, <1>10, <2>1 DEF Current
<1>11. CASE error' \in {TRUE, error} /\ UNCHANGED <<machine, token, file, record, chains>>
  BY <1>7, <1>9, <1>11
<1> QED BY <1>1, <1>10, <1>11 DEF CancelAnswered, j

\* restore() and resume() on a machine at generation g, whose older chains are aborted
\* and whose later ones are unused.
LEMMA RestoreKeeps ==
  ASSUME FlowInv, NEW g \in Generations, NEW old \in [Generations -> ChainSet],
         Restore(g, old), page' = "visible",
         cancels' \in [Generations -> Media \cup {None}],
         \A h \in Generations : h < g => (old[h].pc # "ended" => old[h].aborted),
         \A h \in Generations : h >= g => old[h].pc = "ended" /\ cancels'[h] = None
  PROVE  FlowInv'
<1> USE FlowAssumption DEF FlowInv
<1>1. CASE phase' = "idle" /\ generation' = g /\ busy' = FALSE /\ Forget /\ chains' = old /\ record' = None
  <2> USE DEF Forget
  <2>1. FlowTypes'
    BY <1>1 DEF FlowTypes, SoundRecord
  <2>2. OlderChains'
    BY <1>1 DEF OlderChains, Generations
  <2>3. ChainFitsPhase(chains[generation].pc)'
    BY <1>1 DEF ChainFitsPhase, Generations, Terminal
  <2>4. DataFitsPhase(chains[generation])'
    BY <1>1 DEF DataFitsPhase, Generations, Terminal, Restorable, BeforeDownload
  <2>5. CancelFitsPhase(cancels[generation])'
    BY <1>1 DEF CancelFitsPhase, Generations
  <2> QED BY <2>1, <2>2, <2>3, <2>4, <2>5
<1>2. CASE /\ record # None /\ g < MaxGen
           /\ phase' = "submitting" /\ generation' = g + 1 /\ busy' = TRUE
           /\ token' = record.token /\ resumeId' = record.file /\ restored' = TRUE
           /\ media' = None /\ file' = None /\ error' = FALSE
           /\ chains' = [old EXCEPT ![g + 1] = Chain("resume", record.media, TRUE)]
           /\ UNCHANGED record
  <2> DEFINE c == Chain("resume", record.media, TRUE)
  <2>a. record \in StoredRecords /\ record.token = record.media /\ record.file \in {None, record.media}
    BY <1>2 DEF FlowTypes, SoundRecord
  <2>b. g + 1 \in Generations /\ record.media \in Media /\ None \notin Media
    BY <1>2, <2>a DEF Generations, StoredRecords
  <2>c. c \in ChainSet /\ c.pc = "resume" /\ c.job = record.media
    BY <2>b DEF Chain, ChainSet, Pcs
  <2>d. ~ c.aborted
    BY Zenon DEF Chain
  <2> HIDE DEF c
  <2>e. /\ chains' \in [Generations -> ChainSet] /\ chains'[g + 1] = c
        /\ \A h \in Generations : h # g + 1 => chains'[h] = old[h]
    BY <1>2, <2>b, <2>c DEF c
  <2>1. FlowTypes'
    BY <1>2, <2>a, <2>b, <2>e DEF FlowTypes, SoundRecord, Restorable
  <2>2. OlderChains'
    <3>1. ASSUME NEW h \in Generations, h # g + 1
          PROVE  /\ chains'[h] = old[h]
                 /\ old[h].pc # "ended" => old[h].aborted
                 /\ h > g + 1 => old[h].pc = "ended" /\ cancels'[h] = None
      BY <2>e, <3>1 DEF Generations
    <3>2. cancels'[g + 1] = None
      BY <2>b DEF Generations
    <3>3. ~ (g + 1 > g + 1) /\ generation' = g + 1 /\ file' = None
      BY <1>2 DEF Generations
    <3>4. chains'[generation'].pc # "download" /\ cancels'[generation'] = None
      BY <2>c, <2>e, <3>2, <3>3
    <3>5. ASSUME NEW h \in Generations
          PROVE  /\ h # generation' /\ chains'[h].pc # "ended" => chains'[h].aborted
                 /\ h > generation' => chains'[h].pc = "ended" /\ cancels'[h] = None
      BY <3>1, <3>3
    <3> QED BY <3>3, <3>4, <3>5 DEF OlderChains
  <2>3. ChainFitsPhase(chains[generation].pc)'
    BY <1>2, <2>c, <2>e DEF ChainFitsPhase, Terminal
  <2>4. DataFitsPhase(chains[generation])'
    BY <1>2, <2>a, <2>b, <2>c, <2>d, <2>e
       DEF DataFitsPhase, Terminal, Restorable, BeforeDownload
  <2>5. CancelFitsPhase(cancels[generation])'
    BY <1>2, <2>b DEF CancelFitsPhase, Generations
  <2> QED BY <2>1, <2>2, <2>3, <2>4, <2>5
<1> QED BY <1>1, <1>2 DEF Restore

\* onPageShow keeps the invariant.
LEMMA PageShowKeeps ==
  ASSUME FlowInv, PageShow
  PROVE  FlowInv'
<1> DEFINE old == AbortCurrent
<1>1. generation \in Generations /\ generation + 1 \in Generations
  BY FlowAssumption DEF FlowInv, FlowTypes, PageShow, Generations
<1>2. /\ old \in [Generations -> ChainSet]
      /\ \A h \in Generations : h # generation => old[h] = chains[h]
      /\ old[generation].pc # "ended" => old[generation].aborted
  BY AbortFacts
<1>3. Restore(generation + 1, old) /\ page' = "visible" /\ cancels' = cancels
  BY DEF PageShow
<1> HIDE DEF old
<1>4. \A h \in Generations : h < generation + 1 => (old[h].pc # "ended" => old[h].aborted)
  BY <1>1, <1>2 DEF FlowInv, OlderChains
<1>5. \A h \in Generations : h >= generation + 1 => old[h].pc = "ended" /\ cancels'[h] = None
  BY <1>1, <1>2, <1>3, FlowAssumption DEF FlowInv, OlderChains, Generations
<1>6. cancels' \in [Generations -> Media \cup {None}]
  BY <1>3 DEF FlowInv, FlowTypes
<1> QED BY <1>1, <1>2, <1>3, <1>4, <1>5, <1>6, RestoreKeeps

\* A reload of the page keeps the invariant.
LEMMA ReloadKeeps ==
  ASSUME FlowInv, Reload
  PROVE  FlowInv'
<1> DEFINE old == [g \in Generations |-> Ended]
<1>1. Ended \in ChainSet /\ Ended.pc = "ended"
  BY DEF Ended, ChainSet, Pcs
<1>2. old \in [Generations -> ChainSet] /\ \A h \in Generations : old[h].pc = "ended"
  BY <1>1
<1>3. Restore(0, old) /\ page' = "visible" /\ cancels' = [g \in Generations |-> None]
  BY DEF Reload
<1> HIDE DEF old
<1>4. 0 \in Generations
  BY FlowAssumption DEF Generations
<1> QED BY <1>2, <1>3, <1>4, RestoreKeeps

\* The invariant holds in the first state of the page.
LEMMA FlowStart == FlowInit => FlowInv
<1> SUFFICES ASSUME FlowInit PROVE FlowInv
  OBVIOUS
<1> USE FlowAssumption DEF FlowInit, FlowInv
<1>1. Ended \in ChainSet /\ Ended.pc = "ended" /\ 0 \in Generations
  BY DEF Ended, ChainSet, Pcs, Generations
<1>2. FlowTypes
  BY <1>1 DEF FlowTypes, SoundRecord
<1>3. OlderChains
  BY <1>1 DEF OlderChains
<1>4. ChainFitsPhase(chains[generation].pc)
  BY <1>1 DEF ChainFitsPhase, Terminal
<1>5. DataFitsPhase(chains[generation])
  BY <1>1 DEF DataFitsPhase, Terminal, Restorable, BeforeDownload
<1>6. CancelFitsPhase(cancels[generation])
  BY <1>1 DEF CancelFitsPhase
<1> QED BY <1>2, <1>3, <1>4, <1>5, <1>6

\* Every step of the flow keeps the invariant.
LEMMA FlowStep == FlowInv /\ [FlowNext]_flowVars => FlowInv'
<1> SUFFICES ASSUME FlowInv, [FlowNext]_flowVars PROVE FlowInv'
  OBVIOUS
<1>1. ASSUME NEW g \in Generations, ChainStep(g) PROVE FlowInv'
  BY <1>1, SubmitAnsweredKeeps, ResumeAnsweredKeeps, FileAnsweredKeeps,
     QuotaAnsweredKeeps,
     EnqueueAnsweredKeeps, InspectionEndsKeeps, PremiumRefreshedKeeps, DownloadEndsKeeps
     DEF ChainStep
<1>2. ASSUME NEW j \in Media, Submit(j) \/ ServerMoves(j) PROVE FlowInv'
  BY <1>2, SubmitKeeps, MovesKeep
<1>3. ASSUME NEW g \in Generations,
             InspectionTick(g) \/ DownloadTick(g) \/ \E ok \in BOOLEAN : CancelAnswered(g, ok)
      PROVE  FlowInv'
  BY <1>3, InspectionTickKeeps, DownloadTickKeeps, CancelAnsweredKeeps
<1>4. CASE EnqueueDownload \/ CancelTask \/ StartOver \/ PageHide \/ PageShow \/ Reload
  BY <1>4, EnqueueKeeps, CancelTaskKeeps, StartOverKeeps, PageHideKeeps,
     PageShowKeeps, ReloadKeeps
<1>5. CASE UNCHANGED flowVars
  BY <1>5 DEF flowVars, machine, fields, serverVars, FlowInv, FlowTypes, OlderChains,
     ChainFitsPhase, DataFitsPhase, CancelFitsPhase, SoundRecord
<1> QED BY <1>1, <1>2, <1>3, <1>4, <1>5 DEF FlowNext, Answers

-----------------------------------------------------------------------------
(* The grants: the inductive invariant *)

\* The controller's grant fields.
ArmSet == [path : 0..MaxRequests, arming : BOOLEAN, retry : BOOLEAN, timer : NoTimer..GrantLife,
           owner : 0..MaxRequests, prev : 0..MaxRequests, sent : 0..MaxRequests]
\* The controller's upgrade fields.
UpgradeSet == [pending : BOOLEAN, promoted : BOOLEAN, attempts : 0..MaxAttempts, auto : BOOLEAN]

\* A grant the page knows of was issued.
Issued(n) == n # 0 => grants[n] # "none"

\* The grant fields fit each other: "preparing" is an owned request, which hides the link.
ArmBase(a) ==
    /\ a \in ArmSet
    /\ a.owner \in {0, a.sent} /\ (a.arming <=> a.owner # 0)
    /\ a.arming => a.path = 0
    /\ a.path \in {0, a.sent, a.prev} /\ Issued(a.path) /\ Issued(a.prev)

\* The timer is due before the link expires.
DueInTime(a) == a.path # 0 /\ a.timer # NoTimer /\ life[a.path] > 1 => a.timer < life[a.path]

\* A link has a timer, or the retry button behind it.
Timed(a) == a.path # 0 => a.retry \/ a.timer # NoTimer

\* Requests o in flight: only ones that were sent, among them the one that is owned.
Asks(a, o) == /\ o \subseteq 1..a.sent
              /\ a.owner # 0 => a.owner \in o

\* Types of the server's side.
ServerOK ==
    /\ grants \in [GrantIds -> {"none", "live", "revoked"}]
    /\ life \in [GrantIds -> 0..GrantLife]
    /\ policy \in [Flows -> {"free", "premium"}]

\* The grant fields are of the flow on screen.
ArmInv ==
    /\ ArmBase(arm) /\ DueInTime(arm) /\ Asks(arm, open)
    /\ arm.arming \/ arm.path # 0 => ready
    /\ shown => Timed(arm)

\* The upgrade fields are of the flow on screen.
UpgradeInv ==
    /\ ready \in BOOLEAN /\ flow \in 0..MaxFlows /\ shown \in BOOLEAN
    /\ ready => flow \in Flows
    /\ upgrade \in UpgradeSet /\ asked \subseteq Flows
    /\ upgrade.pending => ready /\ flow \in asked
    /\ upgrade.promoted => ready /\ policy[flow] = "premium"

GrantInv == ServerOK /\ ArmInv /\ UpgradeInv

-----------------------------------------------------------------------------
(* The grants: the controller's functions and steps *)

\* computeGrantRefreshDelayMs is positive, and shorter than what is left of the grant.
LEMMA DelayInTime ==
  ASSUME NEW left \in 1..GrantLife
  PROVE  /\ RefreshDelay(left) \in 1..GrantLife
         /\ left > 1 => RefreshDelay(left) < left
<1> DEFINE half == left \div 2
           fallback == IF half > MinDelay THEN half ELSE MinDelay
           delay == IF left - 1 < fallback THEN left - 1 ELSE fallback
<1>1. half \in Int
  BY GrantAssumption
<1>2. RefreshDelay(left) = IF left - Buffer >= MinDelay THEN left - Buffer ELSE IF delay > 1 THEN delay ELSE 1
  BY DEF RefreshDelay
<1> HIDE DEF half
<1>3. fallback \in Int
  BY <1>1, GrantAssumption
<1> HIDE DEF fallback
<1>4. delay \in Int /\ delay < left
  BY <1>3, GrantAssumption
<1> HIDE DEF delay
<1> QED BY <1>2, <1>4, GrantAssumption

\* The types of the grant fields one by one.
LEMMA ArmFields ==
  ASSUME NEW a \in ArmSet
  PROVE  /\ a.path \in 0..MaxRequests /\ a.timer \in NoTimer..GrantLife
         /\ a.owner \in 0..MaxRequests /\ a.prev \in 0..MaxRequests /\ a.sent \in 0..MaxRequests
         /\ a.arming \in BOOLEAN /\ a.retry \in BOOLEAN
         /\ a = [path |-> a.path, arming |-> a.arming, retry |-> a.retry, timer |-> a.timer,
                 owner |-> a.owner, prev |-> a.prev, sent |-> a.sent]
BY DEF ArmSet

\* What is left of a grant is a number.
LEMMA LifeNat ==
  ASSUME ServerOK, NEW n \in 0..MaxRequests, n # 0
  PROVE  life[n] \in 0..GrantLife /\ n \in GrantIds
<1>1. n \in GrantIds
  BY GrantAssumption DEF GrantIds
<1> QED BY <1>1 DEF ServerOK

\* invalidateExpiredGrantHref keeps the grant fields fitting.
LEMMA InvalidatedOK ==
  ASSUME ServerOK, NEW a, ArmBase(a), DueInTime(a)
  PROVE  /\ ArmBase(Invalidated(a)) /\ DueInTime(Invalidated(a))
         /\ Invalidated(a).sent = a.sent /\ Invalidated(a).owner = a.owner
         /\ Invalidated(a).arming = a.arming
         /\ Invalidated(a).path # 0 => Invalidated(a) = a
         /\ Invalidated(a).path \in {0, a.path}
<1> DEFINE b == [a EXCEPT !.timer = NoTimer, !.path = 0, !.retry = TRUE]
<1>1. a \in ArmSet
  BY DEF ArmBase
<1>t. NoTimer \in NoTimer..GrantLife /\ 0 \in 0..MaxRequests
  BY GrantAssumption DEF NoTimer
<1>2. b \in ArmSet
  BY <1>1, <1>t DEF ArmSet
<1>3. /\ b.path = 0 /\ b.sent = a.sent /\ b.owner = a.owner /\ b.arming = a.arming /\ b.prev = a.prev
  BY <1>1 DEF ArmSet
<1> HIDE DEF b
<1>4. ArmBase(b) /\ DueInTime(b)
  BY <1>2, <1>3 DEF ArmBase, DueInTime, Issued
<1>5. Invalidated(a) = a \/ Invalidated(a) = b
  BY DEF Invalidated, b
<1> QED BY <1>3, <1>4, <1>5

\* scheduleGrantRefresh leaves a link with a timer that is due in time, or no link.
LEMMA ScheduledOK ==
  ASSUME ServerOK, NEW a, ArmBase(a), ~ a.arming
  PROVE  /\ ArmBase(Scheduled(a)) /\ DueInTime(Scheduled(a)) /\ Timed(Scheduled(a))
         /\ Scheduled(a).sent = a.sent /\ Scheduled(a).owner = a.owner
         /\ Scheduled(a).arming = a.arming
         /\ Scheduled(a).path \in {0, a.path}
<1> DEFINE off == [a EXCEPT !.timer = NoTimer]
           on == [a EXCEPT !.timer = RefreshDelay(life[a.path])]
<1>1. a \in ArmSet
  BY DEF ArmBase
<1>t. NoTimer \in NoTimer..GrantLife
  BY GrantAssumption DEF NoTimer
<1>2. /\ off \in ArmSet /\ off.path = a.path /\ off.sent = a.sent /\ off.owner = a.owner
      /\ off.arming = a.arming /\ off.prev = a.prev /\ off.timer = NoTimer
  BY <1>1, <1>t DEF ArmSet
<1> HIDE DEF off
<1>3. ArmBase(off) /\ DueInTime(off)
  BY <1>2 DEF ArmBase, DueInTime
<1>4. CASE a.path = 0
  <2>1. Scheduled(a) = off
    BY <1>4 DEF Scheduled, off
  <2> QED BY <1>2, <1>3, <1>4, <2>1 DEF Timed
<1>5. CASE a.path # 0 /\ life[a.path] > 0
  <2>1. life[a.path] \in 1..GrantLife
    BY <1>1, <1>5, LifeNat, ArmFields, GrantAssumption
  <2> DEFINE d == RefreshDelay(life[a.path])
  <2>2. d \in 1..GrantLife /\ (life[a.path] > 1 => d < life[a.path])
    BY <2>1, DelayInTime
  <2>3. Scheduled(a) = on /\ on = [a EXCEPT !.timer = d]
    BY <1>5 DEF Scheduled
  <2> HIDE DEF d
  <2>n. d \in NoTimer..GrantLife /\ d # NoTimer
    BY <2>2, GrantAssumption DEF NoTimer
  <2>4. /\ on \in ArmSet /\ on.path = a.path /\ on.sent = a.sent /\ on.owner = a.owner
        /\ on.arming = a.arming /\ on.prev = a.prev /\ on.timer = d
    BY <1>1, <2>3, <2>n DEF ArmSet
  <2> HIDE DEF on
  <2> QED BY <2>2, <2>3, <2>4, <2>n DEF ArmBase, DueInTime, Timed
<1>6. CASE a.path # 0 /\ ~ (life[a.path] > 0)
  <2>1. Scheduled(a) = Invalidated(off)
    BY <1>6 DEF Scheduled, off
  <2>2. life[a.path] = 0
    BY <1>1, <1>6, LifeNat, ArmFields, GrantAssumption
  <2>3. ~ StillValid(off, Safety)
    BY <1>2, <2>2, GrantAssumption DEF StillValid
  <2>4. Invalidated(off).path = 0
    BY <1>2, <2>3, <1>t DEF Invalidated, ArmSet
  <2>5. Timed(Invalidated(off))
    BY <2>4 DEF Timed
  <2> QED BY <1>2, <1>3, <2>1, <2>5, InvalidatedOK
<1> QED BY <1>4, <1>5, <1>6

\* armNativeDownload up to its request keeps the grant fields fitting.
LEMMA ArmingOK ==
  ASSUME ServerOK, NEW a, ArmBase(a), DueInTime(a), Arming(a).sent <= MaxRequests
  PROVE  /\ ArmBase(Arming(a)) /\ DueInTime(Arming(a)) /\ Timed(Arming(a))
         /\ \/ Arming(a).sent = a.sent /\ Arming(a).owner = a.owner
            \/ Arming(a).sent = a.sent + 1 /\ Arming(a).owner = a.sent + 1
<1>1. a \in ArmSet
  BY DEF ArmBase
<1>2. CASE a.arming
  <2>1. Arming(a) = a /\ a.path = 0
    BY <1>2 DEF Arming, ArmBase
  <2> QED BY <2>1 DEF Timed
<1>3. CASE ~ a.arming /\ a.path # 0 /\ life[a.path] > Buffer
  <2> DEFINE b == [a EXCEPT !.retry = FALSE]
  <2>1. Arming(a) = Scheduled(b)
    BY <1>3 DEF Arming
  <2>2. /\ b \in ArmSet /\ b.path = a.path /\ b.sent = a.sent /\ b.owner = a.owner
        /\ b.arming = a.arming /\ b.prev = a.prev
    BY <1>1 DEF ArmSet
  <2> HIDE DEF b
  <2>3. ArmBase(b)
    BY <2>2 DEF ArmBase
  <2> QED BY <1>3, <2>1, <2>2, <2>3, ScheduledOK
<1>4. CASE ~ a.arming /\ ~ (a.path # 0 /\ life[a.path] > Buffer)
  <2> DEFINE p == IF StillValid(a, Safety) THEN a.path ELSE 0
             n == a.sent + 1
             b == [path |-> 0, arming |-> TRUE, retry |-> a.retry, timer |-> a.timer,
                   owner |-> n, prev |-> p, sent |-> n]
  <2>1. Arming(a) = [a EXCEPT !.prev = p, !.path = 0, !.arming = TRUE, !.owner = n, !.sent = n]
    BY <1>4 DEF Arming
  <2>2. p \in 0..MaxRequests /\ Issued(p) /\ 0 \in 0..MaxRequests
    BY <1>1, ArmFields, GrantAssumption DEF ArmBase, Issued
  <2>3. n = a.sent + 1 /\ n \in Int /\ n # 0 /\ n > 0
    BY <1>1, ArmFields
  <2> HIDE DEF p, n
  <2>4. Arming(a) = b
    BY <1>1, <2>1, ArmFields DEF ArmSet
  <2>5. b.sent = n /\ b.owner = n /\ b.path = 0 /\ b.prev = p
    OBVIOUS
  <2>6. n \in 0..MaxRequests
    BY <2>3, <2>4, <2>5, GrantAssumption
  <2>7. b \in ArmSet
    BY <1>1, <2>2, <2>6, ArmFields DEF ArmSet
  <2>8. b.arming
    BY Zenon
  <2> HIDE DEF b
  <2>9. ArmBase(b) /\ DueInTime(b) /\ Timed(b)
    BY <2>2, <2>3, <2>5, <2>7, <2>8 DEF ArmBase, DueInTime, Timed, Issued
  <2> QED BY <2>3, <2>4, <2>5, <2>9
<1> QED BY <1>2, <1>3, <1>4

\* clearGrantState leaves neither link nor request.
LEMMA UnarmedOK ==
  ASSUME NEW a, ArmBase(a)
  PROVE  /\ ArmBase(Unarmed(a)) /\ DueInTime(Unarmed(a)) /\ Timed(Unarmed(a))
         /\ Unarmed(a).sent = a.sent /\ Unarmed(a).owner = 0 /\ Unarmed(a).path = 0
         /\ ~ Unarmed(a).arming
<1> DEFINE b == [a EXCEPT !.path = 0, !.arming = FALSE, !.retry = FALSE, !.timer = NoTimer, !.owner = 0]
<1>1. a \in ArmSet /\ Issued(a.prev)
  BY DEF ArmBase
<1>t. NoTimer \in NoTimer..GrantLife /\ 0 \in 0..MaxRequests
  BY GrantAssumption DEF NoTimer
<1>2. Unarmed(a) = b
  BY DEF Unarmed
<1>3. b \in ArmSet
  BY <1>1, <1>t DEF ArmSet
<1>4. b.path = 0 /\ b.owner = 0 /\ b.sent = a.sent /\ b.prev = a.prev
  BY <1>1 DEF ArmSet
<1>5. ~ b.arming
  BY <1>1 DEF ArmSet
<1> HIDE DEF b
<1> QED BY <1>1, <1>2, <1>3, <1>4, <1>5 DEF ArmBase, DueInTime, Timed, Issued

\* The outcome of a request: the link p is scheduled, and nothing is owned.
LEMMA OutcomeOK ==
  ASSUME ServerOK, NEW a, ArmBase(a), NEW p \in {a.sent, a.prev}, Issued(p)
  PROVE  LET b == [a EXCEPT !.path = p, !.arming = FALSE, !.retry = FALSE, !.owner = 0]
         IN  /\ ArmBase(Scheduled(b)) /\ DueInTime(Scheduled(b)) /\ Timed(Scheduled(b))
             /\ Scheduled(b).sent = a.sent /\ Scheduled(b).owner = 0
             /\ ~ Scheduled(b).arming
<1> DEFINE b == [a EXCEPT !.path = p, !.arming = FALSE, !.retry = FALSE, !.owner = 0]
<1>1. a \in ArmSet /\ Issued(a.prev)
  BY DEF ArmBase
<1>2. p \in 0..MaxRequests /\ 0 \in 0..MaxRequests
  BY <1>1, ArmFields, GrantAssumption
<1>3. b \in ArmSet
  BY <1>1, <1>2 DEF ArmSet
<1>4. b.path = p /\ b.owner = 0 /\ b.sent = a.sent /\ b.prev = a.prev
  BY <1>1 DEF ArmSet
<1>5. ~ b.arming
  BY <1>1 DEF ArmSet
<1> HIDE DEF b
<1>6. ArmBase(b)
  BY <1>1, <1>3, <1>4, <1>5 DEF ArmBase
<1>7. /\ ArmBase(Scheduled(b)) /\ DueInTime(Scheduled(b)) /\ Timed(Scheduled(b))
      /\ Scheduled(b).sent = a.sent /\ Scheduled(b).owner = 0
      /\ Scheduled(b).arming = b.arming
  BY <1>4, <1>5, <1>6, ScheduledOK
<1> QED BY <1>5, <1>7 DEF b

\* The grant invariant of a step, from the new grant fields.
LEMMA ArmFrame ==
  ASSUME UNCHANGED <<grants, life>>, NEW a, arm' = a, ArmBase(a), DueInTime(a), Asks(a, open'),
         a.arming \/ a.path # 0 => ready', shown' => Timed(a)
  PROVE  ArmInv'
BY DEF ArmInv, ArmBase, DueInTime, Asks, Timed, Issued

\* The requests in flight after a step from arm to a.
LEMMA SendsOK ==
  ASSUME ArmInv, NEW a, ArmBase(a), Sends(a),
         \/ a.sent = arm.sent /\ a.owner \in {0, arm.owner}
         \/ a.sent = arm.sent + 1 /\ a.owner = arm.sent + 1
  PROVE  arm' = a /\ Asks(a, open')
<1>1. /\ arm.sent \in 0..MaxRequests /\ open \subseteq 1..arm.sent
      /\ arm.owner # 0 => arm.owner \in open
  BY ArmFields DEF ArmInv, ArmBase, Asks
<1>2. arm' = a /\ open' = open \cup ((arm.sent + 1)..a.sent)
  BY DEF Sends
<1>3. CASE a.sent = arm.sent /\ a.owner \in {0, arm.owner}
  <2>1. (arm.sent + 1)..a.sent = {}
    BY <1>1, <1>3
  <2>2. open' = open
    BY <1>2, <2>1
  <2> QED BY <1>1, <1>2, <1>3, <2>2 DEF Asks
<1>4. CASE a.sent = arm.sent + 1 /\ a.owner = arm.sent + 1
  <2> DEFINE n == arm.sent + 1
  <2>1. n \in Int /\ n = arm.sent + 1 /\ arm.sent \in Int /\ arm.sent >= 0
    BY <1>1
  <2>2. open' = open \cup (n..n) /\ a.sent = n /\ a.owner = n
    BY <1>2, <1>4
  <2> HIDE DEF n
  <2>3. n..n = {n}
    BY <2>1
  <2>4. open' = open \cup {n}
    BY <2>2, <2>3
  <2>5. \A k \in open : k \in 1..n
    BY <1>1, <2>1
  <2>6. n \in 1..n
    BY <2>1
  <2> QED BY <1>2, <2>2, <2>4, <2>5, <2>6 DEF Asks
<1> QED BY <1>2, <1>3, <1>4

\* A step that lets armNativeDownload run on the fields b.
LEMMA ArmingStep ==
  ASSUME GrantInv, NEW b, ArmBase(b), DueInTime(b), b.sent = arm.sent,
         b.owner \in {0, arm.owner}, Sends(Arming(b)), ready', UNCHANGED <<grants, life>>
  PROVE  ArmInv'
<1> DEFINE a == Arming(b)
<1>1. a.sent <= MaxRequests
  BY DEF Sends
<1>2. /\ ArmBase(a) /\ DueInTime(a) /\ Timed(a)
      /\ \/ a.sent = b.sent /\ a.owner = b.owner
         \/ a.sent = b.sent + 1 /\ a.owner = b.sent + 1
  BY <1>1, ArmingOK DEF GrantInv
<1>3. Sends(a)
  OBVIOUS
<1> HIDE DEF a
<1>4. arm' = a /\ Asks(a, open')
  BY <1>2, <1>3, SendsOK DEF GrantInv
<1> QED BY <1>2, <1>4, ArmFrame

\* The answer to createBrowserGrant keeps the grant invariant.
LEMMA GrantAnsweredArm ==
  ASSUME GrantInv, NEW n \in GrantIds, GrantAnswered(n)
  PROVE  ArmInv'
<1>1. /\ n \in open /\ grants[n] # "none" /\ open' = open \ {n}
      /\ UNCHANGED <<ready, shown, grants, life>>
  BY DEF GrantAnswered
<1>2. /\ ArmBase(arm) /\ DueInTime(arm) /\ Asks(arm, open) /\ ServerOK
      /\ arm.arming \/ arm.path # 0 => ready
      /\ shown => Timed(arm)
  BY DEF GrantInv, ArmInv
<1>3. CASE arm.owner = n
  <2> DEFINE b == [arm EXCEPT !.path = n, !.arming = FALSE, !.retry = FALSE, !.owner = 0]
             a == Scheduled(b)
  <2>1. n # 0
    BY GrantAssumption DEF GrantIds
  <2>2. arm.sent = n /\ arm.arming /\ ready /\ Issued(n)
    BY <1>1, <1>2, <1>3, <2>1 DEF ArmBase, Issued
  <2>3. /\ ArmBase(a) /\ DueInTime(a) /\ Timed(a)
        /\ a.sent = arm.sent /\ a.owner = 0
    BY <1>2, <2>2, OutcomeOK
  <2>4. arm' = a
    BY <1>3 DEF GrantAnswered
  <2> HIDE DEF a
  <2>5. Asks(a, open')
    BY <1>1, <1>2, <2>3 DEF Asks
  <2> QED BY <1>1, <2>2, <2>3, <2>4, <2>5, ArmFrame
<1>4. CASE arm.owner # n
  <2>1. arm' = arm
    BY <1>4 DEF GrantAnswered
  <2>2. Asks(arm, open')
    BY <1>1, <1>2, <1>4 DEF Asks
  <2> QED BY <1>1, <1>2, <2>1, <2>2, ArmFrame
<1> QED BY <1>3, <1>4

\* The failure of createBrowserGrant keeps the grant invariant.
LEMMA GrantFailsArm ==
  ASSUME GrantInv, NEW n \in GrantIds, GrantFails(n)
  PROVE  ArmInv'
<1>1. n \in open /\ open' = open \ {n} /\ UNCHANGED <<ready, shown, grants, life>>
  BY DEF GrantFails
<1>2. /\ ArmBase(arm) /\ DueInTime(arm) /\ Asks(arm, open) /\ ServerOK
      /\ arm.arming \/ arm.path # 0 => ready
      /\ shown => Timed(arm)
  BY DEF GrantInv, ArmInv
<1>3. CASE arm.owner # n
  <2>1. arm' = arm
    BY <1>3 DEF GrantFails
  <2>2. Asks(arm, open')
    BY <1>1, <1>2, <1>3 DEF Asks
  <2> QED BY <1>1, <1>2, <2>1, <2>2, ArmFrame
<1>n. n # 0
  BY GrantAssumption DEF GrantIds
<1>4. CASE arm.owner = n /\ arm.prev # 0
  <2> DEFINE a == Reverted(arm)
  <2>2. arm.arming /\ ready
    BY <1>2, <1>4, <1>n DEF ArmBase
  <2>3. /\ ArmBase(a) /\ DueInTime(a) /\ Timed(a)
        /\ a.sent = arm.sent /\ a.owner = 0
    <3>1. a = Scheduled([arm EXCEPT !.path = arm.prev, !.arming = FALSE, !.retry = FALSE, !.owner = 0])
      <4>1. arm \in ArmSet
        BY <1>2 DEF ArmBase
      <4> QED BY <4>1 DEF Reverted, ArmSet
    <3>2. Issued(arm.prev)
      BY <1>2 DEF ArmBase
    <3> HIDE DEF a
    <3> QED BY <1>2, <3>1, <3>2, OutcomeOK
  <2>4. arm' = a
    BY <1>4 DEF GrantFails
  <2> HIDE DEF a
  <2>5. Asks(a, open')
    BY <1>1, <1>2, <2>3 DEF Asks
  <2> QED BY <1>1, <2>2, <2>3, <2>4, <2>5, ArmFrame
<1>5. CASE arm.owner = n /\ arm.prev = 0
  <2> DEFINE b == [arm EXCEPT !.arming = FALSE, !.retry = TRUE, !.owner = 0]
  <2>1. arm' = b
    BY <1>5 DEF GrantFails
  <2>2. arm \in ArmSet /\ arm.path = 0 /\ 0 \in 0..MaxRequests
    BY <1>2, <1>5, <1>n, GrantAssumption DEF ArmBase
  <2>4. b \in ArmSet
    BY <2>2 DEF ArmSet
  <2>5. b.path = 0 /\ b.owner = 0 /\ b.sent = arm.sent /\ b.prev = arm.prev
    BY <2>2 DEF ArmSet
  <2>6. ~ b.arming
    BY <2>2 DEF ArmSet
  <2> HIDE DEF b
  <2>7. ArmBase(b) /\ DueInTime(b) /\ Timed(b)
    BY <1>2, <2>4, <2>5, <2>6 DEF ArmBase, DueInTime, Timed, Issued
  <2>8. Asks(b, open')
    BY <1>1, <1>2, <2>5 DEF Asks
  <2> QED BY <1>1, <2>1, <2>5, <2>6, <2>7, <2>8, ArmFrame
<1> QED BY <1>3, <1>4, <1>5

\* The timer of scheduleGrantRefresh keeps the grant invariant.
LEMMA TimerFiresArm ==
  ASSUME GrantInv, TimerFires
  PROVE  ArmInv'
<1> DEFINE b == [arm EXCEPT !.timer = NoTimer]
<1>1. arm \in ArmSet /\ ArmBase(arm)
  BY DEF GrantInv, ArmInv, ArmBase
<1>t. NoTimer \in NoTimer..GrantLife
  BY GrantAssumption DEF NoTimer
<1>2. /\ b \in ArmSet /\ b.path = arm.path /\ b.sent = arm.sent /\ b.owner = arm.owner
      /\ b.arming = arm.arming /\ b.prev = arm.prev /\ b.timer = NoTimer
  BY <1>1, <1>t DEF ArmSet
<1>3. Sends(Arming(b)) /\ ready /\ UNCHANGED <<ready, grants, life>>
  BY DEF TimerFires
<1> HIDE DEF b
<1>4. ArmBase(b) /\ DueInTime(b)
  BY <1>1, <1>2 DEF ArmBase, DueInTime
<1> QED BY <1>2, <1>3, <1>4, ArmingStep

\* onForegroundResume keeps the grant invariant.
LEMMA ForegroundResumeArm ==
  ASSUME GrantInv, ForegroundResume
  PROVE  ArmInv'
<1>1. UNCHANGED <<ready, shown, grants, life>>
  BY DEF ForegroundResume
<1>2. /\ ArmBase(arm) /\ DueInTime(arm) /\ Asks(arm, open) /\ ServerOK
      /\ arm.arming \/ arm.path # 0 => ready
      /\ shown => Timed(arm)
  BY DEF GrantInv, ArmInv
<1>3. CASE UNCHANGED <<arm, open>>
  BY <1>1, <1>2, <1>3, ArmFrame
<1>4. CASE ready
  <2> DEFINE a == Invalidated(arm)
  <2>1. /\ ArmBase(a) /\ DueInTime(a)
        /\ a.sent = arm.sent /\ a.owner = arm.owner
        /\ a.arming = arm.arming
    BY <1>2, InvalidatedOK
  <2>2. \/ a.arming /\ Sends(a)
        \/ ~ a.arming /\ Sends(IF StillValid(a, Buffer) THEN Scheduled(a) ELSE Arming(a))
    BY <1>4 DEF ForegroundResume
  <2> HIDE DEF a
  <2>3. CASE a.arming /\ Sends(a)
    <3>1. arm' = a /\ Asks(a, open')
      BY <2>1, <2>3, SendsOK DEF GrantInv
    <3>2. Timed(a)
      BY <2>1, <2>3 DEF Timed, ArmBase
    <3> QED BY <1>1, <1>4, <2>1, <3>1, <3>2, ArmFrame
  <2>4. CASE ~ a.arming /\ Sends(Scheduled(a))
    <3> DEFINE b == Scheduled(a)
    <3>1. /\ ArmBase(b) /\ DueInTime(b) /\ Timed(b)
          /\ b.sent = a.sent /\ b.owner = a.owner
      BY <1>2, <2>1, <2>4, ScheduledOK
    <3>2. Sends(b)
      BY <2>4
    <3> HIDE DEF b
    <3>3. arm' = b /\ Asks(b, open')
      BY <2>1, <3>1, <3>2, SendsOK DEF GrantInv
    <3> QED BY <1>1, <1>4, <3>1, <3>3, ArmFrame
  <2>5. CASE Sends(Arming(a))
    BY <1>1, <1>4, <2>1, <2>5, ArmingStep
  <2> QED BY <2>2, <2>3, <2>4, <2>5
<1> QED BY <1>3, <1>4 DEF ForegroundResume

\* onPageHide keeps the grant invariant.
LEMMA HideGrantsArm ==
  ASSUME GrantInv, HideGrants
  PROVE  ArmInv'
<1>1. UNCHANGED <<ready, grants, life>> /\ shown' = FALSE /\ open' = open \ {arm.owner}
  BY DEF HideGrants
<1>2. /\ ArmBase(arm) /\ DueInTime(arm) /\ Asks(arm, open) /\ ServerOK
      /\ arm.arming \/ arm.path # 0 => ready
  BY DEF GrantInv, ArmInv
<1> DEFINE a == [arm EXCEPT !.timer = NoTimer]
<1>t. NoTimer \in NoTimer..GrantLife
  BY GrantAssumption DEF NoTimer
<1>3. /\ a \in ArmSet /\ a.path = arm.path /\ a.sent = arm.sent /\ a.owner = arm.owner
      /\ a.arming = arm.arming /\ a.prev = arm.prev /\ a.timer = NoTimer
  BY <1>2, <1>t DEF ArmBase, ArmSet
<1>4. arm' = IF ~ a.arming THEN a ELSE IF a.prev # 0 THEN Reverted(a)
             ELSE [a EXCEPT !.arming = FALSE, !.owner = 0]
  BY DEF HideGrants
<1> HIDE DEF a
<1>5. ArmBase(a) /\ DueInTime(a)
  BY <1>2, <1>3 DEF ArmBase, DueInTime
<1>6. CASE ~ a.arming
  <2>1. arm.owner = 0
    BY <1>2, <1>3, <1>6 DEF ArmBase
  <2>2. Asks(a, open')
    BY <1>1, <1>2, <1>3, <2>1 DEF Asks
  <2> QED BY <1>1, <1>2, <1>3, <1>4, <1>5, <1>6, <2>2, ArmFrame
<1>7. CASE a.arming /\ a.prev # 0
  <2> DEFINE b == Reverted(a)
  <2>1. b = Scheduled([a EXCEPT !.path = a.prev, !.arming = FALSE, !.retry = FALSE, !.owner = 0])
    BY <1>3 DEF Reverted, ArmSet
  <2>2. arm' = b
    BY <1>4, <1>7
  <2> HIDE DEF b
  <2>i. Issued(a.prev)
    BY <1>5 DEF ArmBase
  <2>3. /\ ArmBase(b) /\ DueInTime(b) /\ Timed(b)
        /\ b.sent = a.sent /\ b.owner = 0
    BY <1>2, <1>5, <2>1, <2>i, OutcomeOK
  <2>4. Asks(b, open')
    BY <1>1, <1>2, <1>3, <2>3 DEF Asks
  <2> QED BY <1>1, <1>2, <1>3, <1>7, <2>2, <2>3, <2>4, ArmFrame
<1>8. CASE a.arming /\ a.prev = 0
  <2> DEFINE b == [a EXCEPT !.arming = FALSE, !.owner = 0]
  <2>1. arm' = b
    BY <1>4, <1>8
  <2>z. 0 \in 0..MaxRequests
    BY GrantAssumption
  <2>2. b \in ArmSet
    BY <1>3, <2>z DEF ArmSet
  <2>3. b.path = a.path /\ b.owner = 0 /\ b.sent = a.sent /\ b.prev = a.prev
    BY <1>3 DEF ArmSet
  <2>4. ~ b.arming
    BY <1>3 DEF ArmSet
  <2> HIDE DEF b
  <2>5. a.path = 0
    BY <1>5, <1>8 DEF ArmBase
  <2>6. ArmBase(b) /\ DueInTime(b)
    BY <1>5, <2>2, <2>3, <2>4, <2>5 DEF ArmBase, DueInTime, Issued
  <2>7. Asks(b, open')
    BY <1>1, <1>2, <1>3, <2>3 DEF Asks
  <2> QED BY <1>1, <2>1, <2>3, <2>4, <2>5, <2>6, <2>7, ArmFrame
<1> QED BY <1>6, <1>7, <1>8

\* onNativeDownloadClick keeps the grant invariant.
LEMMA ClickArm ==
  ASSUME GrantInv, Click
  PROVE  ArmInv'
<1>1. UNCHANGED <<ready, shown, grants, life>> /\ ready
  BY DEF Click, OfferedLink
<1>2. /\ ArmBase(arm) /\ DueInTime(arm) /\ Asks(arm, open) /\ ServerOK
      /\ arm.arming \/ arm.path # 0 => ready
      /\ shown => Timed(arm)
  BY DEF GrantInv, ArmInv
<1>3. CASE UNCHANGED <<arm, open>>
  BY <1>1, <1>2, <1>3, ArmFrame
<1>4. CASE Sends(Arming(Invalidated(arm)))
  <2>1. /\ ArmBase(Invalidated(arm)) /\ DueInTime(Invalidated(arm))
        /\ Invalidated(arm).sent = arm.sent /\ Invalidated(arm).owner = arm.owner
    BY <1>2, InvalidatedOK
  <2> QED BY <1>1, <1>4, <2>1, ArmingStep
<1> QED BY <1>3, <1>4 DEF Click

\* retryGrantAccess keeps the grant invariant.
LEMMA RetryArm ==
  ASSUME GrantInv, RetryGrantAccess
  PROVE  ArmInv'
<1> DEFINE b == [arm EXCEPT !.retry = TRUE]
<1>1. ArmBase(arm) /\ DueInTime(arm)
  BY DEF GrantInv, ArmInv
<1>2. /\ b \in ArmSet /\ b.path = arm.path /\ b.sent = arm.sent /\ b.owner = arm.owner
      /\ b.arming = arm.arming /\ b.prev = arm.prev /\ b.timer = arm.timer
  BY <1>1 DEF ArmBase, ArmSet
<1>3. Sends(Arming(b)) /\ ready /\ UNCHANGED <<ready, grants, life>>
  BY DEF RetryGrantAccess, CanRetryGrant
<1> HIDE DEF b
<1>4. ArmBase(b) /\ DueInTime(b)
  BY <1>1, <1>2 DEF ArmBase, DueInTime
<1> QED BY <1>2, <1>3, <1>4, ArmingStep

\* A step that clears the grant keeps the grant invariant.
LEMMA UnarmedStep ==
  ASSUME GrantInv, arm' = Unarmed(arm), UNCHANGED <<open, grants, life>>
  PROVE  ArmInv'
<1> DEFINE a == Unarmed(arm)
<1>1. ArmBase(arm) /\ Asks(arm, open)
  BY DEF GrantInv, ArmInv
<1>2. /\ ArmBase(a) /\ DueInTime(a) /\ Timed(a)
      /\ a.sent = arm.sent /\ a.owner = 0 /\ a.path = 0 /\ ~ a.arming
  BY <1>1, UnarmedOK
<1>3. arm' = a
  OBVIOUS
<1> HIDE DEF a
<1>4. Asks(a, open')
  BY <1>1, <1>2 DEF Asks
<1> QED BY <1>2, <1>3, <1>4, ArmFrame

\* So does one that leaves the grant fields alone.
LEMMA SameArm ==
  ASSUME GrantInv, UNCHANGED <<arm, open, ready, shown, grants, life>>
  PROVE  ArmInv'
BY DEF GrantInv, ArmInv, ArmBase, DueInTime, Asks, Timed, Issued

\* The server issuing a grant keeps the invariant: no link names a grant not yet issued.
LEMMA IssueGrantKeeps ==
  ASSUME GrantInv, NEW n \in GrantIds, IssueGrant(n)
  PROVE  ArmInv' /\ ServerOK'
<1>1. /\ grants[n] = "none" /\ grants' = [grants EXCEPT ![n] = "live"]
      /\ life' = [life EXCEPT ![n] = GrantLife]
      /\ UNCHANGED <<ready, shown, arm, open, policy>>
  BY DEF IssueGrant
<1>2. ServerOK /\ ArmBase(arm)
  BY DEF GrantInv, ArmInv
<1>3. arm.path # n /\ arm.prev # n
  <2>1. n # 0
    BY GrantAssumption DEF GrantIds
  <2> QED BY <1>1, <1>2, <2>1 DEF ArmBase, Issued
<1>4. arm.path \in 0..MaxRequests /\ arm.prev \in 0..MaxRequests
  BY <1>2, ArmFields DEF ArmBase
<1>5. \A k \in GrantIds : k # n => life'[k] = life[k] /\ grants'[k] = grants[k]
  BY <1>1, <1>2 DEF ServerOK
<1>6. /\ arm.path # 0 => arm.path \in GrantIds
      /\ arm.prev # 0 => arm.prev \in GrantIds
  BY <1>2, <1>4, LifeNat
<1>7. ArmBase(arm)'
  BY <1>1, <1>2, <1>3, <1>5, <1>6 DEF ArmBase, Issued
<1>8. ServerOK'
  BY <1>1, <1>2, GrantAssumption DEF ServerOK
<1>9. DueInTime(arm)'
  BY <1>1, <1>3, <1>5, <1>6 DEF GrantInv, ArmInv, DueInTime
<1> QED BY <1>1, <1>7, <1>8, <1>9 DEF GrantInv, ArmInv, Asks, Timed

\* The promotion on the server, which revokes grants, keeps the invariant.
LEMMA PromoteKeeps ==
  ASSUME GrantInv, NEW f \in Flows, Promote(f)
  PROVE  GrantInv'
<1>1. /\ policy' = [policy EXCEPT ![f] = "premium"]
      /\ grants' = [n \in GrantIds |-> IF grants[n] = "live" /\ f = flow THEN "revoked" ELSE grants[n]]
      /\ UNCHANGED <<ready, flow, shown, arm, open, upgrade, asked, life>>
  BY DEF Promote
<1>2. ServerOK /\ ArmBase(arm)
  BY DEF GrantInv, ArmInv
<1>3. \A n \in GrantIds : grants[n] # "none" => grants'[n] # "none"
  BY <1>1, <1>2 DEF ServerOK
<1>4. /\ arm.path # 0 => arm.path \in GrantIds
      /\ arm.prev # 0 => arm.prev \in GrantIds
  BY <1>2, ArmFields, LifeNat DEF ArmBase
<1>5. ArmBase(arm)'
  BY <1>1, <1>2, <1>3, <1>4 DEF ArmBase, Issued
<1>6. ServerOK'
  BY <1>1, <1>2 DEF ServerOK
<1>7. ArmInv'
  BY <1>1, <1>5 DEF GrantInv, ArmInv, Asks, Timed, DueInTime
<1>8. UpgradeInv'
  <2>1. \A k \in Flows : policy[k] = "premium" => policy'[k] = "premium"
    BY <1>1, <1>2 DEF ServerOK
  <2> QED BY <1>1, <2>1 DEF GrantInv, UpgradeInv
<1> QED BY <1>6, <1>7, <1>8 DEF GrantInv

\* Timer and grant run down together.
LEMMA ElapseKeeps ==
  ASSUME GrantInv, Elapse
  PROVE  ArmInv' /\ ServerOK'
<1>1. /\ life' = [n \in GrantIds |-> IF life[n] > 0 THEN life[n] - 1 ELSE 0]
      /\ UNCHANGED <<ready, shown, open, grants, policy>>
  BY DEF Elapse
<1>2. ServerOK /\ ArmBase(arm) /\ DueInTime(arm) /\ arm \in ArmSet
  BY DEF GrantInv, ArmInv, ArmBase
<1>3. ServerOK'
  BY <1>1, <1>2, GrantAssumption DEF ServerOK
<1>4. ASSUME NEW n \in GrantIds
      PROVE  life'[n] > 1 => life[n] > 1 /\ life'[n] = life[n] - 1 /\ life[n] \in Int
  BY <1>1, <1>2, GrantAssumption DEF ServerOK
<1>5. arm.path # 0 => arm.path \in GrantIds
  BY <1>2, ArmFields, LifeNat
<1>t. arm.timer \in NoTimer..GrantLife
  BY <1>2, ArmFields
<1>6. CASE ~ (arm.timer > 0)
  <2>1. arm' = arm
    BY <1>6 DEF Elapse
  <2>2. DueInTime(arm)'
    <3>1. arm.timer # NoTimer => arm.timer = 0
      BY <1>6, <1>t, GrantAssumption DEF NoTimer
    <3>2. arm.path # 0 /\ life'[arm.path] > 1 => 0 < life'[arm.path]
      BY <1>4, <1>5
    <3> QED BY <2>1, <3>1, <3>2 DEF DueInTime
  <2> QED BY <1>1, <1>3, <2>1, <2>2 DEF GrantInv, ArmInv, ArmBase, Asks, Timed, Issued
<1>7. CASE arm.timer > 0
  <2> DEFINE t == arm.timer - 1
             b == [arm EXCEPT !.timer = t]
  <2>1. arm' = b
    BY <1>7 DEF Elapse
  <2>2. t \in NoTimer..GrantLife /\ t # NoTimer /\ arm.timer # NoTimer /\ t = arm.timer - 1
    BY <1>7, <1>t, GrantAssumption DEF NoTimer
  <2> HIDE DEF t
  <2>3. /\ b \in ArmSet /\ b.path = arm.path /\ b.sent = arm.sent /\ b.owner = arm.owner
        /\ b.arming = arm.arming /\ b.prev = arm.prev /\ b.timer = t
    BY <1>2, <2>2 DEF ArmSet
  <2> HIDE DEF b
  <2>4. arm.path # 0 /\ life'[arm.path] > 1 => t < life'[arm.path]
    BY <1>2, <1>4, <1>5, <1>t, <2>2, GrantAssumption DEF DueInTime, NoTimer
  <2>5. DueInTime(arm)'
    BY <2>1, <2>3, <2>4 DEF DueInTime
  <2>6. ArmBase(arm)'
    BY <1>1, <1>2, <2>1, <2>3 DEF ArmBase, Issued
  <2>7. Timed(arm)' /\ Asks(arm, open)'
    BY <1>1, <2>1, <2>2, <2>3 DEF GrantInv, ArmInv, Timed, Asks
  <2> QED BY <1>1, <1>3, <2>1, <2>3, <2>5, <2>6, <2>7 DEF GrantInv, ArmInv
<1> QED BY <1>6, <1>7

\* An upgrade that may be asked for stays within the attempts.
LEMMA UpgradingOK ==
  ASSUME NEW u \in UpgradeSet, u.attempts < MaxAttempts, ~ u.promoted, NEW byItself \in BOOLEAN
  PROVE  /\ Upgrading(u, byItself) \in UpgradeSet
         /\ ~ Upgrading(u, byItself).promoted
<1> DEFINE n == u.attempts + 1
           x == u.auto \/ byItself
           v == [u EXCEPT !.pending = TRUE, !.attempts = n, !.auto = x]
<1>1. n \in 0..MaxAttempts
  BY GrantAssumption DEF UpgradeSet
<1>2. x \in BOOLEAN
  BY DEF UpgradeSet
<1>3. Upgrading(u, byItself) = v
  BY DEF Upgrading
<1> HIDE DEF n, x
<1>4. v \in UpgradeSet
  BY <1>1, <1>2 DEF UpgradeSet
<1>5. ~ v.promoted
  BY DEF UpgradeSet
<1> HIDE DEF v
<1> QED BY <1>3, <1>4, <1>5

\* clearUpgradeState.
LEMMA NoUpgradeOK == NoUpgrade \in UpgradeSet /\ ~ NoUpgrade.pending /\ ~ NoUpgrade.promoted /\ NoUpgrade.attempts = 0
<1>1. NoUpgrade \in UpgradeSet
  BY GrantAssumption DEF NoUpgrade, UpgradeSet
<1>2. ~ NoUpgrade.pending /\ ~ NoUpgrade.promoted
  BY Zenon DEF NoUpgrade
<1>3. NoUpgrade.attempts = 0
  BY DEF NoUpgrade
<1> QED BY <1>1, <1>2, <1>3

\* upgradeToPremium up to its request keeps the upgrade invariant.
LEMMA UpgradeStarts ==
  ASSUME GrantInv, MayUpgrade(upgrade), NEW byItself \in BOOLEAN,
         upgrade' = Upgrading(upgrade, byItself), asked' = asked \cup {flow},
         UNCHANGED <<ready, flow, shown, policy>>
  PROVE  UpgradeInv'
<1>1. upgrade \in UpgradeSet /\ upgrade.attempts < MaxAttempts /\ ~ upgrade.promoted /\ ready
  BY DEF MayUpgrade, GrantInv, UpgradeInv
<1>2. upgrade' \in UpgradeSet /\ ~ upgrade'.promoted
  BY <1>1, UpgradingOK
<1>3. flow \in asked' /\ asked' \subseteq Flows
  BY <1>1 DEF GrantInv, UpgradeInv
<1> QED BY <1>1, <1>2, <1>3 DEF GrantInv, UpgradeInv

\* A step that leaves the upgrade fields alone keeps the upgrade invariant.
LEMMA SameUpgrade ==
  ASSUME GrantInv, UNCHANGED <<ready, flow, upgrade, asked, policy>>, shown' \in BOOLEAN
  PROVE  UpgradeInv'
BY DEF GrantInv, UpgradeInv

\* A step that leaves the server alone keeps its types.
LEMMA SameServer ==
  ASSUME GrantInv, UNCHANGED <<grants, life, policy>>
  PROVE  ServerOK'
BY DEF GrantInv, ServerOK

\* The answer to the Premium lookup keeps the invariant.
LEMMA PremiumAnsweredKeeps ==
  ASSUME GrantInv, NEW state \in {"free", "active", "error"}, PremiumAnswered(state)
  PROVE  GrantInv'
<1>1. UNCHANGED <<ready, flow, shown, open, grants, life, policy>>
  BY DEF PremiumAnswered
<1>2. shown \in BOOLEAN
  BY DEF GrantInv, UpgradeInv
<1>3. CASE /\ MayUpgrade(upgrade)
           /\ upgrade' = Upgrading(upgrade, TRUE) /\ asked' = asked \cup {flow}
           /\ arm' = Unarmed(arm)
  BY <1>1, <1>3, UpgradeStarts, UnarmedStep, SameServer DEF GrantInv
<1>4. CASE UNCHANGED <<upgrade, asked, arm>>
  BY <1>1, <1>2, <1>4, SameUpgrade, SameArm, SameServer DEF GrantInv
<1> QED BY <1>3, <1>4 DEF PremiumAnswered, UpgradeWhenActive

\* The visitor's request for the upgrade keeps the invariant.
LEMMA UpgradeToPremiumKeeps ==
  ASSUME GrantInv, UpgradeToPremium
  PROVE  GrantInv'
<1>1. /\ UNCHANGED <<ready, flow, shown, open, grants, life, policy>> /\ MayUpgrade(upgrade)
      /\ upgrade' = Upgrading(upgrade, FALSE) /\ asked' = asked \cup {flow}
      /\ arm' = Unarmed(arm)
  BY DEF UpgradeToPremium
<1> QED BY <1>1, UpgradeStarts, UnarmedStep, SameServer DEF GrantInv

\* The answer to the upgrade, late or not, keeps the invariant.
LEMMA UpgradeAnsweredKeeps ==
  ASSUME GrantInv, NEW f \in Flows, NEW ok \in BOOLEAN, UpgradeAnswered(f, ok)
  PROVE  GrantInv'
<1>1. /\ UNCHANGED <<ready, flow, shown, grants, life, policy>>
      /\ asked' = asked \ {f} /\ (ok => policy[f] = "premium")
  BY DEF UpgradeAnswered
<1>2. CASE /\ f = flow /\ ready
           /\ upgrade' = [upgrade EXCEPT !.pending = FALSE, !.promoted = ok]
           /\ Sends(Arming(arm))
  <2>1. ArmInv'
    <3>1. ArmBase(arm) /\ DueInTime(arm)
      BY DEF GrantInv, ArmInv
    <3> QED BY <1>1, <1>2, <3>1, ArmingStep
  <2>2. upgrade \in UpgradeSet
    BY DEF GrantInv, UpgradeInv
  <2>3. upgrade' \in UpgradeSet
    BY <1>2, <2>2 DEF UpgradeSet
  <2>4. ~ upgrade'.pending
    BY <1>2, <2>2 DEF UpgradeSet
  <2>5. upgrade'.promoted => ok
    BY <1>2, <2>2 DEF UpgradeSet
  <2>6. UpgradeInv'
    BY <1>1, <1>2, <2>3, <2>4, <2>5 DEF GrantInv, UpgradeInv
  <2> QED BY <1>1, <2>1, <2>6, SameServer DEF GrantInv
<1>3. CASE (f # flow \/ ~ ready) /\ UNCHANGED <<upgrade, arm, open>>
  <2>1. UpgradeInv'
    BY <1>1, <1>3 DEF GrantInv, UpgradeInv
  <2> QED BY <1>1, <1>3, <2>1, SameArm, SameServer DEF GrantInv
<1> QED BY <1>2, <1>3 DEF UpgradeAnswered

\* The flow becoming ready keeps the invariant.
LEMMA BecomeReadyKeeps ==
  ASSUME GrantInv, BecomeReady
  PROVE  GrantInv'
<1>1. /\ ready' = TRUE /\ flow' = flow + 1 /\ UNCHANGED <<shown, grants, life, policy>>
      /\ flow < MaxFlows
  BY DEF BecomeReady
<1>2. flow' \in Flows /\ flow' \in 0..MaxFlows /\ shown \in BOOLEAN /\ asked \subseteq Flows
  BY <1>1, GrantAssumption DEF GrantInv, UpgradeInv, Flows
<1>3. CASE /\ upgrade' = Upgrading(NoUpgrade, TRUE) /\ asked' = asked \cup {flow'}
           /\ arm' = Unarmed(arm) /\ UNCHANGED open
  <2>1. upgrade' \in UpgradeSet /\ ~ upgrade'.promoted
    BY <1>3, NoUpgradeOK, UpgradingOK, GrantAssumption
  <2>2. UpgradeInv'
    BY <1>1, <1>2, <1>3, <2>1 DEF UpgradeInv
  <2> QED BY <1>1, <1>3, <2>2, UnarmedStep, SameServer DEF GrantInv
<1>4. CASE Sends(Arming(Unarmed(arm))) /\ upgrade' = NoUpgrade /\ UNCHANGED asked
  <2>1. UpgradeInv'
    BY <1>1, <1>2, <1>4, NoUpgradeOK DEF UpgradeInv
  <2>2. ArmBase(arm)
    BY DEF GrantInv, ArmInv
  <2>3. /\ ArmBase(Unarmed(arm)) /\ DueInTime(Unarmed(arm))
        /\ Unarmed(arm).sent = arm.sent /\ Unarmed(arm).owner = 0
    BY <2>2, UnarmedOK
  <2>4. ArmInv'
    BY <1>1, <1>4, <2>3, ArmingStep
  <2> QED BY <1>1, <2>1, <2>4, SameServer DEF GrantInv
<1>5. ~ NoUpgrade.auto
  BY Zenon DEF NoUpgrade
<1> QED BY <1>1, <1>3, <1>4, <1>5 DEF BecomeReady, UpgradeWhenActive

\* Leaving the ready phase, by startOver or with the page, keeps the invariant.
LEMMA LeaveKeeps ==
  ASSUME GrantInv, Leave \/ ShowGrants
  PROVE  GrantInv'
<1>1. /\ ready' = FALSE /\ arm' = Unarmed(arm) /\ upgrade' = NoUpgrade /\ shown' \in BOOLEAN
      /\ UNCHANGED <<flow, open, asked, grants, life, policy>>
  BY DEF Leave, ShowGrants, GrantInv, UpgradeInv
<1>2. UpgradeInv'
  BY <1>1, NoUpgradeOK DEF GrantInv, UpgradeInv
<1> QED BY <1>1, <1>2, UnarmedStep, SameServer DEF GrantInv

\* The invariant holds when the page is loaded.
LEMMA GrantsStart == GrantsInit => GrantInv
<1> SUFFICES ASSUME GrantsInit PROVE GrantInv
  OBVIOUS
<1> USE GrantAssumption DEF GrantsInit
<1>1. ServerOK
  BY DEF ServerOK
<1>2. NoTimer \in NoTimer..GrantLife
  BY DEF NoTimer
<1>3. arm \in ArmSet
  BY <1>2 DEF ArmSet
<1>4. ~ arm.arming
  BY Zenon
<1>5. arm.path = 0 /\ arm.owner = 0 /\ arm.prev = 0 /\ open = {}
  OBVIOUS
<1>6. ArmInv
  BY <1>3, <1>4, <1>5 DEF ArmInv, ArmBase, DueInTime, Asks, Timed, Issued
<1>a. ready \in BOOLEAN /\ shown \in BOOLEAN /\ ~ ready /\ upgrade = NoUpgrade /\ asked = {}
  BY Zenon
<1>b. flow \in 0..MaxFlows
  OBVIOUS
<1>7. UpgradeInv
  BY ONLY <1>a, <1>b, NoUpgradeOK DEF UpgradeInv
<1> QED BY <1>1, <1>6, <1>7 DEF GrantInv

\* Every step of the ready phase keeps the invariant.
LEMMA GrantsStep == GrantInv /\ [GrantsNext]_grantVars => GrantInv'
<1> SUFFICES ASSUME GrantInv, [GrantsNext]_grantVars PROVE GrantInv'
  OBVIOUS
<1>0. shown \in BOOLEAN
  BY DEF GrantInv, UpgradeInv
<1>1. ASSUME NEW n \in GrantIds, GrantAnswered(n) \/ GrantFails(n) PROVE GrantInv'
  <2>1. UNCHANGED <<ready, flow, shown, upgrade, asked, grants, life, policy>>
    BY <1>1 DEF GrantAnswered, GrantFails
  <2> QED BY <1>0, <1>1, <2>1, GrantAnsweredArm, GrantFailsArm, SameUpgrade,
     SameServer DEF GrantInv
<1>2. CASE TimerFires \/ Click \/ RetryGrantAccess \/ ForegroundResume
  <2>1. UNCHANGED <<ready, flow, shown, upgrade, asked, grants, life, policy>>
    BY <1>2 DEF TimerFires, Click, RetryGrantAccess, ForegroundResume
  <2>2. ArmInv'
    BY <1>2, TimerFiresArm, ClickArm, RetryArm, ForegroundResumeArm
  <2> QED BY <1>0, <2>1, <2>2, SameUpgrade, SameServer DEF GrantInv
<1>3. CASE RefreshPremium
  <2>1. UNCHANGED <<ready, flow, shown, arm, open, upgrade, asked, grants, life, policy>>
    BY <1>3 DEF RefreshPremium
  <2> QED BY <1>0, <2>1, SameArm, SameUpgrade, SameServer DEF GrantInv
<1>4. CASE HideGrants
  <2>1. UNCHANGED <<ready, flow, upgrade, asked, grants, life, policy>> /\ shown' \in BOOLEAN
    BY <1>4 DEF HideGrants
  <2> QED BY <1>4, <2>1, HideGrantsArm, SameUpgrade, SameServer DEF GrantInv
<1>5. ASSUME NEW n \in GrantIds, IssueGrant(n) PROVE GrantInv'
  <2>1. UNCHANGED <<ready, flow, shown, upgrade, asked, policy>>
    BY <1>5 DEF IssueGrant
  <2> QED BY <1>0, <1>5, <2>1, IssueGrantKeeps, SameUpgrade DEF GrantInv
<1>6. CASE Elapse
  <2>1. UNCHANGED <<ready, flow, shown, upgrade, asked, policy>>
    BY <1>6 DEF Elapse
  <2> QED BY <1>0, <1>6, <2>1, ElapseKeeps, SameUpgrade DEF GrantInv
<1>7. CASE UNCHANGED grantVars
  <2>1. UNCHANGED <<ready, flow, shown, arm, open, upgrade, asked, grants, life, policy>>
    BY <1>7 DEF grantVars
  <2> QED BY <1>0, <2>1, SameArm, SameUpgrade, SameServer DEF GrantInv
<1> QED BY <1>1, <1>2, <1>3, <1>4, <1>5, <1>6, <1>7, UpgradeAnsweredKeeps,
   PremiumAnsweredKeeps,
           UpgradeToPremiumKeeps, BecomeReadyKeeps, LeaveKeeps, PromoteKeeps DEF GrantsNext

-----------------------------------------------------------------------------
(* The theorems *)

\* What a chain of an older generation can do.
Silent(g) ==
    /\ UNCHANGED <<phase, token, media, file, record>>
    /\ resumeId' # resumeId =>
         resumeId' = None /\ restored /\ chains[g].resumed /\ chains[g].pc \in {"resume", "inspection"}

\* A chain of an older generation that gets its answer changes nothing of the flow on
\* screen, nor its record; the rejection of a restore forgets the download to restore.
LEMMA StaleStep ==
  ASSUME FlowInv, NEW g \in Generations, g # generation, ChainStep(g)
  PROVE  Silent(g)
<1> USE DEF Current, machine, fields
<1>1. CASE Dropped(g)
  BY <1>1 DEF Dropped, Silent
<1>2. ASSUME DroppedFile(g), chains[g].pc \in {"file", "download"}
      PROVE  Silent(g)
  BY <1>1, <1>2, DroppedFileIsDropped
<1>3. ASSUME DroppedResume(g), chains[g].pc \in {"resume", "inspection"}
      PROVE  Silent(g)
  <2>1. UNCHANGED <<phase, token, media, file, record>> /\ resumeId' = IF chains[g].resumed THEN None ELSE resumeId
    BY <1>3 DEF DroppedResume
  <2>2. resumeId # None => restored
    BY DEF FlowInv, DataFitsPhase
  <2> QED BY <1>3, <2>1, <2>2 DEF Silent
<1>4. ASSUME NEW ok \in BOOLEAN, SubmitAnswered(g, ok)
      PROVE  Dropped(g)
  BY <1>4 DEF SubmitAnswered
<1>5. ASSUME NEW ok \in BOOLEAN, ResumeAnswered(g, ok)
      PROVE  Dropped(g) \/ (DroppedResume(g) /\ chains[g].pc \in {"resume", "inspection"})
  BY <1>5 DEF ResumeAnswered, At
<1>6. ASSUME NEW ok \in BOOLEAN, FileAnswered(g, ok)
      PROVE  Dropped(g) \/ (DroppedFile(g) /\ chains[g].pc \in {"file", "download"})
  BY <1>6 DEF FileAnswered, ResumeFails, At
<1>7. ASSUME NEW ok \in BOOLEAN, QuotaAnswered(g, ok)
      PROVE  Silent(g)
  BY <1>1, <1>7 DEF QuotaAnswered, Silent
<1>8. ASSUME NEW answer \in {"ok", "premium", "error"}, EnqueueAnswered(g, answer)
      PROVE  Dropped(g)
  BY <1>8 DEF EnqueueAnswered
<1>9. ASSUME InspectionEnds(g)
      PROVE  Dropped(g) \/ (DroppedResume(g) /\ chains[g].pc \in {"resume", "inspection"})
  BY <1>9 DEF InspectionEnds, Inspected, At
<1>10. ASSUME PremiumRefreshed(g) PROVE Silent(g)
  BY <1>10 DEF PremiumRefreshed, Silent
<1>11. ASSUME DownloadEnds(g)
      PROVE  Dropped(g) \/ (DroppedFile(g) /\ chains[g].pc \in {"file", "download"})
  BY <1>11 DEF DownloadEnds, Ready, CancelledSeen, At
<1> QED BY <1>1, <1>2, <1>3, <1>4, <1>5, <1>6, <1>7, <1>8, <1>9, <1>10, <1>11 DEF ChainStep

\* What the flow's invariant says.
LEMMA FlowFacts ==
  ASSUME FlowInv
  PROVE  /\ FlowTypeOK /\ ShownBelongsToTheFlow
         /\ EndedFlowForgets /\ FreshDownloadIsRecorded
         /\ BusyIsDriven /\ WorkingIsDriven
<1>1. FlowTypeOK
  BY DEF FlowInv, FlowTypes, FlowTypeOK, SoundRecord, StoredRecords
<1>2. ShownBelongsToTheFlow
  BY ShownOK DEF FlowInv, FlowTypes, SoundRecord, ShownBelongsToTheFlow
<1>3. EndedFlowForgets /\ FreshDownloadIsRecorded
  BY DEF FlowInv, DataFitsPhase, EndedFlowForgets, FreshDownloadIsRecorded
<1>4. BusyIsDriven /\ WorkingIsDriven
  BY DEF FlowInv, ChainFitsPhase, BusyIsDriven, WorkingIsDriven, Running, Working
<1> QED BY <1>1, <1>2, <1>3, <1>4

\* What the grants' invariant says; a page without link, request, upgrade and timer has
\* the retry button.
LEMMA GrantFacts ==
  ASSUME GrantInv
  PROVE  /\ GrantsTypeOK /\ LinkIsTheLatest /\ PromotedIsTrue
         /\ ArmingIsOwned /\ NeverStranded /\ RefreshPrecedesExpiry
<1>0. ArmBase(arm) /\ arm \in ArmSet /\ upgrade \in UpgradeSet
  BY DEF GrantInv, ArmInv, ArmBase, UpgradeInv
<1>1. GrantsTypeOK
  BY <1>0, ArmFields DEF GrantInv, ArmInv, ArmBase, UpgradeInv, ServerOK, Asks,
     UpgradeSet, GrantsTypeOK
<1>2. LinkIsTheLatest /\ PromotedIsTrue
  BY <1>0 DEF GrantInv, ArmInv, ArmBase, UpgradeInv, LinkIsTheLatest, PromotedIsTrue
<1>3. ArmingIsOwned /\ RefreshPrecedesExpiry
  BY DEF GrantInv, ArmInv, ArmBase, Asks, DueInTime, ArmingIsOwned,
     RefreshPrecedesExpiry
<1>4. NeverStranded
  <2>1. SUFFICES ASSUME shown, ready, arm.owner \notin open, ~ (upgrade.pending /\ flow \in asked),
                        arm.timer = NoTimer, ~ Offered
                 PROVE  CanRetryGrant
    BY DEF NeverStranded
  <2>2. ~ arm.arming
    BY <1>3, <2>1 DEF ArmingIsOwned, GrantInv, ArmInv, ArmBase, Asks
  <2>3. ~ upgrade.pending
    BY <2>1 DEF GrantInv, UpgradeInv
  <2>4. ~ Armed
    BY <2>1, <2>3 DEF Offered
  <2>5. arm.path = 0 \/ arm.retry
    BY <2>1 DEF GrantInv, ArmInv, Timed
  <2> QED BY <2>1, <2>2, <2>3, <2>4, <2>5 DEF CanRetryGrant
<1> QED BY <1>1, <1>2, <1>3, <1>4

\* The inductive invariant of the flow: phase, current chain, fields, record and
\* cancellation fit each other after any order of answers, aborts and page events.
THEOREM FlowInvariance == FlowSpec => []FlowInv
BY FlowStart, FlowStep, PTL DEF FlowSpec

\* The inductive invariant of the ready phase.
THEOREM GrantsInvariance == GrantsSpec => []GrantInv
BY GrantsStart, GrantsStep, PTL DEF GrantsSpec

\* The model that the runs check is the flow beside the grants.
THEOREM WebParts == MCSpec => FlowSpec /\ GrantsSpec
<1>1. MCInit => FlowInit /\ GrantsInit
  BY DEF MCInit
<1>2. [MCNext]_allVars => [FlowNext]_flowVars /\ [GrantsNext]_grantVars
  BY DEF MCNext, allVars, Flow, Grants
<1> QED BY <1>1, <1>2, PTL DEF MCSpec, FlowSpec, GrantsSpec

\* ScreenIsCoherent: job, download, link and tier on screen are those of the flow on
\* screen, and a stored record is one of one flow that a reload accepts.
THEOREM CoherentScreen == MCSpec => []ScreenIsCoherent
<1>1. FlowInv /\ GrantInv => ScreenIsCoherent
  BY FlowFacts, GrantFacts DEF ScreenIsCoherent
<1> QED BY <1>1, WebParts, FlowInvariance, GrantsInvariance, PTL

\* AlwaysAWayOn: a busy or working screen has a chain behind it, a ready one a link, the
\* retry button, or a request, upgrade or timer on its way to one.
THEOREM WayOn == MCSpec => []AlwaysAWayOn
<1>1. FlowInv /\ GrantInv => AlwaysAWayOn
  BY FlowFacts, GrantFacts DEF AlwaysAWayOn
<1> QED BY <1>1, WebParts, FlowInvariance, GrantsInvariance, PTL

\* RecordFollowsTheFlow: a flow that ended has left no credential, and the download of a
\* fresh flow is in the record from the moment it is shown.
THEOREM FollowedRecord == FlowSpec => []RecordFollowsTheFlow
<1>1. FlowInv => RecordFollowsTheFlow
  BY FlowFacts DEF RecordFollowsTheFlow
<1> QED BY <1>1, FlowInvariance, PTL

\* StaleChainIsSilent: an answer of an abandoned flow changes nothing the visitor sees of
\* the current one, nor its record; at most a rejected restore makes the current one forget
\* the download it was to restore (controller.ts:788).
THEOREM SilentChains == FlowSpec => StaleChainIsSilent
<1> DEFINE AllSilent ==
             \A g \in Generations :
               g # generation /\ ChainStep(g) =>
                 /\ UNCHANGED <<phase, token, media, file, record>>
                 /\ resumeId' # resumeId =>
                      /\ resumeId' = None /\ restored
                      /\ chains[g].resumed /\ chains[g].pc \in {"resume", "inspection"}
<1>1. FlowInv /\ [FlowNext]_flowVars => [AllSilent]_flowVars
  BY StaleStep DEF Silent
<1> QED BY <1>1, FlowInvariance, PTL DEF FlowSpec, StaleChainIsSilent
=============================================================================
