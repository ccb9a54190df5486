------------------------- MODULE ArtifactStoreProofs -------------------------
(***************************************************************************)
(* The artifact directory for every set of jobs and workers: no hygiene    *)
(* pass, however old what it read, and no failed removal takes away what a *)
(* row points to or a live attempt works on.                               *)
(*                                                                         *)
(* The argument: a pass spares what it found active or referenced; what it *)
(* did not find was claimed after its reads, so its entries are younger    *)
(* than those reads and still within the grace period when the sweep       *)
(* begins.  A staging directory, which no pass ever spares, is protected   *)
(* by its age alone.  Fences are never reused, so no two executors ever    *)
(* share a directory.                                                      *)
(***************************************************************************)
EXTENDS ArtifactStore, TLAPS

\* A row has an artifact exactly when it is ready, the one of its last claim.
RowsInv ==
    \A j \in Jobs :
        /\ (row[j].state = "ready") <=> (row[j].artifact # Null)
        /\ row[j].state = "ready" => row[j].artifact = row[j].fence

\* No entry is from the future, or of a claim not yet made.
DiskInv ==
    \A d \in disk : d.mtime <= clock /\ d.fence <= row[d.job].fence

\* Executors work on different claims, made before.
ExecOK(w) ==
    exec[w].pc # "idle" =>
        /\ exec[w].fence <= row[exec[w].job].fence
        /\ \A v \in Workers \ {w} : exec[v].pc # "idle" => Id(exec[v]) # Id(exec[w])

\* What an attempt has not made yet is not there; its staging directory is, complete
\* and younger than the copy may take.
StageOK(w) ==
    /\ exec[w].pc = "start" => \A d \in disk : Id(d) # Id(exec[w])
    /\ exec[w].pc = "working" =>
          \A d \in disk : Id(d) = Id(exec[w]) => d.kind = "workspace"
    /\ exec[w].pc = "copying" =>
          /\ Of("partial", exec[w]) # {}
          /\ \A d \in Of("partial", exec[w]) :
                d.whole = "yes" /\ clock - d.mtime <= MaxCopy

\* LiveAttemptKeepsFiles for one executor.
LiveOK(w) ==
    Current(exec[w]) =>
        /\ exec[w].pc \in {"working", "copying"} => Present("workspace", exec[w])
        /\ exec[w].pc = "copying" => Present("partial", exec[w])
        /\ exec[w].pc \in {"published", "commit"} => Present("published", exec[w])

\* For the pass p the entry is too young.
Young(p, d) == IF p.pc = "sweeping" THEN p.at - d.mtime < Grace ELSE d.mtime >= p.at

\* A pass acts soon after its reads.  What it did not see is young.  What it is about
\* to delete is of rows that are over.
PassOK(w) ==
    pass[w].pc # "idle" =>
        /\ pass[w].at <= clock
        /\ pass[w].pc # "sweeping" => clock - pass[w].at <= MaxPass
        /\ \A id \in pass[w].expired : row[id[1]].state = "over"
        /\ \A d \in disk :
              row[d.job].fence = d.fence =>
                 /\ row[d.job].state = "running" =>
                       Id(d) \in pass[w].fences \/ Young(pass[w], d)
                 /\ row[d.job].state = "ready" /\ pass[w].pc # "fences" =>
                       Id(d) \in pass[w].fences \cup pass[w].refs \/ Young(pass[w], d)

\* The inductive invariant.
IInv ==
    /\ TypeOK /\ RowsInv /\ DiskInv /\ ReferencedIsOnDisk
    /\ \A w \in Workers : ExecOK(w) /\ StageOK(w) /\ LiveOK(w) /\ PassOK(w)

-----------------------------------------------------------------------------
(* What a step may do to a row and to the directory.                       *)

\* Fences grow, a job that is over stays so, and one becomes running by a new
\* claim, ready under the claim it has.
RowMoves(r, s) ==
    /\ s \in Rows /\ s.fence >= r.fence
    /\ (s.state = "ready") <=> (s.artifact # Null)
    /\ s.state = "ready" => s.artifact = s.fence
    /\ r.state = "over" => s.state = "over"
    /\ s.state = "running" => s = r \/ s.fence > r.fence
    /\ s.state = "ready" => s = r \/ (r.state = "running" /\ s.fence = r.fence)

RowsMove == /\ row' \in [Jobs -> Rows]
            /\ \A j \in Jobs : RowMoves(row[j], row'[j])

\* An entry is new, or replaces one of the same attempt without being older.
DiskMoves ==
    \A d \in disk' : d \notin disk =>
        /\ d \in Entries /\ d.mtime <= clock /\ d.fence <= row[d.job].fence
        /\ d.mtime = clock \/ \E c \in disk : Id(c) = Id(d) /\ c.mtime <= d.mtime

USE StoreAssumption DEF Null, Id

\* A row that is left alone moves.
LEMMA SameRowMoves ==
    ASSUME TypeOK, RowsInv, NEW j \in Jobs
    PROVE  RowMoves(row[j], row[j])
  BY DEF TypeOK, RowsInv, RowMoves, Rows

\* Rows that are left alone move.
LEMMA SameRows ==
    ASSUME TypeOK, RowsInv, row' = row
    PROVE  RowsMove
  BY SameRowMoves DEF RowsMove, TypeOK

\* Rows that move are well formed.
LEMMA RowsKept ==
    ASSUME RowsMove
    PROVE  RowsInv'
  BY DEF RowsMove, RowMoves, RowsInv

\* Entries stay typed, of the past, and of claims that were made.
LEMMA DiskKept ==
    ASSUME TypeOK, DiskInv, RowsMove, DiskMoves, clock' \in Nat, clock' >= clock
    PROVE  DiskInv' /\ disk' \in SUBSET Entries
  <1>1. disk' \in SUBSET Entries
    BY DEF TypeOK, DiskMoves
  <1>2. ASSUME NEW d \in disk'
        PROVE  d.mtime <= clock' /\ d.fence <= row'[d.job].fence
    <2>1. d \in Entries /\ d.mtime <= clock /\ d.fence <= row[d.job].fence
      BY <1>1 DEF DiskInv, DiskMoves
    <2>2. row[d.job] \in Rows /\ row'[d.job] \in Rows /\ row'[d.job].fence >= row[d.job].fence
      BY <2>1 DEF TypeOK, RowsMove, RowMoves, Entries
    <2> QED
      BY <2>1, <2>2 DEF TypeOK, Entries, Rows
  <1> QED
    BY <1>1, <1>2 DEF DiskInv

\* What a pass did not see stays young as long as the pass is where it is.
LEMMA PassKept ==
    ASSUME TypeOK, DiskInv, RowsMove, DiskMoves, clock' = clock,
           NEW w \in Workers, PassOK(w),
           pass'[w].pc = pass[w].pc, pass'[w].at = pass[w].at,
           pass'[w].fences = pass[w].fences, pass'[w].refs = pass[w].refs,
           pass'[w].expired \subseteq pass[w].expired
    PROVE  PassOK(w)'
  <1> DEFINE p == pass[w]
  <1> SUFFICES ASSUME p.pc # "idle"
               PROVE  PassOK(w)'
    BY DEF PassOK
  <1>1. p \in Passes /\ p.at \in Nat /\ p.at <= clock /\ clock \in Nat
    BY DEF TypeOK, Passes, PassOK
  <1>2. \A id \in p.expired : row'[id[1]].state = "over"
    BY <1>1 DEF PassOK, RowsMove, RowMoves, Passes, Ids
  <1>3. ASSUME NEW d \in disk', row'[d.job].fence = d.fence
        PROVE  /\ row'[d.job].state = "running" => Id(d) \in p.fences \/ Young(p, d)
               /\ row'[d.job].state = "ready" /\ p.pc # "fences" =>
                     Id(d) \in p.fences \cup p.refs \/ Young(p, d)
    <2>1. d \in Entries /\ d.mtime <= clock /\ d.fence <= row[d.job].fence
      BY DEF DiskMoves, DiskInv, TypeOK
    <2>2. RowMoves(row[d.job], row'[d.job]) /\ row[d.job] \in Rows
      BY <2>1 DEF RowsMove, Entries, TypeOK
    <2>3. /\ row[d.job].fence = d.fence
          /\ row'[d.job].state = "running" => row[d.job].state = "running"
          /\ row'[d.job].state = "ready" => row[d.job].state \in {"ready", "running"}
      BY <1>3, <2>1, <2>2 DEF RowMoves, Rows, Entries
    <2>4. CASE d.mtime = clock
      BY <1>1, <2>1, <2>4 DEF Young, Entries
    <2>5. CASE d \in disk \/ \E c \in disk : Id(c) = Id(d) /\ c.mtime <= d.mtime
      <3>1. PICK c \in disk : Id(c) = Id(d) /\ c.mtime <= d.mtime
        BY <2>1, <2>5 DEF Entries
      <3>2. c \in Entries /\ c.job = d.job /\ c.fence = d.fence
        BY <2>1, <3>1 DEF TypeOK, Entries
      <3>3. Young(p, c) => Young(p, d)
        BY <1>1, <2>1, <3>1, <3>2 DEF Young, Entries
      <3>4. /\ row[c.job].state = "running" => Id(c) \in p.fences \/ Young(p, c)
            /\ row[c.job].state = "ready" /\ p.pc # "fences" =>
                  Id(c) \in p.fences \cup p.refs \/ Young(p, c)
        BY <2>3, <3>2 DEF PassOK
      <3> QED
        BY <2>3, <3>1, <3>2, <3>3, <3>4
    <2> QED
      BY <2>4, <2>5 DEF DiskMoves
  <1> QED
    BY <1>1, <1>2, <1>3 DEF PassOK, Young

\* A claim that is current was current before, for as long as somebody works on it.
LEMMA CurrentKept ==
    ASSUME TypeOK, RowsMove, NEW w \in Workers, ExecOK(w), exec[w].pc # "idle",
           exec'[w] = exec[w], Current(exec[w])'
    PROVE  Current(exec[w])
  <1>1. exec[w] \in Execs /\ exec[w].job \in Jobs /\ exec[w].fence \in Nat
    BY DEF TypeOK, Execs
  <1>2. RowMoves(row[exec[w].job], row'[exec[w].job]) /\ row[exec[w].job] \in Rows
    BY <1>1 DEF TypeOK, RowsMove
  <1>3. row'[exec[w].job].state = "running" /\ row'[exec[w].job].fence = exec[w].fence
    BY DEF Current
  <1> QED
    BY <1>1, <1>2, <1>3 DEF ExecOK, RowMoves, Rows, Current

\* An executor whose own entries are left alone.
LEMMA ExecutorKept ==
    ASSUME TypeOK, RowsMove, clock' = clock,
           NEW w \in Workers, ExecOK(w), StageOK(w), LiveOK(w), exec'[w] = exec[w],
           exec[w].pc # "idle" =>
              \A d : Id(d) = Id(exec[w]) => (d \in disk' <=> d \in disk)
    PROVE  StageOK(w)' /\ LiveOK(w)'
  <1>1. CASE exec[w].pc = "idle"
    BY <1>1 DEF StageOK, LiveOK
  <1>2. CASE exec[w].pc # "idle"
    <2>1. \A kind : Of(kind, exec[w])' = Of(kind, exec[w])
      BY <1>2 DEF Of
    <2>2. \A kind : Present(kind, exec[w])' = Present(kind, exec[w])
      BY <2>1 DEF Present
    <2>3. Current(exec[w])' => Current(exec[w])
      BY <1>2, CurrentKept
    <2>4. LiveOK(w)'
      BY <2>2, <2>3 DEF LiveOK
    <2>5. StageOK(w)'
      BY <1>2, <2>1 DEF StageOK
    <2> QED
      BY <2>4, <2>5
  <1> QED
    BY <1>1, <1>2

\* Executors that go on with their claims still have claims of their own.
LEMMA ClaimsKept ==
    ASSUME TypeOK, RowsMove, \A w \in Workers : ExecOK(w), exec' \in [Workers -> Execs],
           \A w \in Workers : \/ exec'[w].pc = "idle"
                              \/ exec[w].pc # "idle" /\ Id(exec'[w]) = Id(exec[w])
    PROVE  \A w \in Workers : ExecOK(w)'
  <1> SUFFICES ASSUME NEW w \in Workers, exec'[w].pc # "idle"
               PROVE  /\ exec'[w].fence <= row'[exec'[w].job].fence
                      /\ \A v \in Workers \ {w} :
                            exec'[v].pc # "idle" => Id(exec'[v]) # Id(exec'[w])
    BY DEF ExecOK
  <1>1. /\ exec[w] \in Execs /\ exec'[w] \in Execs
        /\ exec'[w].fence = exec[w].fence /\ exec'[w].job = exec[w].job
        /\ exec[w].fence <= row[exec[w].job].fence
    BY DEF TypeOK, ExecOK
  <1>2. RowMoves(row[exec[w].job], row'[exec[w].job]) /\ row[exec[w].job] \in Rows
    BY <1>1 DEF TypeOK, RowsMove, Execs
  <1>3. exec'[w].fence <= row'[exec'[w].job].fence
    BY <1>1, <1>2 DEF RowMoves, Rows, Execs
  <1>4. \A v \in Workers \ {w} : exec'[v].pc # "idle" => Id(exec'[v]) # Id(exec'[w])
    BY DEF ExecOK
  <1> QED
    BY <1>3, <1>4

\* A publication stays unless the row changes its mind.
LEMMA ReferencesKept ==
    ASSUME TypeOK, ReferencedIsOnDisk, RowsInv, RowsMove,
           \A j \in Jobs : row'[j].state = "ready" => row'[j] = row[j],
           \A d \in disk : /\ d.kind = "published" /\ d.whole = "yes"
                           /\ row[d.job].state = "ready" /\ row[d.job].fence = d.fence
                           => d \in disk'
    PROVE  ReferencedIsOnDisk'
  <1> SUFFICES ASSUME NEW j \in Jobs, row'[j].artifact # Null
               PROVE  \E d \in disk' : /\ d.kind = "published" /\ d.whole = "yes"
                                       /\ Id(d) = <<j, row'[j].artifact>>
    BY DEF ReferencedIsOnDisk, Present, Of
  <1>1. row'[j] = row[j] /\ row[j].state = "ready" /\ row[j].artifact = row[j].fence
    BY DEF RowsMove, RowMoves, RowsInv
  <1>2. PICK d \in disk : /\ d.kind = "published" /\ d.whole = "yes"
                          /\ Id(d) = <<j, row[j].artifact>>
    BY <1>1 DEF ReferencedIsOnDisk, Present, Of
  <1>3. d.job = j /\ d.fence = row[j].fence
    BY <1>1, <1>2
  <1> QED
    BY <1>1, <1>2, <1>3

\* The step from one place in execute to another.
LEMMA GotoFacts ==
    ASSUME TypeOK, NEW w \in Workers, NEW pc \in ExecPcs, Goto(w, pc)
    PROVE  /\ exec' \in [Workers -> Execs]
           /\ exec'[w].pc = pc
           /\ pc # "idle" => Id(exec'[w]) = Id(exec[w])
           /\ pc # "idle" => exec'[w].job = exec[w].job /\ exec'[w].fence = exec[w].fence
           /\ \A v \in Workers \ {w} : exec'[v] = exec[v]
  BY DEF TypeOK, Goto, Execs

\* An entry of this kind of that attempt.
LEMMA EntryType ==
    ASSUME TypeOK, DiskInv, NEW kind \in {"workspace", "partial", "published"},
           NEW w \in Workers, ExecOK(w), exec[w].pc # "idle"
    PROVE  /\ Entry(kind, exec[w], clock) \in Entries
           /\ Entry(kind, exec[w], clock).kind = kind
           /\ Entry(kind, exec[w], clock).mtime = clock
           /\ Entry(kind, exec[w], clock).whole = "yes"
           /\ Entry(kind, exec[w], clock).job = exec[w].job
           /\ Entry(kind, exec[w], clock).fence = exec[w].fence
           /\ exec[w].fence <= row[exec[w].job].fence
  BY DEF TypeOK, Execs, Entry, Entries, ExecOK

\* What a failed removal leaves: the entry, or a part of it with a new mtime.
LEMMA RemainsType ==
    ASSUME TypeOK, DiskInv, NEW d \in disk, NEW left \in Remains(d)
    PROVE  /\ left \in Entries /\ left.kind = d.kind /\ left.job = d.job
           /\ left.fence = d.fence /\ Id(left) = Id(d)
           /\ left.mtime <= clock /\ left.fence <= row[left.job].fence
           /\ left = d \/ (left.mtime = clock /\ left.whole = "no")
  <1>1. d \in Entries /\ d.mtime <= clock /\ d.fence <= row[d.job].fence /\ clock \in Nat
    BY DEF TypeOK, DiskInv
  <1>2. CASE left = d
    BY <1>1, <1>2
  <1>3. CASE left = [d EXCEPT !.whole = "no", !.mtime = clock]
    <2>1. /\ left \in Entries /\ left.kind = d.kind /\ left.job = d.job
          /\ left.fence = d.fence /\ left.mtime = clock /\ left.whole = "no"
      BY <1>1, <1>3 DEF Entries
    <2> QED
      BY <1>1, <2>1
  <1> QED
    BY <1>2, <1>3 DEF Remains

-----------------------------------------------------------------------------
(* The executors.                                                          *)

\* The step of one executor, which touches only entries of its own attempt.
LEMMA ExecutorStepOK ==
    ASSUME IInv, NEW w \in Workers, exec[w].pc # "idle",
           NEW pc \in ExecPcs, Goto(w, pc),
           RowsMove, clock' = clock, pass' = pass, faults' \in Nat, DiskMoves,
           \A d : Id(d) # Id(exec[w]) => (d \in disk' <=> d \in disk),
           StageOK(w)', LiveOK(w)', ReferencedIsOnDisk'
    PROVE  IInv'
  <1>1. TypeOK /\ RowsInv /\ DiskInv
    BY DEF IInv
  <1>2. /\ exec' \in [Workers -> Execs]
        /\ \A v \in Workers \ {w} : exec'[v] = exec[v]
        /\ exec'[w].pc = "idle" \/ Id(exec'[w]) = Id(exec[w])
    BY <1>1, GotoFacts
  <1>3. DiskInv' /\ disk' \in SUBSET Entries
    BY <1>1, DiskKept DEF TypeOK
  <1>4. TypeOK'
    BY <1>1, <1>2, <1>3 DEF TypeOK, RowsMove
  <1>5. \A v \in Workers : ExecOK(v)'
    BY <1>1, <1>2, ClaimsKept DEF IInv
  <1>6. \A v \in Workers : PassOK(v)'
    BY <1>1, PassKept DEF IInv
  <1>7. ASSUME NEW v \in Workers \ {w}
        PROVE  StageOK(v)' /\ LiveOK(v)'
    <2>1. ExecOK(v) /\ StageOK(v) /\ LiveOK(v) /\ exec'[v] = exec[v]
      BY <1>2 DEF IInv
    <2>2. exec[v].pc # "idle" => Id(exec[v]) # Id(exec[w])
      BY <2>1 DEF ExecOK
    <2> QED
      BY <1>1, <2>1, <2>2, ExecutorKept
  <1> QED
    BY <1>3, <1>4, <1>5, <1>6, <1>7, RowsKept DEF IInv

\* The same when the rows stay and no publication is lost.
LEMMA FileStepOK ==
    ASSUME IInv, NEW w \in Workers, exec[w].pc # "idle",
           NEW pc \in ExecPcs, Goto(w, pc),
           row' = row, clock' = clock, pass' = pass, faults' \in Nat, DiskMoves,
           \A d : Id(d) # Id(exec[w]) => (d \in disk' <=> d \in disk),
           \A d \in disk : d.kind = "published" => d \in disk',
           StageOK(w)', LiveOK(w)'
    PROVE  IInv'
  <1>1. RowsMove
    BY SameRows DEF IInv
  <1>2. ReferencedIsOnDisk'
    BY <1>1, ReferencesKept DEF IInv
  <1> QED
    BY <1>1, <1>2, ExecutorStepOK

\* After these steps nothing on disk is relied on.
LEMMA LeavesOK ==
    ASSUME NEW w \in Workers, exec'[w].pc \in {"idle", "failing", "closing"}
    PROVE  StageOK(w)' /\ LiveOK(w)'
  BY DEF StageOK, LiveOK

\* A fault is counted.
LEMMA FaultType ==
    ASSUME TypeOK, Fault
    PROVE  faults' \in Nat
  BY DEF TypeOK, Fault

\* create_attempt_workspace: the attempt is new, so nothing is in its way.
LEMMA CreateWorkspaceOK ==
    ASSUME IInv, NEW w \in Workers, CreateWorkspace(w)
    PROVE  IInv'
  <1> DEFINE e == exec[w]
             n == Entry("workspace", e, clock)
  <1>1. /\ TypeOK /\ DiskInv /\ ExecOK(w) /\ StageOK(w) /\ e.pc = "start"
        /\ row' = row /\ clock' = clock /\ pass' = pass /\ faults' \in Nat
    BY DEF IInv, CreateWorkspace, TypeOK
  <1>2. \A d \in disk : Id(d) # Id(e)
    BY <1>1 DEF StageOK
  <1>3. disk' = disk \cup {n} /\ Goto(w, "working")
    BY <1>2 DEF CreateWorkspace, Of
  <1>4. /\ n \in Entries /\ n.kind = "workspace" /\ n.mtime = clock /\ n.whole = "yes"
        /\ Id(n) = Id(e) /\ n.fence <= row[n.job].fence
    BY <1>1, EntryType
  <1>5. DiskMoves
    BY <1>1, <1>3, <1>4 DEF DiskMoves, Entries
  <1>6. exec'[w].pc = "working" /\ Id(exec'[w]) = Id(e)
    BY <1>1, <1>3, GotoFacts DEF ExecPcs
  <1>7. StageOK(w)'
    BY <1>2, <1>3, <1>4, <1>6 DEF StageOK
  <1>8. LiveOK(w)'
    BY <1>3, <1>4, <1>6 DEF LiveOK, Present, Of
  <1> QED
    BY <1>1, <1>3, <1>4, <1>5, <1>7, <1>8, FileStepOK DEF ExecPcs

\* The download fails or its lease is lost.
LEMMA WorkFailsOK ==
    ASSUME IInv, NEW w \in Workers, WorkFails(w)
    PROVE  IInv'
  <1>1. TypeOK
    BY DEF IInv
  <1>2. PICK pc \in {"failing", "closing"} : Goto(w, pc)
    BY DEF WorkFails
  <1>3. exec'[w].pc = pc
    BY <1>1, <1>2, GotoFacts DEF ExecPcs
  <1> QED
    BY <1>1, <1>2, <1>3, LeavesOK, FileStepOK
    DEF WorkFails, TypeOK, DiskMoves, ExecPcs

\* publish makes the staging directory, young and complete.
LEMMA BeginCopyOK ==
    ASSUME IInv, NEW w \in Workers, BeginCopy(w)
    PROVE  IInv'
  <1> DEFINE e == exec[w]
             n == Entry("partial", e, clock)
  <1>1. /\ TypeOK /\ DiskInv /\ ExecOK(w) /\ StageOK(w) /\ LiveOK(w) /\ e.pc = "working"
        /\ row' = row /\ clock' = clock /\ pass' = pass /\ faults' \in Nat
    BY DEF IInv, BeginCopy, TypeOK
  <1>2. \A d \in disk : Id(d) = Id(e) => d.kind = "workspace"
    BY <1>1 DEF StageOK
  <1>3. CASE \E d \in Of("workspace", e) : d.whole = "yes"
    <2>1. disk' = disk \cup {n} /\ Goto(w, "copying")
      BY <1>3 DEF BeginCopy
    <2>2. /\ n \in Entries /\ n.kind = "partial" /\ n.mtime = clock /\ n.whole = "yes"
          /\ Id(n) = Id(e) /\ n.fence <= row[n.job].fence
      BY <1>1, EntryType
    <2>3. DiskMoves
      BY <1>1, <2>1, <2>2 DEF DiskMoves, Entries
    <2>4. exec'[w].pc = "copying" /\ Id(exec'[w]) = Id(e)
      BY <1>1, <2>1, GotoFacts DEF ExecPcs
    <2>5. Of("partial", exec[w])' = {n}
      <3>1. \A d : d \in Of("partial", exec[w])' <=>
                     d \in disk' /\ d.kind = "partial" /\ Id(d) = Id(e)
        BY <2>4 DEF Of
      <3>2. n \in Of("partial", exec[w])'
        BY <2>1, <2>2, <3>1
      <3>3. \A d \in Of("partial", exec[w])' : d = n
        BY <1>2, <2>1, <3>1
      <3> QED
        BY <3>2, <3>3
    <2>6. StageOK(w)'
      <3>1. n.whole = "yes" /\ clock' - n.mtime <= MaxCopy
        BY <1>1, <2>2 DEF TypeOK
      <3> HIDE DEF n
      <3> QED
        BY <2>4, <2>5, <3>1 DEF StageOK
    <2>7. Present("workspace", exec[w])'
      BY <1>3, <2>1, <2>4 DEF Present, Of
    <2>8. LiveOK(w)'
      BY <2>2, <2>4, <2>5, <2>7 DEF LiveOK, Present
    <2> QED
      BY <1>1, <2>1, <2>2, <2>3, <2>6, <2>8, FileStepOK DEF ExecPcs
  <1>4. CASE ~\E d \in Of("workspace", e) : d.whole = "yes"
    <2>1. disk' = disk /\ Goto(w, "failing")
      BY <1>4 DEF BeginCopy
    <2>2. exec'[w].pc = "failing"
      BY <1>1, <2>1, GotoFacts DEF ExecPcs
    <2> QED
      BY <1>1, <2>1, <2>2, LeavesOK, FileStepOK DEF DiskMoves, ExecPcs
  <1> QED
    BY <1>3, <1>4

\* publish renames the staging directory, which was still there and complete.
LEMMA FinishCopyOK ==
    ASSUME IInv, NEW w \in Workers, FinishCopy(w)
    PROVE  IInv'
  <1> DEFINE e == exec[w]
  <1>1. /\ TypeOK /\ DiskInv /\ ExecOK(w) /\ StageOK(w) /\ LiveOK(w) /\ e.pc = "copying"
        /\ row' = row /\ clock' = clock /\ pass' = pass /\ faults' \in Nat
    BY DEF IInv, FinishCopy, TypeOK
  <1>2. /\ Of("partial", e) # {}
        /\ \A d \in Of("partial", e) : d.whole = "yes"
    BY <1>1 DEF StageOK
  <1>a. PICK d \in Of("partial", e) : \E mtime \in d.mtime..clock :
             /\ disk' = (disk \ {d}) \cup
                        {[d EXCEPT !.kind = "published", !.mtime = mtime]}
             /\ Goto(w, "published")
    BY <1>2 DEF FinishCopy
  <1>3. PICK mtime \in d.mtime..clock :
             /\ disk' = (disk \ {d}) \cup
                        {[d EXCEPT !.kind = "published", !.mtime = mtime]}
             /\ Goto(w, "published")
    BY <1>a
  <1> DEFINE n == [d EXCEPT !.kind = "published", !.mtime = mtime]
  <1>4. /\ d \in Entries /\ d \in disk /\ d.kind = "partial" /\ Id(d) = Id(e)
        /\ d.whole = "yes" /\ d.fence <= row[d.job].fence
        /\ mtime \in Nat /\ mtime <= clock /\ d.mtime <= mtime
    BY <1>1, <1>2 DEF Of, TypeOK, DiskInv, Entries
  <1>5. /\ n \in Entries /\ n.kind = "published" /\ n.mtime = mtime /\ n.whole = "yes"
        /\ n.job = d.job /\ n.fence = d.fence
    BY <1>4 DEF Entries
  <1>6. disk' = (disk \ {d}) \cup {n} /\ Id(n) = Id(e)
    BY <1>3, <1>4, <1>5
  <1> HIDE DEF n
  <1>7. DiskMoves
    BY <1>4, <1>5, <1>6 DEF DiskMoves
  <1>8. exec'[w].pc = "published" /\ Id(exec'[w]) = Id(e)
    BY <1>1, <1>3, GotoFacts DEF ExecPcs
  <1>9. StageOK(w)'
    BY <1>8 DEF StageOK
  <1>10. LiveOK(w)'
    BY <1>5, <1>6, <1>8 DEF LiveOK, Present, Of
  <1>11. /\ \A c : Id(c) # Id(e) => (c \in disk' <=> c \in disk)
         /\ \A c \in disk : c.kind = "published" => c \in disk'
    BY <1>4, <1>6
  <1> QED
    BY <1>1, <1>3, <1>7, <1>9, <1>10, <1>11, FileStepOK DEF ExecPcs

\* publish fails: what it leaves is of its own attempt.
LEMMA CopyFailsOK ==
    ASSUME IInv, NEW w \in Workers, CopyFails(w)
    PROVE  IInv'
  <1> DEFINE e == exec[w]
  <1>1. /\ TypeOK /\ DiskInv /\ ExecOK(w) /\ e.pc = "copying" /\ Goto(w, "failing")
        /\ row' = row /\ clock' = clock /\ pass' = pass /\ faults' \in Nat
    BY FaultType DEF IInv, CopyFails
  <1>2. StageOK(w)' /\ LiveOK(w)'
    BY <1>1, GotoFacts, LeavesOK DEF ExecPcs
  <1>3. /\ DiskMoves
        /\ \A c : Id(c) # Id(e) => (c \in disk' <=> c \in disk)
        /\ \A c \in disk : c.kind = "published" => c \in disk'
    <2>1. CASE disk' = disk \ Of("partial", e)
      BY <2>1 DEF DiskMoves, Of
    <2>2. ASSUME NEW d \in Of("partial", e),
                 NEW left \in Remains(d) \cup {[d EXCEPT !.kind = "published"]},
                 disk' = (disk \ {d}) \cup {left}
          PROVE  /\ DiskMoves
                 /\ \A c : Id(c) # Id(e) => (c \in disk' <=> c \in disk)
                 /\ \A c \in disk : c.kind = "published" => c \in disk'
      <3>1. /\ d \in Entries /\ d \in disk /\ d.kind = "partial" /\ Id(d) = Id(e)
            /\ d.fence <= row[d.job].fence /\ d.mtime <= clock
        BY <1>1 DEF Of, TypeOK, DiskInv
      <3>2. /\ left \in Entries /\ Id(left) = Id(d) /\ left.mtime <= clock
            /\ left.fence <= row[left.job].fence
            /\ left.mtime = clock \/ d.mtime <= left.mtime
        <4>1. CASE left \in Remains(d)
          <5>1. left = d \/ left.mtime = clock
            BY <1>1, <3>1, <4>1, RemainsType
          <5>2. d.mtime <= d.mtime
            BY <3>1 DEF Entries
          <5> QED
            BY <1>1, <3>1, <4>1, <5>1, <5>2, RemainsType
        <4>2. CASE left = [d EXCEPT !.kind = "published"]
          BY <3>1, <4>2 DEF Entries
        <4> QED
          BY <4>1, <4>2
      <3> QED
        BY <2>2, <3>1, <3>2 DEF DiskMoves
    <2> QED
      BY <2>1, <2>2 DEF CopyFails
  <1> QED
    BY <1>1, <1>2, <1>3, FileStepOK DEF ExecPcs

\* The workspace goes after the publication is there.
LEMMA CleanupOK ==
    ASSUME IInv, NEW w \in Workers, Cleanup(w)
    PROVE  IInv'
  <1> DEFINE e == exec[w]
  <1>1. /\ TypeOK /\ ExecOK(w) /\ LiveOK(w) /\ e.pc = "published" /\ Goto(w, "commit")
        /\ row' = row /\ clock' = clock /\ pass' = pass /\ faults' \in Nat
        /\ disk' = disk \ Of("workspace", e)
    BY DEF IInv, Cleanup, TypeOK
  <1>2. /\ exec'[w].pc = "commit" /\ Id(exec'[w]) = Id(e)
        /\ exec'[w].job = e.job /\ exec'[w].fence = e.fence
    BY <1>1, GotoFacts DEF ExecPcs
  <1>3. StageOK(w)'
    BY <1>2 DEF StageOK
  <1>4. Present("published", e) => Present("published", exec[w])'
    BY <1>1, <1>2 DEF Present, Of
  <1>5. LiveOK(w)'
    BY <1>1, <1>2, <1>4 DEF LiveOK, Current
  <1> QED
    BY <1>1, <1>3, <1>5, FileStepOK DEF ExecPcs, DiskMoves, Of

\* cleanup_attempt_workspace fails and nothing is relied on any more.
LEMMA CleanupFailsOK ==
    ASSUME IInv, NEW w \in Workers, CleanupFails(w)
    PROVE  IInv'
  <1>1. TypeOK /\ faults' \in Nat
    BY FaultType DEF IInv, CleanupFails
  <1>2. exec'[w].pc = "failing"
    BY <1>1, GotoFacts DEF CleanupFails, ExecPcs
  <1> QED
    BY <1>1, <1>2, LeavesOK, FileStepOK DEF CleanupFails, ExecPcs, DiskMoves

\* The finally clause removes the workspace of its own attempt only.
LEMMA CloseOK ==
    ASSUME IInv, NEW w \in Workers, Close(w)
    PROVE  IInv'
  <1>1. TypeOK /\ faults' \in Nat
    BY DEF IInv, Close, TypeOK
  <1>2. exec'[w].pc = "idle"
    BY <1>1, GotoFacts DEF Close, ExecPcs
  <1> QED
    BY <1>1, <1>2, LeavesOK, FileStepOK DEF Close, ExecPcs, DiskMoves, Of

\* The finally clause fails half-way.
LEMMA CloseFailsOK ==
    ASSUME IInv, NEW w \in Workers, CloseFails(w)
    PROVE  IInv'
  <1>1. TypeOK /\ DiskInv /\ faults' \in Nat
    BY FaultType DEF IInv, CloseFails
  <1>2. exec'[w].pc = "idle"
    BY <1>1, GotoFacts DEF CloseFails, ExecPcs
  <1>a. PICK d \in Of("workspace", exec[w]) :
             \E left \in Remains(d) : disk' = (disk \ {d}) \cup {left}
    BY DEF CloseFails
  <1>3. PICK left \in Remains(d) : disk' = (disk \ {d}) \cup {left}
    BY <1>a
  <1>4. d \in disk /\ Id(d) = Id(exec[w]) /\ d.kind = "workspace"
    BY DEF Of
  <1>5. /\ left \in Entries /\ Id(left) = Id(d) /\ left.mtime <= clock
        /\ left.fence <= row[left.job].fence /\ (left = d \/ left.mtime = clock)
    BY <1>1, <1>4, RemainsType
  <1>6. DiskMoves
    BY <1>3, <1>4, <1>5 DEF DiskMoves
  <1>7. /\ \A c : Id(c) # Id(exec[w]) => (c \in disk' <=> c \in disk)
        /\ \A c \in disk : c.kind = "published" => c \in disk'
    BY <1>3, <1>4, <1>5
  <1>8. StageOK(w)' /\ LiveOK(w)'
    BY <1>2, LeavesOK
  <1> QED
    BY <1>1, <1>6, <1>7, <1>8, FileStepOK DEF CloseFails, ExecPcs

\* The rows after a change of one of them.
LEMMA OneRowMoves ==
    ASSUME TypeOK, RowsInv, NEW j \in Jobs, NEW s, RowMoves(row[j], s),
           row' = [row EXCEPT ![j] = s]
    PROVE  RowsMove /\ row'[j] = s
  <1>1. ASSUME NEW k \in Jobs
        PROVE  RowMoves(row[k], row'[k])
    BY SameRowMoves DEF TypeOK
  <1>2. s \in Rows
    BY DEF RowMoves
  <1> QED
    BY <1>1, <1>2 DEF RowsMove, TypeOK

\* The change of state of a row under its claim.
LEMMA StateMoves ==
    ASSUME TypeOK, RowsInv, NEW j \in Jobs, row[j].state \in {"open", "running"},
           NEW state \in {"open", "over"}
    PROVE  RowMoves(row[j], [row[j] EXCEPT !.state = state])
  <1> DEFINE r == row[j]
             s == [r EXCEPT !.state = state]
  <1>1. r \in Rows /\ r.artifact = Null
    BY DEF TypeOK, RowsInv, Rows
  <1>2. s \in Rows /\ s.fence = r.fence /\ s.state = state /\ s.artifact = Null
    BY <1>1 DEF Rows
  <1> HIDE DEF r, s
  <1>3. RowMoves(r, s)
    BY <1>1, <1>2 DEF RowMoves, Rows, r
  <1> QED
    BY <1>3 DEF r, s

\* A claim has a fence no directory and no executor has.
LEMMA ClaimOK ==
    ASSUME IInv, NEW w \in Workers, NEW j \in Jobs, Claim(w, j)
    PROVE  IInv'
  <1> DEFINE f == row[j].fence + 1
             s == [row[j] EXCEPT !.state = "running", !.fence = f]
             n == [pc |-> "start", job |-> j, fence |-> f]
  <1>1. /\ TypeOK /\ RowsInv /\ DiskInv /\ ReferencedIsOnDisk
        /\ row[j] \in Rows /\ row[j].state = "open" /\ row[j].artifact = Null
        /\ row[j].fence \in Nat /\ f \in Nat /\ f > row[j].fence
        /\ clock' = clock /\ disk' = disk /\ pass' = pass /\ faults' \in Nat
    BY DEF IInv, Claim, TypeOK, RowsInv, Rows
  <1>2. row' = [row EXCEPT ![j] = s] /\ exec' = [exec EXCEPT ![w] = n]
    BY <1>1 DEF Claim, TypeOK
  <1> HIDE DEF f
  <1>3. s \in Rows /\ s.state = "running" /\ s.fence = f /\ s.artifact = Null
    BY <1>1 DEF Rows
  <1>4. n \in Execs /\ n.pc = "start" /\ n.job = j /\ n.fence = f
    BY <1>1 DEF Execs, ExecPcs
  <1> HIDE DEF s, n
  <1>5. RowMoves(row[j], s)
    BY <1>1, <1>3 DEF RowMoves, Rows
  <1>6. RowsMove /\ row'[j] = s
    BY <1>1, <1>2, <1>5, OneRowMoves
  <1>7. /\ exec' \in [Workers -> Execs] /\ exec'[w] = n
        /\ \A v \in Workers \ {w} : exec'[v] = exec[v]
    BY <1>1, <1>2, <1>4 DEF TypeOK
  <1>8. DiskMoves
    BY <1>1 DEF DiskMoves
  <1>9. DiskInv' /\ disk' \in SUBSET Entries
    BY <1>1, <1>6, <1>8, DiskKept DEF TypeOK
  <1>10. TypeOK'
    BY <1>1, <1>6, <1>7, <1>9 DEF TypeOK, RowsMove
  <1>11. \A v \in Workers : PassOK(v)'
    BY <1>1, <1>6, <1>8, PassKept DEF IInv
  <1>12. ASSUME NEW v \in Workers \ {w}, exec[v].pc # "idle"
         PROVE  Id(exec[v]) # Id(n) /\ exec[v].fence <= row'[exec[v].job].fence
    <2>1. exec[v] \in Execs /\ exec[v].fence <= row[exec[v].job].fence
      BY <1>1, <1>12 DEF TypeOK, IInv, ExecOK
    <2>2. RowMoves(row[exec[v].job], row'[exec[v].job]) /\ row[exec[v].job] \in Rows
      BY <1>1, <1>6, <2>1 DEF RowsMove, TypeOK, Execs
    <2> QED
      BY <1>1, <1>4, <2>1, <2>2 DEF RowMoves, Rows, Execs
  <1>13. ASSUME NEW v \in Workers
         PROVE  ExecOK(v)'
    <2>1. CASE v = w
      BY <1>1, <1>3, <1>4, <1>6, <1>7, <1>12, <2>1 DEF ExecOK
    <2>2. CASE v # w
      BY <1>4, <1>7, <1>12, <2>2 DEF ExecOK, IInv
    <2> QED
      BY <2>1, <2>2
  <1>14. StageOK(w)' /\ LiveOK(w)'
    <2>1. \A d \in disk : Id(d) # Id(n)
      BY <1>1, <1>4 DEF DiskInv, TypeOK, Entries
    <2> QED
      BY <1>1, <1>4, <1>7, <2>1 DEF StageOK, LiveOK
  <1>15. ASSUME NEW v \in Workers \ {w}
         PROVE  StageOK(v)' /\ LiveOK(v)'
    BY <1>1, <1>6, <1>7, ExecutorKept DEF IInv
  <1>16. \A k \in Jobs : row'[k].state = "ready" => row'[k] = row[k]
    BY <1>2, <1>3, <1>6, <1>1 DEF TypeOK
  <1>17. ReferencedIsOnDisk'
    BY <1>1, <1>6, <1>16, ReferencesKept
  <1> QED
    BY <1>6, <1>9, <1>10, <1>11, <1>13, <1>14, <1>15, <1>17, RowsKept DEF IInv

\* An executor that records what became of its claim and leaves.
LEMMA OutcomeOK ==
    ASSUME IInv, NEW w \in Workers, exec[w].pc # "idle",
           NEW pc \in {"idle", "failing", "closing"}, Goto(w, pc),
           RowsMove, \A j \in Jobs : row'[j].state = "ready" => row'[j] = row[j],
           clock' = clock, disk' = disk, pass' = pass, faults' = faults
    PROVE  IInv'
  <1>1. TypeOK /\ RowsInv /\ ReferencedIsOnDisk
    BY DEF IInv
  <1>2. StageOK(w)' /\ LiveOK(w)'
    BY <1>1, GotoFacts, LeavesOK DEF ExecPcs
  <1>3. ReferencedIsOnDisk'
    BY <1>1, ReferencesKept
  <1> QED
    BY <1>1, <1>2, <1>3, ExecutorStepOK DEF ExecPcs, DiskMoves, TypeOK

\* A row under its claim is opened again or closed.
LEMMA UnderClaim ==
    ASSUME IInv, NEW j \in Jobs, row[j].state \in {"open", "running"},
           NEW state \in {"open", "over"},
           row' = [row EXCEPT ![j].state = state]
    PROVE  RowsMove /\ \A k \in Jobs : row'[k].state = "ready" => row'[k] = row[k]
  <1> DEFINE s == [row[j] EXCEPT !.state = state]
  <1>1. TypeOK /\ RowsInv
    BY DEF IInv
  <1>2. RowMoves(row[j], s) /\ s.state = state
    BY <1>1, StateMoves DEF TypeOK, Rows
  <1>3. row' = [row EXCEPT ![j] = s]
    BY <1>1 DEF TypeOK
  <1> HIDE DEF s
  <1>4. RowsMove /\ row'[j] = s
    BY <1>1, <1>2, <1>3, OneRowMoves
  <1> QED
    BY <1>1, <1>2, <1>3, <1>4 DEF TypeOK

\* The publication is left as an orphan.
LEMMA AbandonOK ==
    ASSUME IInv, NEW w \in Workers, Abandon(w)
    PROVE  IInv'
  <1>1. TypeOK /\ RowsInv /\ exec[w] \in Execs /\ exec[w].job \in Jobs
    BY DEF IInv, TypeOK, Execs
  <1>2. RowsMove /\ \A k \in Jobs : row'[k].state = "ready" => row'[k] = row[k]
    <2>1. CASE row' = row
      BY <1>1, <2>1, SameRows
    <2>2. CASE Current(exec[w]) /\ row' = [row EXCEPT ![exec[w].job].state = "over"]
      BY <1>1, <2>2, UnderClaim DEF Current
    <2> QED
      BY <2>1, <2>2 DEF Abandon
  <1> QED
    BY <1>1, <1>2, OutcomeOK DEF Abandon

\* A failure is recorded under the fence.
LEMMA RecordFailureOK ==
    ASSUME IInv, NEW w \in Workers, RecordFailure(w)
    PROVE  IInv'
  <1>1. TypeOK /\ RowsInv /\ exec[w] \in Execs /\ exec[w].job \in Jobs
    BY DEF IInv, TypeOK, Execs
  <1>2. RowsMove /\ \A k \in Jobs : row'[k].state = "ready" => row'[k] = row[k]
    <2>1. CASE row' = row
      BY <1>1, <2>1, SameRows
    <2>2. ASSUME Current(exec[w]), NEW state \in {"open", "over"},
                 row' = [row EXCEPT ![exec[w].job].state = state]
          PROVE  RowsMove /\ \A k \in Jobs : row'[k].state = "ready" => row'[k] = row[k]
      BY <1>1, <2>2, UnderClaim DEF Current
    <2> QED
      BY <2>1, <2>2 DEF RecordFailure
  <1> QED
    BY <1>1, <1>2, OutcomeOK DEF RecordFailure

\* complete_ready: the publication that becomes referenced is there.
LEMMA CommitOK ==
    ASSUME IInv, NEW w \in Workers, Commit(w)
    PROVE  IInv'
  <1> DEFINE e == exec[w]
             j == e.job
             s == [row[j] EXCEPT !.state = "ready", !.artifact = e.fence]
  <1>1. /\ TypeOK /\ RowsInv /\ ReferencedIsOnDisk /\ LiveOK(w)
        /\ e \in Execs /\ j \in Jobs /\ e.fence \in Nat
        /\ e.pc = "commit" /\ row[j] \in Rows
        /\ row[j].state = "running" /\ row[j].fence = e.fence
        /\ clock' = clock /\ disk' = disk /\ pass' = pass /\ faults' \in Nat
    BY DEF IInv, Commit, Current, TypeOK, Execs
  <1>2. row' = [row EXCEPT ![j] = s]
    BY <1>1 DEF Commit, TypeOK
  <1>3. s \in Rows /\ s.state = "ready" /\ s.fence = e.fence /\ s.artifact = e.fence
    BY <1>1 DEF Rows
  <1>4. Present("published", e)
    BY <1>1 DEF LiveOK, Commit
  <1>5. PICK pc \in {"idle", "failing"} : Goto(w, pc)
    BY DEF Commit
  <1> HIDE DEF s, j
  <1>6. RowMoves(row[j], s)
    BY <1>1, <1>3 DEF RowMoves, Rows
  <1>7. RowsMove /\ row'[j] = s
    BY <1>1, <1>2, <1>6, OneRowMoves
  <1>8. ReferencedIsOnDisk'
    <2> SUFFICES ASSUME NEW k \in Jobs, row'[k].artifact # Null
                 PROVE  Present("published", [job |-> k, fence |-> row'[k].artifact])
      BY <1>1 DEF ReferencedIsOnDisk, Present, Of
    <2>1. CASE k = j
      BY <1>1, <1>3, <1>4, <1>7, <2>1 DEF Present, Of, j
    <2>2. CASE k # j
      <3>1. row'[k] = row[k]
        BY <1>1, <1>2, <2>2 DEF TypeOK
      <3> QED
        BY <1>1, <3>1 DEF ReferencedIsOnDisk
    <2> QED
      BY <2>1, <2>2
  <1>9. StageOK(w)' /\ LiveOK(w)'
    BY <1>1, <1>5, GotoFacts, LeavesOK DEF ExecPcs
  <1> QED
    BY <1>1, <1>5, <1>7, <1>8, <1>9, ExecutorStepOK DEF ExecPcs, DiskMoves

-----------------------------------------------------------------------------
(* The hygiene passes, and the rest.                                       *)

\* A step that leaves the executors and the directory alone.
LEMMA QuietOK ==
    ASSUME IInv, exec' = exec, disk' = disk, clock' = clock, faults' \in Nat,
           RowsMove, \A j \in Jobs : row'[j].state = "ready" => row'[j] = row[j],
           pass' \in [Workers -> Passes], \A v \in Workers : PassOK(v)'
    PROVE  IInv'
  <1>1. TypeOK /\ RowsInv /\ DiskInv /\ ReferencedIsOnDisk
    BY DEF IInv
  <1>2. DiskInv' /\ disk' \in SUBSET Entries
    BY <1>1, DiskKept DEF DiskMoves, TypeOK
  <1>3. TypeOK'
    BY <1>1, <1>2 DEF TypeOK, RowsMove
  <1>4. ReferencedIsOnDisk'
    BY <1>1, ReferencesKept
  <1>5. \A v \in Workers : ExecOK(v)'
    BY <1>1, ClaimsKept DEF IInv, TypeOK
  <1>6. \A v \in Workers : StageOK(v)' /\ LiveOK(v)'
    BY <1>1, ExecutorKept DEF IInv
  <1> QED
    BY <1>2, <1>3, <1>4, <1>5, <1>6, RowsKept DEF IInv

\* A job is cancelled or expired while nobody sweeps for it.
LEMMA DiscardOK ==
    ASSUME IInv, NEW j \in Jobs, Discard(j)
    PROVE  IInv'
  <1>1. TypeOK /\ DiskInv
    BY DEF IInv
  <1>2. RowsMove /\ \A k \in Jobs : row'[k].state = "ready" => row'[k] = row[k]
    BY UnderClaim DEF Discard
  <1>3. \A v \in Workers : PassOK(v)'
    BY <1>1, <1>2, PassKept DEF IInv, Discard, DiskMoves
  <1> QED
    BY <1>1, <1>2, <1>3, QuietOK DEF Discard, TypeOK

\* The rows after reclaim_expired_leases and expire_due_jobs.
LEMMA HygieneMoves ==
    ASSUME TypeOK, RowsInv, NEW j \in Jobs
    PROVE  /\ row[j].state = "running" =>
                 RowMoves(row[j], Reclaimed(row[j])) /\ Reclaimed(row[j]).state = "open"
           /\ RowMoves(row[j], Expired(row[j])) /\ Expired(row[j]).state = "over"
  <1> DEFINE r == row[j]
             f == r.fence + 1
             s == Reclaimed(r)
             t == Expired(r)
  <1>1. r \in Rows /\ r.fence \in Nat /\ f \in Nat /\ f > r.fence
        /\ (r.state = "running" => r.artifact = Null) /\ r.fence >= r.fence
    BY DEF TypeOK, RowsInv, Rows
  <1>2. /\ s = [r EXCEPT !.state = "open", !.fence = f]
        /\ t = [r EXCEPT !.state = "over", !.artifact = Null]
    BY DEF Reclaimed, Expired
  <1> HIDE DEF r, f, s, t
  <1>3. s \in Rows /\ s.state = "open" /\ s.fence = f /\ s.artifact = r.artifact
    BY <1>1, <1>2 DEF Rows
  <1>4. t \in Rows /\ t.state = "over" /\ t.fence = r.fence /\ t.artifact = Null
    BY <1>1, <1>2 DEF Rows
  <1>5. r.state = "running" => RowMoves(r, s)
    BY <1>1, <1>3 DEF RowMoves
  <1>6. RowMoves(r, t)
    BY <1>1, <1>4 DEF RowMoves
  <1> QED
    BY <1>3, <1>4, <1>5, <1>6 DEF r, s, t

\* A pass reads every active claim, so its own knowledge is complete.
LEMMA HygieneBeginOK ==
    ASSUME IInv, NEW w \in Workers, HygieneBegin(w)
    PROVE  IInv'
  <1>1. /\ TypeOK /\ RowsInv /\ DiskInv /\ pass[w] \in Passes /\ clock \in Nat
        /\ clock' = clock /\ disk' = disk /\ exec' = exec /\ faults' \in Nat
    BY DEF IInv, HygieneBegin, TypeOK
  <1>2. PICK lost, due \in SUBSET Jobs :
          /\ lost \cap due = {}
          /\ \A j \in lost : row[j].state = "running"
          /\ \A j \in due : row[j].state # "over"
          /\ row' = [j \in Jobs |-> IF j \in lost THEN Reclaimed(row[j])
                                   ELSE IF j \in due THEN Expired(row[j])
                                   ELSE row[j]]
          /\ pass' = [pass EXCEPT ![w].pc = "fences", ![w].at = clock,
                          ![w].fences = ActiveFences(row'),
                          ![w].expired = {<<j, row[j].artifact>> :
                              j \in {k \in due : row[k].artifact # Null}}]
    BY DEF HygieneBegin
  <1> DEFINE fences == ActiveFences(row')
             expired == {<<j, row[j].artifact>> : j \in {k \in due : row[k].artifact # Null}}
  <1>3. \A j \in Jobs : RowMoves(row[j], row'[j])
    BY <1>1, <1>2, HygieneMoves, SameRowMoves
  <1>4. RowsMove
    BY <1>2, <1>3 DEF RowsMove, RowMoves
  <1>5. \A j \in Jobs : row'[j].state = "ready" => row'[j] = row[j]
    BY <1>1, <1>2, HygieneMoves
  <1>6. fences \in SUBSET Ids
    BY <1>4 DEF ActiveFences, Ids, RowsMove, RowMoves, Rows
  <1>7. expired \in SUBSET Ids
    BY <1>1 DEF Ids, TypeOK, Rows
  <1>8. \A id \in expired : row'[id[1]].state = "over"
    <2>1. \A j \in due : row'[j].state = "over"
      BY <1>1, <1>2, HygieneMoves
    <2>2. \A id \in expired : id[1] \in due
      OBVIOUS
    <2> QED
      BY <2>1, <2>2
  <1>9. \A d \in disk : row'[d.job].state = "running" /\ row'[d.job].fence = d.fence =>
                           Id(d) \in fences
    BY <1>1 DEF ActiveFences, TypeOK, Entries
  <1>10. pass' = [pass EXCEPT ![w].pc = "fences", ![w].at = clock,
                              ![w].fences = fences, ![w].expired = expired]
    BY <1>2
  <1> HIDE DEF fences, expired
  <1>11. /\ pass' \in [Workers -> Passes]
         /\ pass'[w].pc = "fences" /\ pass'[w].at = clock
         /\ pass'[w].fences = fences /\ pass'[w].expired = expired
         /\ \A v \in Workers \ {w} : pass'[v] = pass[v]
    BY <1>1, <1>6, <1>7, <1>10 DEF TypeOK, Passes
  <1>12. PassOK(w)'
    BY <1>1, <1>8, <1>9, <1>11 DEF PassOK
  <1>13. \A v \in Workers \ {w} : PassOK(v)'
    BY <1>1, <1>4, <1>11, PassKept DEF IInv, DiskMoves
  <1> QED
    BY <1>1, <1>4, <1>5, <1>11, <1>12, <1>13, QuietOK

\* A pass reads every reference: what became ready before was active or is seen now.
LEMMA HygieneReferencesOK ==
    ASSUME IInv, NEW w \in Workers, HygieneReferences(w)
    PROVE  IInv'
  <1> DEFINE refs == Referenced(row)
             p == pass[w]
  <1>1. /\ TypeOK /\ RowsInv /\ DiskInv /\ p \in Passes /\ PassOK(w)
        /\ p.pc = "fences" /\ pass' = [pass EXCEPT ![w].pc = "deleting", ![w].refs = refs]
        /\ clock' = clock /\ row' = row /\ disk' = disk /\ exec' = exec /\ faults' \in Nat
    BY DEF IInv, HygieneReferences, TypeOK
  <1>2. RowsMove
    BY <1>1, SameRows
  <1>3. refs \in SUBSET Ids
    BY <1>1 DEF Referenced, Ids, TypeOK, Rows
  <1>4. \A d \in disk : row[d.job].state = "ready" /\ row[d.job].fence = d.fence =>
                           Id(d) \in refs
    BY <1>1 DEF Referenced, RowsInv, TypeOK, Entries
  <1> HIDE DEF refs
  <1>5. /\ pass' \in [Workers -> Passes]
        /\ pass'[w].pc = "deleting" /\ pass'[w].at = p.at
        /\ pass'[w].fences = p.fences /\ pass'[w].expired = p.expired
        /\ pass'[w].refs = refs
        /\ \A v \in Workers \ {w} : pass'[v] = pass[v]
    BY <1>1, <1>3 DEF TypeOK, Passes
  <1>6. PassOK(w)'
    BY <1>1, <1>4, <1>5 DEF PassOK, Young
  <1>7. \A v \in Workers \ {w} : PassOK(v)'
    BY <1>1, <1>2, <1>5, PassKept DEF IInv, DiskMoves
  <1> QED
    BY <1>1, <1>2, <1>5, <1>6, <1>7, QuietOK

\* The sweep begins within MaxPass of the reads: nothing young has aged out.
LEMMA SweepBeginOK ==
    ASSUME IInv, NEW w \in Workers, SweepBegin(w)
    PROVE  IInv'
  <1> DEFINE own == IF exec[w].pc = "idle" THEN {} ELSE {Id(exec[w])}
             p == pass[w]
             q == pass'[w]
  <1>1. /\ TypeOK /\ RowsInv /\ DiskInv /\ p \in Passes /\ PassOK(w)
        /\ p.pc = "deleting" /\ p.expired = {}
        /\ pass' = [pass EXCEPT ![w].pc = "sweeping", ![w].at = clock,
                                ![w].fences = @ \cup own]
        /\ clock' = clock /\ row' = row /\ disk' = disk /\ exec' = exec /\ faults' \in Nat
        /\ clock \in Nat /\ p.at \in Nat
    BY DEF IInv, SweepBegin, TypeOK, Passes
  <1>2. RowsMove
    BY <1>1, SameRows
  <1>3. own \in SUBSET Ids
    BY <1>1 DEF Ids, TypeOK, Execs
  <1> HIDE DEF own
  <1>4. /\ pass' \in [Workers -> Passes]
        /\ q.pc = "sweeping" /\ q.at = clock /\ q.fences = p.fences \cup own
        /\ q.expired = p.expired /\ q.refs = p.refs
        /\ \A v \in Workers \ {w} : pass'[v] = pass[v]
    BY <1>1, <1>3 DEF TypeOK, Passes
  <1>5. clock - p.at <= MaxPass /\ p.at <= clock
    BY <1>1 DEF PassOK
  <1>6. ASSUME NEW d \in disk, Young(p, d)
        PROVE  Young(q, d)
    <2>1. d.mtime >= p.at /\ d.mtime \in Nat
      BY <1>1, <1>6 DEF Young, TypeOK, Entries
    <2>2. clock - d.mtime < Grace
      BY <1>1, <1>5, <2>1
    <2> QED
      BY <1>4, <2>2 DEF Young
  <1>7. PassOK(w)'
    <2>1. ASSUME NEW d \in disk, row[d.job].fence = d.fence
          PROVE  /\ row[d.job].state = "running" => Id(d) \in q.fences \/ Young(q, d)
                 /\ row[d.job].state = "ready" =>
                       Id(d) \in q.fences \cup q.refs \/ Young(q, d)
      BY <1>1, <1>4, <1>6, <2>1 DEF PassOK
    <2> QED
      BY <1>1, <1>4, <2>1 DEF PassOK, Young
  <1>8. \A v \in Workers \ {w} : PassOK(v)'
    BY <1>1, <1>2, <1>4, PassKept DEF IInv, DiskMoves
  <1> QED
    BY <1>1, <1>2, <1>4, <1>7, <1>8, QuietOK

\* A worker without a pass.
LEMMA NoPassOK ==
    ASSUME TypeOK, NEW w \in Workers, pass' = [pass EXCEPT ![w] = NoPass]
    PROVE  /\ pass' \in [Workers -> Passes] /\ PassOK(w)'
           /\ \A v \in Workers \ {w} : pass'[v] = pass[v]
  <1>1. NoPass \in Passes /\ NoPass.pc = "idle"
    BY DEF NoPass, Passes
  <1>2. pass'[w] = NoPass /\ pass' \in [Workers -> Passes]
    BY <1>1 DEF TypeOK
  <1> QED
    BY <1>1, <1>2 DEF PassOK, TypeOK

\* A pass that ends.
LEMMA PassDropped ==
    ASSUME IInv, NEW w \in Workers, pass' = [pass EXCEPT ![w] = NoPass],
           clock' = clock, row' = row, disk' = disk, exec' = exec, faults' \in Nat
    PROVE  IInv'
  <1>1. TypeOK /\ RowsInv /\ DiskInv
    BY DEF IInv
  <1>2. RowsMove
    BY <1>1, SameRows
  <1>3. /\ pass' \in [Workers -> Passes] /\ PassOK(w)'
        /\ \A v \in Workers \ {w} : pass'[v] = pass[v]
    BY <1>1, NoPassOK
  <1>4. \A v \in Workers \ {w} : PassOK(v)'
    BY <1>1, <1>2, <1>3, PassKept DEF IInv, DiskMoves
  <1> QED
    BY <1>2, <1>3, <1>4, QuietOK

\* The sweep is over.
LEMMA SweepEndOK ==
    ASSUME IInv, NEW w \in Workers, SweepEnd(w)
    PROVE  IInv'
  BY PassDropped DEF SweepEnd, IInv, TypeOK

\* What an executor copies into.
Staged(d) == \E v \in Workers : exec[v].pc = "copying" /\ d \in Of("partial", exec[v])

\* What a row or a live attempt relies on.
Needed(d) ==
    \/ Staged(d)
    \/ /\ d.whole = "yes" /\ row[d.job].fence = d.fence
       /\ \/ row[d.job].state = "running" /\ d.kind # "partial"
          \/ row[d.job].state = "ready" /\ d.kind = "published"

\* A pass that takes away nothing that is needed.
LEMMA SweptOK ==
    ASSUME IInv, row' = row, exec' = exec, clock' = clock, faults' \in Nat,
           pass' \in [Workers -> Passes], \A v \in Workers : PassOK(v)',
           \A d \in disk : Needed(d) => d \in disk',
           \A d \in disk' : d \notin disk =>
              /\ d \in Entries /\ d.mtime = clock /\ d.fence <= row[d.job].fence
              /\ \E c \in disk : ~Staged(c) /\ Id(c) = Id(d) /\ c.kind = d.kind
    PROVE  IInv'
  <1>1. TypeOK /\ RowsInv /\ DiskInv /\ ReferencedIsOnDisk /\ clock \in Nat
    BY DEF IInv, TypeOK
  <1>2. RowsMove
    BY <1>1, SameRows
  <1>3. DiskMoves
    BY <1>1 DEF DiskMoves
  <1>4. DiskInv' /\ disk' \in SUBSET Entries
    BY <1>1, <1>2, <1>3, DiskKept
  <1>5. TypeOK'
    BY <1>1, <1>4 DEF TypeOK
  <1>6. ReferencedIsOnDisk'
    BY <1>1, <1>2, ReferencesKept DEF Needed
  <1>7. \A v \in Workers : ExecOK(v)'
    BY DEF IInv, ExecOK
  <1>8. ASSUME NEW v \in Workers
        PROVE  StageOK(v)' /\ LiveOK(v)'
    <2> DEFINE e == exec[v]
    <2>1. StageOK(v) /\ LiveOK(v) /\ e \in Execs /\ exec'[v] = e
      BY <1>1 DEF IInv, TypeOK
    <2>2. ASSUME e.pc = "copying"
          PROVE  Of("partial", exec[v])' = Of("partial", e)
      <3>1. ASSUME NEW d \in disk', d \notin disk, d.kind = "partial", Id(d) = Id(e)
            PROVE  FALSE
        BY <2>2, <3>1 DEF Staged, Of
      <3>2. \A d \in Of("partial", e) : d \in disk'
        BY <2>2 DEF Needed, Staged, Of
      <3> QED
        BY <2>1, <3>1, <3>2 DEF Of
    <2>3. StageOK(v)'
      <3>1. e.pc = "start" => \A d \in disk' : Id(d) # Id(e)
        BY <2>1 DEF StageOK
      <3>2. e.pc = "working" => \A d \in disk' : Id(d) = Id(e) => d.kind = "workspace"
        BY <2>1 DEF StageOK
      <3> QED
        BY <2>1, <2>2, <3>1, <3>2 DEF StageOK
    <2>4. ASSUME Current(e), NEW kind \in {"workspace", "published"}, Present(kind, e)
          PROVE  Present(kind, exec[v])'
      BY <2>1, <2>4 DEF Present, Of, Needed, Current, Execs
    <2>5. Current(exec[v])' = Current(e)
      BY <2>1 DEF Current
    <2>6. LiveOK(v)'
      BY <2>1, <2>2, <2>4, <2>5 DEF LiveOK, Present
    <2> QED
      BY <2>3, <2>6
  <1> QED
    BY <1>2, <1>4, <1>5, <1>6, <1>7, <1>8, RowsKept DEF IInv

\* What a sweep may remove is not needed: it was not active and not referenced when
\* the pass read the rows, and it is too old to have been made since.
LEMMA CandidatesAreNotNeeded ==
    ASSUME IInv, NEW w \in Workers, pass[w].pc = "sweeping", NEW d \in Candidates(pass[w])
    PROVE  d \in disk /\ ~Needed(d)
  <1> DEFINE p == pass[w]
  <1>1. /\ d \in disk /\ d \in Entries /\ p \in Passes /\ clock \in Nat
        /\ p.at \in Nat /\ d.mtime \in Nat /\ d.kind \in {"workspace", "partial", "published"}
    BY DEF Candidates, IInv, TypeOK, Entries, Passes
  <1>2. p.at - d.mtime >= Grace /\ ~Kept(d, p)
    BY DEF Candidates, AgedOut
  <1>3. p.at <= clock
    BY DEF IInv, PassOK
  <1>4. ~Staged(d)
    <2> SUFFICES ASSUME NEW v \in Workers, exec[v].pc = "copying", d \in Of("partial", exec[v])
                 PROVE  FALSE
      BY DEF Staged
    <2>1. clock - d.mtime <= MaxCopy
      BY DEF IInv, StageOK
    <2> QED
      BY <1>1, <1>2, <1>3, <2>1
  <1>5. ~Young(p, d)
    BY <1>1, <1>2 DEF Young
  <1>6. row[d.job].fence = d.fence =>
           /\ row[d.job].state = "running" => Id(d) \in p.fences
           /\ row[d.job].state = "ready" => Id(d) \in p.fences \cup p.refs
    BY <1>1, <1>5 DEF IInv, PassOK
  <1>7. ASSUME d.whole = "yes", row[d.job].fence = d.fence,
               \/ row[d.job].state = "running" /\ d.kind # "partial"
               \/ row[d.job].state = "ready" /\ d.kind = "published"
        PROVE  FALSE
    BY <1>1, <1>2, <1>6, <1>7 DEF Kept
  <1> QED
    BY <1>1, <1>4, <1>7 DEF Needed

\* An expired artifact is not needed: its row is over.
LEMMA ExpiredAreNotNeeded ==
    ASSUME IInv, NEW w \in Workers, pass[w].pc = "deleting", NEW id \in pass[w].expired,
           NEW d \in disk, d.kind = "published", Id(d) = id
    PROVE  ~Needed(d)
  <1>1. row[d.job].state = "over"
    BY DEF IInv, PassOK
  <1> QED
    BY <1>1 DEF Needed, Staged, Of

\* One entry is removed, or a part of it is left.
LEMMA RemovalOK ==
    ASSUME IInv, NEW d \in disk, ~Needed(d),
           \/ disk' = disk \ {d}
           \/ \E left \in Remains(d) : disk' = (disk \ {d}) \cup {left}
    PROVE  /\ \A c \in disk : Needed(c) => c \in disk'
           /\ \A c \in disk' : c \notin disk =>
                 /\ c \in Entries /\ c.mtime = clock /\ c.fence <= row[c.job].fence
                 /\ \E b \in disk : ~Staged(b) /\ Id(b) = Id(c) /\ b.kind = c.kind
  <1>1. TypeOK /\ DiskInv /\ ~Staged(d)
    BY DEF IInv, Needed
  <1>2. CASE disk' = disk \ {d}
    BY <1>2
  <1>3. ASSUME NEW left \in Remains(d), disk' = (disk \ {d}) \cup {left}
        PROVE  /\ \A c \in disk : Needed(c) => c \in disk'
               /\ \A c \in disk' : c \notin disk =>
                     /\ c \in Entries /\ c.mtime = clock /\ c.fence <= row[c.job].fence
                     /\ \E b \in disk : ~Staged(b) /\ Id(b) = Id(c) /\ b.kind = c.kind
    <2>1. /\ left \in Entries /\ Id(left) = Id(d) /\ left.kind = d.kind
          /\ left.fence <= row[left.job].fence /\ (left = d \/ left.mtime = clock)
      BY <1>1, RemainsType
    <2> QED
      BY <1>1, <1>3, <2>1
  <1> QED
    BY <1>2, <1>3

\* The pass of w after a removal, and what the other passes know.
LEMMA RemovalKeepsPasses ==
    ASSUME IInv, NEW w \in Workers, row' = row, clock' = clock,
           pass' \in [Workers -> Passes], \A v \in Workers \ {w} : pass'[v] = pass[v],
           pass'[w].pc = pass[w].pc, pass'[w].at = pass[w].at,
           pass'[w].fences = pass[w].fences, pass'[w].refs = pass[w].refs,
           pass'[w].expired \subseteq pass[w].expired,
           \A c \in disk' : c \notin disk =>
              /\ c \in Entries /\ c.mtime = clock /\ c.fence <= row[c.job].fence
              /\ \E b \in disk : ~Staged(b) /\ Id(b) = Id(c) /\ b.kind = c.kind
    PROVE  \A v \in Workers : PassOK(v)'
  <1>1. TypeOK /\ RowsInv /\ DiskInv /\ clock \in Nat
    BY DEF IInv, TypeOK
  <1>2. RowsMove
    BY <1>1, SameRows
  <1>3. DiskMoves
    BY <1>1 DEF DiskMoves
  <1>4. PassOK(w)'
    BY <1>1, <1>2, <1>3, PassKept DEF IInv
  <1>5. \A v \in Workers \ {w} : PassOK(v)'
    BY <1>1, <1>2, <1>3, PassKept DEF IInv
  <1> QED
    BY <1>4, <1>5

\* delete_artifact for a row that is over.
LEMMA DeleteExpiredOK ==
    ASSUME IInv, NEW w \in Workers, DeleteExpired(w)
    PROVE  IInv'
  <1>1. /\ TypeOK /\ pass[w] \in Passes /\ pass[w].pc = "deleting"
        /\ row' = row /\ clock' = clock /\ exec' = exec /\ faults' \in Nat
    BY DEF IInv, DeleteExpired, TypeOK
  <1>2. PICK id \in pass[w].expired :
          /\ disk' = {d \in disk : d.kind # "published" \/ Id(d) # id}
          /\ pass' = [pass EXCEPT ![w].expired = @ \ {id}]
    BY DEF DeleteExpired
  <1>3. /\ pass' \in [Workers -> Passes] /\ \A v \in Workers \ {w} : pass'[v] = pass[v]
        /\ pass'[w].pc = pass[w].pc /\ pass'[w].at = pass[w].at
        /\ pass'[w].fences = pass[w].fences /\ pass'[w].refs = pass[w].refs
        /\ pass'[w].expired \subseteq pass[w].expired
    BY <1>1, <1>2 DEF TypeOK, Passes
  <1>4. \A d \in disk : Needed(d) => d \in disk'
    BY <1>1, <1>2, ExpiredAreNotNeeded
  <1>5. \A d \in disk' : d \in disk
    BY <1>2
  <1>6. \A v \in Workers : PassOK(v)'
    BY <1>1, <1>3, <1>5, RemovalKeepsPasses
  <1> QED
    BY <1>1, <1>3, <1>4, <1>5, <1>6, SweptOK

\* delete_artifact fails half-way, for a row that is over.
LEMMA DeleteFailsOK ==
    ASSUME IInv, NEW w \in Workers, DeleteFails(w)
    PROVE  IInv'
  <1>1. /\ TypeOK /\ pass[w] \in Passes /\ pass[w].pc = "deleting"
        /\ row' = row /\ clock' = clock /\ exec' = exec /\ faults' \in Nat
    BY FaultType DEF IInv, DeleteFails, TypeOK
  <1>2. PICK id \in pass[w].expired :
          /\ \E d \in disk :
                /\ d.kind = "published" /\ Id(d) = id
                /\ \E left \in Remains(d) : disk' = (disk \ {d}) \cup {left}
          /\ pass' = [pass EXCEPT ![w].expired = @ \ {id}]
    BY DEF DeleteFails
  <1>3. PICK d \in disk : /\ d.kind = "published" /\ Id(d) = id
                          /\ \E left \in Remains(d) : disk' = (disk \ {d}) \cup {left}
    BY <1>2
  <1>4. /\ pass' \in [Workers -> Passes] /\ \A v \in Workers \ {w} : pass'[v] = pass[v]
        /\ pass'[w].pc = pass[w].pc /\ pass'[w].at = pass[w].at
        /\ pass'[w].fences = pass[w].fences /\ pass'[w].refs = pass[w].refs
        /\ pass'[w].expired \subseteq pass[w].expired
    BY <1>1, <1>2 DEF TypeOK, Passes
  <1>5. ~Needed(d)
    BY <1>1, <1>3, ExpiredAreNotNeeded
  <1>6. /\ \A c \in disk : Needed(c) => c \in disk'
        /\ \A c \in disk' : c \notin disk =>
              /\ c \in Entries /\ c.mtime = clock /\ c.fence <= row[c.job].fence
              /\ \E b \in disk : ~Staged(b) /\ Id(b) = Id(c) /\ b.kind = c.kind
    BY <1>3, <1>5, RemovalOK
  <1>7. \A v \in Workers : PassOK(v)'
    BY <1>1, <1>4, <1>6, RemovalKeepsPasses
  <1> QED
    BY <1>1, <1>4, <1>6, <1>7, SweptOK

\* reconcile removes an entry nobody needs.
LEMMA SweepOneOK ==
    ASSUME IInv, NEW w \in Workers, SweepOne(w)
    PROVE  IInv'
  <1>1. /\ TypeOK /\ pass[w] \in Passes /\ pass[w].pc = "sweeping"
        /\ row' = row /\ clock' = clock /\ exec' = exec /\ faults' \in Nat
    BY DEF IInv, SweepOne, TypeOK
  <1>2. PICK d \in Candidates(pass[w]) : disk' = disk \ {d}
    BY DEF SweepOne
  <1>3. /\ pass' \in [Workers -> Passes] /\ \A v \in Workers \ {w} : pass'[v] = pass[v]
        /\ pass'[w].pc = pass[w].pc /\ pass'[w].at = pass[w].at
        /\ pass'[w].fences = pass[w].fences /\ pass'[w].refs = pass[w].refs
        /\ pass'[w].expired \subseteq pass[w].expired
    BY <1>1 DEF SweepOne, TypeOK, Passes
  <1>4. d \in disk /\ ~Needed(d)
    BY <1>1, CandidatesAreNotNeeded
  <1>5. /\ \A c \in disk : Needed(c) => c \in disk'
        /\ \A c \in disk' : c \in disk
    BY <1>2, <1>4
  <1>6. \A v \in Workers : PassOK(v)'
    BY <1>1, <1>3, <1>5, RemovalKeepsPasses
  <1> QED
    BY <1>1, <1>3, <1>5, <1>6, SweptOK

\* reconcile fails half-way on an entry nobody needs, or gives up.
LEMMA SweepFailsOK ==
    ASSUME IInv, NEW w \in Workers, SweepFails(w)
    PROVE  IInv'
  <1>1. /\ TypeOK /\ pass[w] \in Passes /\ pass[w].pc = "sweeping"
        /\ row' = row /\ clock' = clock /\ exec' = exec /\ faults' \in Nat
    BY FaultType DEF IInv, SweepFails, TypeOK
  <1>2. ASSUME NEW d \in Candidates(pass[w]), pass' = pass,
               \E left \in Remains(d) : disk' = (disk \ {d}) \cup {left}
        PROVE  IInv'
    <2>1. d \in disk /\ ~Needed(d)
      BY <1>1, CandidatesAreNotNeeded
    <2>2. /\ \A c \in disk : Needed(c) => c \in disk'
          /\ \A c \in disk' : c \notin disk =>
                /\ c \in Entries /\ c.mtime = clock /\ c.fence <= row[c.job].fence
                /\ \E b \in disk : ~Staged(b) /\ Id(b) = Id(c) /\ b.kind = c.kind
      BY <1>2, <2>1, RemovalOK
    <2>3. pass' \in [Workers -> Passes]
      BY <1>1, <1>2 DEF TypeOK
    <2>4. \A v \in Workers : PassOK(v)'
      BY <1>1, <1>2, <2>2, <2>3, RemovalKeepsPasses
    <2> QED
      BY <1>1, <2>2, <2>3, <2>4, SweptOK
  <1>3. CASE pass' = [pass EXCEPT ![w] = NoPass] /\ disk' = disk
    BY <1>1, <1>3, PassDropped
  <1> QED
    BY <1>2, <1>3 DEF SweepFails

\* A crash leaves the directory and the rows as they are.
LEMMA CrashOK ==
    ASSUME IInv, NEW w \in Workers, Crash(w)
    PROVE  IInv'
  <1>1. /\ TypeOK /\ RowsInv /\ DiskInv /\ ReferencedIsOnDisk
        /\ row' = row /\ clock' = clock /\ disk' = disk /\ faults' \in Nat
        /\ Goto(w, "idle") /\ pass' = [pass EXCEPT ![w] = NoPass]
    BY FaultType DEF IInv, Crash
  <1>2. RowsMove
    BY <1>1, SameRows
  <1>3. /\ pass' \in [Workers -> Passes] /\ PassOK(w)'
        /\ \A v \in Workers \ {w} : pass'[v] = pass[v]
    BY <1>1, NoPassOK
  <1>4. \A v \in Workers \ {w} : PassOK(v)'
    BY <1>1, <1>2, <1>3, PassKept DEF IInv, DiskMoves
  <1>5. /\ exec' \in [Workers -> Execs] /\ exec'[w].pc = "idle"
        /\ \A v \in Workers \ {w} : exec'[v] = exec[v]
    BY <1>1, GotoFacts DEF ExecPcs
  <1>6. \A v \in Workers : ExecOK(v)'
    BY <1>1, <1>2, <1>5, ClaimsKept DEF IInv
  <1>7. StageOK(w)' /\ LiveOK(w)'
    BY <1>5, LeavesOK
  <1>8. \A v \in Workers \ {w} : StageOK(v)' /\ LiveOK(v)'
    BY <1>1, <1>2, <1>5, ExecutorKept DEF IInv
  <1>9. TypeOK' /\ DiskInv' /\ ReferencedIsOnDisk'
    BY <1>1, <1>3, <1>5 DEF TypeOK, DiskInv, ReferencedIsOnDisk, Present, Of
  <1> QED
    BY <1>2, <1>3, <1>4, <1>6, <1>7, <1>8, <1>9, RowsKept DEF IInv

\* Time passes, within the bounds on a copy and on a pass.
LEMMA TickOK ==
    ASSUME IInv, Tick
    PROVE  IInv'
  <1>1. /\ TypeOK /\ clock \in Nat /\ clock' = clock + 1 /\ clock' \in Nat
        /\ row' = row /\ disk' = disk /\ exec' = exec /\ pass' = pass /\ faults' = faults
    BY DEF IInv, Tick, TypeOK
  <1>2. TypeOK' /\ RowsInv' /\ ReferencedIsOnDisk'
    BY <1>1 DEF IInv, TypeOK, RowsInv, ReferencedIsOnDisk, Present, Of
  <1>3. DiskInv'
    BY <1>1 DEF IInv, DiskInv, TypeOK, Entries
  <1>4. ASSUME NEW w \in Workers
        PROVE  ExecOK(w)' /\ StageOK(w)' /\ LiveOK(w)' /\ PassOK(w)'
    <2>1. ExecOK(w) /\ StageOK(w) /\ LiveOK(w) /\ PassOK(w) /\ pass[w] \in Passes
      BY <1>1 DEF IInv, TypeOK
    <2>2. ExecOK(w)' /\ LiveOK(w)'
      BY <1>1, <2>1 DEF ExecOK, LiveOK, Current, Present, Of
    <2>3. exec[w].pc = "copying" =>
             \A d \in Of("partial", exec[w]) : clock' - d.mtime <= MaxCopy
      BY <1>1 DEF Tick, TypeOK, Of, Entries
    <2>4. StageOK(w)'
      BY <1>1, <2>1, <2>3 DEF StageOK, Of
    <2>5. PassOK(w)'
      <3>1. pass[w].at \in Nat
        BY <2>1 DEF Passes
      <3>2. pass[w].pc \notin {"idle", "sweeping"} => clock' - pass[w].at <= MaxPass
        BY <1>1, <2>1, <3>1 DEF Tick, Passes
      <3>3. pass[w].pc # "idle" => pass[w].at <= clock'
        BY <1>1, <2>1, <3>1 DEF PassOK
      <3> QED
        BY <1>1, <2>1, <3>2, <3>3 DEF PassOK, Young
    <2> QED
      BY <2>2, <2>4, <2>5
  <1> QED
    BY <1>2, <1>3, <1>4 DEF IInv

-----------------------------------------------------------------------------
(* The theorems.                                                           *)

\* The invariant holds at first.
LEMMA InitOK ==
    ASSUME Init
    PROVE  IInv
  <1>1. TypeOK
    BY DEF Init, TypeOK, Rows, Execs, ExecPcs, Passes, NoPass, Ids
  <1>2. \A w \in Workers : exec[w].pc = "idle" /\ pass[w].pc = "idle"
    BY DEF Init, NoPass
  <1>3. \A w \in Workers : ExecOK(w) /\ StageOK(w) /\ LiveOK(w) /\ PassOK(w)
    BY <1>2 DEF ExecOK, StageOK, LiveOK, PassOK
  <1>4. RowsInv /\ DiskInv /\ ReferencedIsOnDisk
    BY DEF Init, RowsInv, DiskInv, ReferencedIsOnDisk
  <1> QED
    BY <1>1, <1>3, <1>4 DEF IInv

\* Every step keeps the invariant.
LEMMA NextOK ==
    ASSUME IInv, [Next]_vars
    PROVE  IInv'
  <1>1. CASE Tick
    BY <1>1, TickOK
  <1>2. ASSUME NEW j \in Jobs, Discard(j)
        PROVE  IInv'
    BY <1>2, DiscardOK
  <1>3. ASSUME NEW w \in Workers, ExecutorStep(w)
        PROVE  IInv'
    BY <1>3, ClaimOK, CreateWorkspaceOK, WorkFailsOK, BeginCopyOK, FinishCopyOK,
       CopyFailsOK, CleanupOK, CleanupFailsOK, CommitOK, AbandonOK, RecordFailureOK,
       CloseOK, CloseFailsOK DEF ExecutorStep
  <1>4. ASSUME NEW w \in Workers, HygieneStep(w)
        PROVE  IInv'
    BY <1>4, HygieneBeginOK, HygieneReferencesOK, DeleteExpiredOK, DeleteFailsOK,
       SweepBeginOK, SweepOneOK, SweepFailsOK, SweepEndOK DEF HygieneStep
  <1>5. ASSUME NEW w \in Workers, Crash(w)
        PROVE  IInv'
    BY <1>5, CrashOK
  <1>6. CASE UNCHANGED vars
    <2>1. /\ row' = row /\ disk' = disk /\ exec' = exec /\ pass' = pass
          /\ clock' = clock /\ faults' = faults
      BY <1>6 DEF vars
    <2> QED
      BY <2>1 DEF IInv, TypeOK, RowsInv, DiskInv, ReferencedIsOnDisk, ExecOK, StageOK,
                  LiveOK, PassOK, Young, Present, Of, Current
  <1> QED
    BY <1>1, <1>2, <1>3, <1>4, <1>5, <1>6 DEF Next

\* The inductive invariant holds in every state of every behaviour.
THEOREM Invariance == Spec => []IInv
  <1>1. Init => IInv
    BY InitOK
  <1>2. IInv /\ [Next]_vars => IInv'
    BY NextOK
  <1> QED
    BY <1>1, <1>2, PTL DEF Spec

\* What a ready job points to is complete on disk, whatever the passes of the workers
\* do with what they read before (ArtifactStore.reconcile, delete_artifact).
THEOREM ReferencesAreSafe == Spec => []ReferencedIsOnDisk
  <1>1. IInv => ReferencedIsOnDisk
    BY DEF IInv
  <1> QED
    BY <1>1, Invariance, PTL

\* Nothing is removed under an attempt whose claim stands: workspace, staging directory
\* or publication (ArtifactStore.reconcile).
THEOREM LiveAttemptsAreSafe == Spec => []LiveAttemptKeepsFiles
  <1>1. IInv => LiveAttemptKeepsFiles
    BY DEF IInv, LiveOK, LiveAttemptKeepsFiles
  <1> QED
    BY <1>1, Invariance, PTL
=============================================================================
