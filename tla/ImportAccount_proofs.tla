------------------------- MODULE ImportAccount_proofs -------------------------
(***************************************************************************)
(* Every gap in the reports of all uploads has cost a failed statement of  *)
(* its own: GapsAreFaults, for any set of jobs, any set of keys and any    *)
(* values of the bounds.                                                   *)
(*                                                                         *)
(* Gaps are defined to appear in the step whose statement failed, and not  *)
(* when a poller can see them.  So a step makes at most one gap, in the    *)
(* report of its own upload, and only if it is a statement that failed.    *)
(***************************************************************************)
EXTENDS ImportReport_proofs

\* A step of upload j makes no gap in its report but this one, and that only if
\* it is a fault.
OnlyNewGap(j, kind, m) ==
    \A what \in GapKinds, n \in 0 .. MaxItems :
        Gap(j, what, n)' =>
            Gap(j, what, n) \/ (faults' = faults + 1 /\ what = kind /\ n = m)

\* What a gap is about, when nothing it is about changes.
LEMMA GapFrame ==
    ASSUME NEW j \in Jobs
    PROVE /\ payload'[j] = payload[j] => Good(j)' = Good(j)
          /\ catalog'[j] = catalog[j] => Live(j)' = Live(j)
          /\ job'[j] = job[j] =>
                Counted(j)' = Counted(j) /\ VerdictEntry(j)' = VerdictEntry(j)
          /\ payload'[j] = payload[j] /\ pos'[j] = pos[j] =>
                InLoop(j)' = InLoop(j)
  BY DEF Good, Live, Counted, VerdictEntry, Counters, InLoop

\* Nothing others do, and no crash, makes a gap.
LEMMA GapsOfOthers ==
    ASSUME NEW i \in Jobs, NEW what, NEW n,
           job'[i] = job[i], pc'[i] \in {pc[i], "dead"},
           payload'[i] = payload[i], pos'[i] = pos[i], catalog'[i] = catalog[i],
           audit \subseteq audit', Gap(i, what, n)'
    PROVE Gap(i, what, n)
  BY GapFrame DEF Gap

-----------------------------------------------------------------------------
(* One lemma for each part of the goroutine's way *)

LEMMA GapsBefore ==
    ASSUME PipelineInv, NEW j \in Jobs
    PROVE /\ Create(j) => OnlyNewGap(j, "created", 0)
          /\ Announce(j) => OnlyNewGap(j, "started", 0)
          /\ MarkProcessing(j) => OnlyNewGap(j, "decision", 0)
  <1>0. TypeInv /\ StatusInv
    BY DEF PipelineInv, TypeInv
  <1>1. ASSUME Create(j) PROVE OnlyNewGap(j, "created", 0)
    <2>1. /\ pos'[j] = 1 /\ catalog' = catalog
          /\ Counted(j)' = 0 /\ job'[j].status \in {"none", "queued"}
          /\ \/ pc'[j] = "announce"
             \/ pc'[j] = "rejected" /\ faults' = faults + 1
      BY <1>0, <1>1, CallCounts
        DEF Create, TypeInv, TypeOK, LoopInv, StatusInv, NoRow, Queued, Goto,
            UpdateJob, Counted
    <2>2. \A n \in Good(j)' : n \in Nat /\ n >= 1
      <3>1. PICK upload \in Uploads : payload'[j] = upload
        BY <1>0, <1>1 DEF Create, TypeInv, TypeOK
      <3>2. Good(j)' \subseteq DOMAIN upload
        BY <3>1 DEF Good
      <3>3. DOMAIN upload \subseteq Nat \ {0}
        BY ImportAssumption DEF Uploads, Positions
      <3> QED
        BY <3>2, <3>3
    <2> QED
      BY <2>1, <2>2 DEF OnlyNewGap, Gap
  <1>2. ASSUME Announce(j) PROVE OnlyNewGap(j, "started", 0)
    <2>1. /\ pc[j] = "announce" /\ pc'[j] = "begin"
          /\ UNCHANGED <<job, catalog, payload, pos>>
          /\ \/ faults' = faults + 1
             \/ Record(j, "import.started", NoCounts) \in audit'
      BY <1>0, <1>2, CallCounts
        DEF Announce, TypeInv, TypeOK, Goto, Log, Failed, Applied
    <2> QED
      BY <2>1, GapFrame DEF OnlyNewGap, Gap
  <1>3. ASSUME MarkProcessing(j) PROVE OnlyNewGap(j, "decision", 0)
    <2>1. /\ pc[j] = "begin" /\ UNCHANGED <<catalog, audit, payload, pos>>
          /\ \/ pc'[j] = "item"
             \/ pc'[j] = "fail" /\ faults' = faults + 1
          /\ job'[j] \in {job[j], Mark(job[j], "processing")}
      BY <1>0, <1>3, CallCounts
        DEF MarkProcessing, TypeInv, TypeOK, Goto, UpdateJob
    <2>2. /\ job'[j].status \in {"queued", "processing"}
          /\ Counted(j)' = Counted(j)
      BY <1>0, <2>1, MarkJob
        DEF TypeInv, TypeOK, StatusInv, JobStatuses, Counted
    <2> QED
      BY <2>1, <2>2, GapFrame DEF OnlyNewGap, Gap
  <1> QED
    BY <1>1, <1>2, <1>3

LEMMA GapsInItem ==
    ASSUME PipelineInv, NEW j \in Jobs, ProcessOne(j)
    PROVE OnlyNewGap(j, "item", pos[j])
  <1>0. /\ TypeInv /\ StageInv /\ pos[j] \in Nat
        /\ pc[j] \in ItemLabels => InLoop(j)
        /\ InLoop(j) => pos[j] \in Positions
    BY PlaceInUpload, CurrentIsEntry DEF PipelineInv, TypeInv, LoopInv
  <1> USE DEF TypeInv, TypeOK, Goto
  <1>1. UNCHANGED <<job, audit, payload, pos>>
    BY DEF rows, ProcessOne, Ingest, Reject, SaveRaw, InsertListing, InsertScore,
      SaveStrategies, MarkRawProcessed, MarkRawFailed
  <1>2. Live(j) \subseteq Live(j)'
    BY <1>0, LiveKept DEF Next, Work
  <1>3. /\ pc[j] \in {"item", "rawFailed", "rawProcessed", "listing", "score", "strategies"}
        /\ \/ pc'[j] \in {"listing", "score", "strategies", "rawProcessed", "countProcessed"}
           \/ pc'[j] = "countFailed" /\ pc[j] = "rawFailed"
           \/ pc'[j] \in {"rawFailed", "countFailed"} /\ faults' = faults + 1
           \/ pc'[j] \in {"rawFailed", "countFailed"} /\ pos[j] \notin Good(j)
    <2>1. CASE Reject(j)
      BY <1>0, <2>1, CurrentGood DEF Reject
    <2>2. CASE SaveRaw(j)
      BY <1>0, <2>2, CallCounts DEF SaveRaw
    <2>3. CASE InsertListing(j)
      BY <1>0, <2>3, CallCounts, CurrentGood DEF InsertListing, ItemLabels
    <2>4. CASE InsertScore(j) \/ SaveStrategies(j)
      BY <1>0, <2>4, CallCounts DEF InsertScore, SaveStrategies
    <2>5. CASE MarkRawProcessed(j) \/ MarkRawFailed(j)
      BY <1>0, <2>5, CallCounts DEF MarkRawProcessed, MarkRawFailed
    <2> QED
      BY <2>1, <2>2, <2>3, <2>4, <2>5 DEF ProcessOne, Ingest
  <1> QED
    BY <1>0, <1>1, <1>2, <1>3, GapFrame DEF OnlyNewGap, Gap

LEMMA GapsInCount ==
    ASSUME PipelineInv, NEW j \in Jobs, IncrementProcessed(j) \/ IncrementFailed(j)
    PROVE OnlyNewGap(j, "count", pos[j] - Counted(j))
  <1>0. /\ TypeInv /\ StatusInv /\ pos[j] \in Nat
        /\ InLoop(j) /\ pos[j] \in Positions
        /\ pc[j] = "countProcessed" => pos[j] \in Live(j)
    BY PlaceInUpload, CurrentIsEntry
      DEF PipelineInv, TypeInv, LoopInv, StageInv, Live, ItemLabels,
          IncrementProcessed, IncrementFailed
  <1>1. /\ pc[j] \in {"countProcessed", "countFailed"} /\ pc'[j] = "item"
        /\ UNCHANGED <<catalog, audit, payload>> /\ pos'[j] = pos[j] + 1
        /\ \/ job'[j] \in {AddProcessed(job[j]), AddFailed(job[j])}
           \/ job'[j] = job[j] /\ faults' = faults + 1
    BY <1>0, CallCounts
      DEF TypeInv, TypeOK, Goto, UpdateJob, NextItem, Failed, Applied,
          IncrementProcessed, IncrementFailed
  <1>2. job[j] \in JobRow /\ job[j].status = "processing"
    BY <1>0, <1>1 DEF TypeInv, TypeOK, StatusInv, ItemLabels
  <1>3. job[j].processed \in Nat /\ job[j].failed \in Nat
    BY <1>2 DEF JobRow
  <1>4. /\ job'[j].status = "processing"
        /\ Counted(j) \in Nat
        /\ \/ Counted(j)' = Counted(j) + 1
           \/ Counted(j)' = Counted(j) /\ faults' = faults + 1
    <2>1. CASE job'[j] = AddProcessed(job[j])
      <3>1. /\ job'[j].processed = job[j].processed + 1
            /\ job'[j].failed = job[j].failed
            /\ job'[j].status = "processing"
        BY <1>2, <2>1, CountJob
      <3> QED
        BY <1>3, <3>1 DEF Counted
    <2>2. CASE job'[j] = AddFailed(job[j])
      <3>1. /\ job'[j].failed = job[j].failed + 1
            /\ job'[j].processed = job[j].processed
            /\ job'[j].status = "processing"
        BY <1>2, <2>2, CountJob
      <3> QED
        BY <1>3, <3>1 DEF Counted
    <2>3. CASE job'[j] = job[j] /\ faults' = faults + 1
      BY <1>2, <1>3, <2>3 DEF Counted
    <2> QED
      BY <1>1, <2>1, <2>2, <2>3
  <1> QED
    BY <1>0, <1>1, <1>4, GapFrame DEF OnlyNewGap, Gap

LEMMA GapsAfter ==
    ASSUME PipelineInv, NEW j \in Jobs
    PROVE /\ Review(j) => OnlyNewGap(j, "decision", 0)
          /\ MarkFailed(j) => OnlyNewGap(j, "row", 0)
          /\ MarkCompleted(j) =>
                OnlyNewGap(j, "row", 0) \/ OnlyNewGap(j, "entry", 0)
          /\ Reread(j) \/ LogVerdict(j) => OnlyNewGap(j, "entry", 0)
  <1>0. TypeInv /\ StatusInv /\ AuditInv /\ job[j] \in JobRow
    BY DEF PipelineInv, TypeInv, TypeOK
  <1> USE DEF TypeInv, TypeOK, Goto
  <1>1. ASSUME Review(j) PROVE OnlyNewGap(j, "decision", 0)
    <2>1. /\ pc[j] = "item" /\ ~InLoop(j)
          /\ UNCHANGED <<job, catalog, audit, payload, pos>>
          /\ \/ pc'[j] = "complete"
             \/ pc'[j] = "fail" /\ faults' = faults + 1
             \/ pc'[j] = "fail" /\ AllFailed(j)
      BY <1>0, <1>1, CallCounts DEF Review, rows
    <2>2. job[j].processed \in Nat /\ job[j].failed \in Nat
      BY <1>0 DEF JobRow
    <2> QED
      BY <2>1, <2>2, GapFrame DEF OnlyNewGap, Gap, AllFailed
  <1>2. ASSUME MarkFailed(j) PROVE OnlyNewGap(j, "row", 0)
    <2>1. /\ pc[j] = "fail" /\ pc'[j] = "logFailed"
          /\ UNCHANGED <<catalog, audit, payload, pos>>
          /\ \/ job'[j] = Mark(job[j], "failed")
             \/ job'[j] = job[j] /\ faults' = faults + 1
      BY <1>0, <1>2, CallCounts DEF MarkFailed, UpdateJob, Failed, Applied
    <2>2. /\ job'[j].processed = job[j].processed /\ job'[j].failed = job[j].failed
          /\ Counted(j)' = Counted(j)
          /\ \/ job'[j].status = "failed"
             \/ job'[j].status # "completed" /\ faults' = faults + 1
      <3>1. job[j].status \in {"queued", "processing"}
        BY <1>0, <2>1 DEF StatusInv
      <3>2. CASE job'[j] = Mark(job[j], "failed")
        BY <1>0, <3>2, MarkJob DEF JobStatuses, Counted
      <3>3. CASE job'[j] = job[j] /\ faults' = faults + 1
        BY <3>1, <3>3 DEF Counted
      <3> QED
        BY <2>1, <3>2, <3>3
    <2> QED
      BY <2>1, <2>2, GapFrame DEF OnlyNewGap, Gap, Terminal
  <1>3. ASSUME MarkCompleted(j)
        PROVE OnlyNewGap(j, "row", 0) \/ OnlyNewGap(j, "entry", 0)
    <2>1. /\ pc[j] = "complete"
          /\ UNCHANGED <<catalog, audit, payload, pos>>
          /\ \/ pc'[j] = "reread" /\ job'[j] = Mark(job[j], "completed")
             \/ /\ pc'[j] = "logFailed" /\ faults' = faults + 1
                /\ job'[j] \in {job[j], Mark(job[j], "completed")}
      BY <1>0, <1>3, CallCounts DEF MarkCompleted, UpdateJob, Failed, Applied
    <2>2. /\ Counted(j)' = Counted(j)
          /\ job'[j].status \in {"processing", "completed"}
          /\ pc'[j] = "reread" => job'[j].status = "completed"
      BY <1>0, <2>1, MarkJob DEF StatusInv, JobStatuses, Counted
    <2>3. CASE job'[j].status = "completed"
      BY <2>1, <2>2, <2>3, GapFrame DEF OnlyNewGap, Gap, Terminal
    <2>4. CASE job'[j].status = "processing"
      BY <2>1, <2>2, <2>4, GapFrame DEF OnlyNewGap, Gap, Terminal
    <2> QED
      BY <2>2, <2>3, <2>4
  <1>4. ASSUME Reread(j) PROVE OnlyNewGap(j, "entry", 0)
    <2>1. /\ pc[j] = "reread"
          /\ UNCHANGED <<job, catalog, audit, payload, pos>>
          /\ \/ pc'[j] = "logCompleted"
             \/ pc'[j] = "logFailed" /\ faults' = faults + 1
      BY <1>0, <1>4, CallCounts DEF Reread, rows
    <2>2. job[j].status = "completed"
      BY <1>0, <2>1 DEF StatusInv
    <2> QED
      BY <2>1, <2>2, GapFrame DEF OnlyNewGap, Gap, Terminal
  <1>5. ASSUME LogVerdict(j) PROVE OnlyNewGap(j, "entry", 0)
    <2>1. /\ pc[j] \in {"logFailed", "logCompleted"} /\ pc'[j] = "done"
          /\ UNCHANGED <<job, catalog, payload, pos>> /\ audit \subseteq audit'
          /\ \/ faults' = faults + 1
             \/ /\ pc[j] = "logFailed"
                /\ Record(j, "import.failed", NoCounts) \in audit'
             \/ /\ pc[j] = "logCompleted"
                /\ Record(j, "import.completed", seen[j]) \in audit'
      BY <1>0, <1>5, CallCounts DEF LogVerdict, Log, Failed, Applied
    <2>2. pc[j] = "logCompleted" =>
             job[j].status = "completed" /\ seen[j] = Counters(j)
      BY <1>0 DEF StatusInv, AuditInv, Counters, Counts
    <2>3. \/ faults' = faults + 1
          \/ pc[j] = "logFailed" /\ job[j].status = "completed"
          \/ VerdictEntry(j) \in audit'
      BY <2>1, <2>2 DEF VerdictEntry
    <2> QED
      BY <2>1, <2>2, <2>3, GapFrame DEF OnlyNewGap, Gap, Terminal
  <1> QED
    BY <1>1, <1>2, <1>3, <1>4, <1>5

-----------------------------------------------------------------------------
(* The account *)

\* The invariant: the gaps are finitely many, and no more than the faults.
GapInv == IsFiniteSet(Gaps) /\ Cardinality(Gaps) <= faults

LEMMA NoGapsAtFirst == Init => Gaps = {}
  <1> SUFFICES ASSUME Init, NEW g \in Jobs \X GapKinds \X (0 .. MaxItems),
                      Gap(g[1], g[2], g[3])
               PROVE FALSE
    BY DEF Gaps
  <1> QED
    BY DEF Init, Gap, Good, Counted, NoRow

LEMMA OneGapAtMost ==
    ASSUME PipelineInv, [Next]_vars
    PROVE \/ Gaps' \subseteq Gaps
          \/ faults' = faults + 1 /\ \E g : Gaps' \subseteq Gaps \cup {g}
  <1>0. TypeInv /\ audit \subseteq audit'
    BY Grows DEF PipelineInv, TypeInv
  <1>1. CASE Crash \/ UNCHANGED vars
    <2>1. ASSUME NEW i \in Jobs, NEW what, NEW n, Gap(i, what, n)'
          PROVE Gap(i, what, n)
      BY <1>0, <1>1, <2>1, GapsOfOthers DEF Crash, vars, rows, TypeInv, TypeOK
    <2> QED
      BY <2>1 DEF Gaps
  <1>2. ASSUME NEW j \in Jobs, Create(j) \/ Work(j)
        PROVE \/ Gaps' \subseteq Gaps
              \/ faults' = faults + 1 /\ \E g : Gaps' \subseteq Gaps \cup {g}
    <2>1. PICK kind, m : OnlyNewGap(j, kind, m)
      <3>1. Create(j) \/ Announce(j) \/ MarkProcessing(j)
              => \E kind, m : OnlyNewGap(j, kind, m)
        BY GapsBefore
      <3>2. ProcessOne(j) => \E kind, m : OnlyNewGap(j, kind, m)
        BY GapsInItem
      <3>3. IncrementProcessed(j) \/ IncrementFailed(j)
              => \E kind, m : OnlyNewGap(j, kind, m)
        BY GapsInCount
      <3>4. Review(j) \/ MarkFailed(j) \/ MarkCompleted(j) \/ Reread(j) \/ LogVerdict(j)
              => \E kind, m : OnlyNewGap(j, kind, m)
        BY GapsAfter
      <3> QED
        BY <1>2, <3>1, <3>2, <3>3, <3>4 DEF Work
    <2>2. ASSUME NEW i \in Jobs, i # j, NEW what, NEW n, Gap(i, what, n)'
          PROVE Gap(i, what, n)
      BY <1>0, <1>2, <2>2, OthersKept, GapsOfOthers
    <2>3. ASSUME NEW g \in Gaps' PROVE g \in Gaps \/ (faults' = faults + 1 /\ g = <<j, kind, m>>)
      <3>1. PICK i \in Jobs, what \in GapKinds, n \in 0 .. MaxItems :
              g = <<i, what, n>> /\ Gap(i, what, n)'
        BY <2>3 DEF Gaps
      <3>2. Gap(i, what, n) \/ (faults' = faults + 1 /\ i = j /\ what = kind /\ n = m)
        BY <2>1, <2>2, <3>1 DEF OnlyNewGap
      <3> QED
        BY <3>1, <3>2 DEF Gaps
    <2> QED
      BY <2>3
  <1> QED
    BY <1>1, <1>2 DEF Next

LEMMA GapStep == PipelineInv /\ GapInv /\ [Next]_vars => GapInv'
  <1> SUFFICES ASSUME PipelineInv, GapInv, [Next]_vars
               PROVE GapInv'
    OBVIOUS
  <1>0. faults \in Nat /\ faults' \in Nat /\ faults <= faults'
    BY Grows DEF PipelineInv, TypeInv
  <1>1. IsFiniteSet(Gaps) /\ Cardinality(Gaps) \in Nat /\ Cardinality(Gaps) <= faults
    BY FS_CardinalityType DEF GapInv
  <1>2. CASE Gaps' \subseteq Gaps
    <2>1. IsFiniteSet(Gaps') /\ Cardinality(Gaps') <= Cardinality(Gaps)
      BY <1>1, <1>2, FS_Subset
    <2>2. Cardinality(Gaps') \in Nat
      BY <2>1, FS_CardinalityType
    <2> QED
      BY <1>0, <1>1, <2>1, <2>2 DEF GapInv
  <1>3. ASSUME NEW g, Gaps' \subseteq Gaps \cup {g}, faults' = faults + 1
        PROVE GapInv'
    <2>1. /\ IsFiniteSet(Gaps \cup {g})
          /\ Cardinality(Gaps \cup {g}) <= Cardinality(Gaps) + 1
      BY <1>1, FS_AddElement
    <2>2. /\ IsFiniteSet(Gaps') /\ Cardinality(Gaps') <= Cardinality(Gaps \cup {g})
      BY <1>3, <2>1, FS_Subset
    <2>3. Cardinality(Gaps') \in Nat /\ Cardinality(Gaps \cup {g}) \in Nat
      BY <2>1, <2>2, FS_CardinalityType
    <2> QED
      BY <1>0, <1>1, <1>3, <2>1, <2>2, <2>3 DEF GapInv
  <1> QED
    BY <1>2, <1>3, OneGapAtMost

\* However many uploads there are and however they race, their reports together
\* have no more gaps than there were failed statements.
THEOREM GapsPaidFor == Spec => []GapsAreFaults
  <1>1. Init => GapInv
    BY NoGapsAtFirst, FS_EmptySet DEF Init, GapInv
  <1>2. GapInv => GapsAreFaults
    BY DEF GapInv, GapsAreFaults
  <1> QED
    BY <1>1, <1>2, GapStep, Inductive, PTL DEF Spec

=============================================================================
