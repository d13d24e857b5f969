------------------------ MODULE ImportPipeline_proofs ------------------------
(***************************************************************************)
(* Theorems about ImportPipeline, for any set of jobs, any set of keys and *)
(* any values of the bounds.                                               *)
(***************************************************************************)
EXTENDS ImportPipeline, FiniteSetTheorems, TLAPS

TypeInv == TypeOK /\ LoopInv

\* What the statements of import_job_repository.go do to a row.
LEMMA MarkJob ==
    ASSUME NEW row \in JobRow, NEW s \in JobStatuses
    PROVE /\ Mark(row, s) \in JobRow
          /\ Mark(row, s).status = s
          /\ Mark(row, s).total = row.total
          /\ Mark(row, s).processed = row.processed
          /\ Mark(row, s).failed = row.failed
  BY DEF Mark, JobRow

LEMMA CountJob ==
    ASSUME NEW row \in JobRow
    PROVE /\ AddProcessed(row) \in JobRow
          /\ AddProcessed(row).status = row.status
          /\ AddProcessed(row).total = row.total
          /\ AddProcessed(row).processed = row.processed + 1
          /\ AddProcessed(row).failed = row.failed
          /\ AddFailed(row) \in JobRow
          /\ AddFailed(row).status = row.status
          /\ AddFailed(row).total = row.total
          /\ AddFailed(row).processed = row.processed
          /\ AddFailed(row).failed = row.failed + 1
  BY DEF AddProcessed, AddFailed, JobRow

\* What those of raw_listing_repository.go do to one.
LEMMA MarkRaw ==
    ASSUME NEW row \in RawRow, NEW s \in {"processed", "failed"}
    PROVE /\ Mark(row, s) \in RawRow
          /\ Mark(row, s).status = s
          /\ Mark(row, s).job = row.job
          /\ Mark(row, s).item = row.item
  BY DEF Mark, RawRow

\* An upload has between one and MaxItems items, each of them an Entry.
LEMMA UploadShape ==
    ASSUME NEW u \in Uploads
    PROVE /\ Len(u) \in Positions
          /\ \A i \in 1 .. Len(u) : u[i] \in Entry
          /\ u # <<>>
  <1>1. PICK n \in Positions : u \in [1 .. n -> Entry]
    BY DEF Uploads
  <1>2. n \in Nat \ {0}
    BY ImportAssumption DEF Positions
  <1>3. Len(u) = n
    BY <1>1, <1>2
  <1> QED
    BY <1>1, <1>2, <1>3

\* The item the goroutine is on is an Entry.
LEMMA CurrentIsEntry ==
    ASSUME TypeInv, NEW j \in Jobs, InLoop(j)
    PROVE /\ Current(j) \in Entry
          /\ pos[j] \in Positions
          /\ payload[j] \in Uploads
          /\ Len(payload[j]) \in Positions
  <1>1. CASE payload[j] = <<>>
    BY <1>1 DEF TypeInv, TypeOK, InLoop
  <1>2. CASE payload[j] \in Uploads
    BY <1>2, UploadShape, ImportAssumption
      DEF TypeInv, TypeOK, InLoop, Current, Positions
  <1> QED
    BY <1>1, <1>2 DEF TypeInv, TypeOK

LEMMA TypeInit == Init => TypeInv
  BY ImportAssumption
    DEF Init, TypeInv, TypeOK, LoopInv, JobRow, NoRow, JobStatuses, RawRow,
        NoRaw, Stages, Labels, Counts, NoCounts, Positions, ItemLabels, Entries

LEMMA TypeStep == TypeInv /\ [Next]_vars => TypeInv'
  <1> SUFFICES ASSUME TypeInv, [Next]_vars
               PROVE TypeInv'
    OBVIOUS
  <1> USE ImportAssumption DEF TypeInv, TypeOK, Positions
  <1>1. CASE UNCHANGED vars
    BY <1>1 DEF vars, LoopInv, InLoop
  <1>2. CASE Crash
    BY <1>2 DEF Crash, rows, LoopInv, InLoop, Labels, Resting, ItemLabels
  <1>3. ASSUME NEW j \in Jobs, Create(j) PROVE TypeInv'
    <2>1. PICK upload \in Uploads, o \in Outcomes :
            /\ Call(o)
            /\ UpdateJob(o, [job EXCEPT ![j] =
                   [status |-> "queued", total |-> Len(upload),
                    processed |-> 0, failed |-> 0]])
            /\ payload' = [payload EXCEPT ![j] = upload]
            /\ Goto(j, IF Failed(o) THEN "rejected" ELSE "announce")
      BY <1>3 DEF Create, Queued
    <2>2. Len(upload) \in 1 .. MaxItems /\ upload # <<>>
      BY UploadShape
    <2>3. job' \in [Jobs -> JobRow]
      BY <2>1, <2>2 DEF UpdateJob, JobRow, JobStatuses
    <2>4. faults' \in 0 .. MaxFaults
      BY <2>1 DEF Call
    <2>5. pc' \in [Jobs -> Labels]
      BY <2>1 DEF Goto, Labels
    <2>6. payload' \in [Jobs -> Uploads \cup {<<>>}]
      BY <2>1
    <2>7. LoopInv'
      BY <1>3, <2>1, <2>2 DEF Create, Queued, LoopInv, InLoop, Goto, ItemLabels, Labels
    <2> QED
      BY <1>3, <2>3, <2>4, <2>5, <2>6, <2>7 DEF Create, Queued
  <1>4. ASSUME NEW j \in Jobs, Announce(j) PROVE TypeInv'
    BY <1>4 DEF Announce, Call, Log, Goto, Labels, Entries, Record, NoCounts, Counts, Outcomes,
      LoopInv, InLoop, ItemLabels
  <1>5. ASSUME NEW j \in Jobs, MarkProcessing(j) PROVE TypeInv'
    BY <1>5, MarkJob DEF MarkProcessing, Call, UpdateJob, Goto, Labels, JobStatuses, Outcomes,
      LoopInv, InLoop, ItemLabels
  <1>6. ASSUME NEW j \in Jobs, Reject(j) PROVE TypeInv'
    BY <1>6 DEF Reject, rows, Goto, Labels, Outcomes,
      LoopInv, InLoop, ItemLabels
  <1>7. ASSUME NEW j \in Jobs, SaveRaw(j) PROVE TypeInv'
    BY <1>7, CurrentIsEntry DEF SaveRaw, Call, UpdateRaw, Goto, Labels, RawRow, Entry, Outcomes,
      LoopInv, InLoop, ItemLabels
  <1>8. ASSUME NEW j \in Jobs, InsertListing(j) PROVE TypeInv'
    <2>1. CASE Current(j).kind = "refused"
      <3>1. /\ pc[j] = "listing" /\ pc' = [pc EXCEPT ![j] = "rawFailed"]
            /\ UNCHANGED <<job, raw, catalog, audit, payload, pos, seen, faults, crashes>>
        BY <1>8, <2>1 DEF InsertListing, Goto
      <3> QED
        BY <3>1 DEF Labels, LoopInv, InLoop, ItemLabels
    <2>2. CASE Current(j).kind = "good"
      <3>1. PICK o \in Outcomes :
              /\ Call(o)
              /\ Advance(o, j, "listed")
              /\ Goto(j, IF Failed(o) THEN "rawFailed" ELSE "score")
        BY <1>8, <2>2 DEF InsertListing
      <3>2. /\ pc[j] = "listing"
            /\ UNCHANGED <<job, raw, audit, payload, pos, seen, crashes>>
        BY <1>8 DEF InsertListing
      <3> QED
        BY <3>1, <3>2, CurrentIsEntry DEF Call, Advance, Goto, Outcomes, Labels,
          Stages, LoopInv, InLoop, ItemLabels
    <2> QED
      BY <1>8, <2>1, <2>2 DEF InsertListing
  <1>9. ASSUME NEW j \in Jobs, InsertScore(j) PROVE TypeInv'
    BY <1>9, CurrentIsEntry DEF InsertScore, Call, Advance, Goto, Labels, Stages, Outcomes,
      LoopInv, InLoop, ItemLabels
  <1>10. ASSUME NEW j \in Jobs, SaveStrategies(j) PROVE TypeInv'
    BY <1>10, CurrentIsEntry DEF SaveStrategies, Call, Advance, Goto, Labels, Stages, Outcomes,
      LoopInv, InLoop, ItemLabels
  <1>11. ASSUME NEW j \in Jobs, MarkRawProcessed(j) PROVE TypeInv'
    BY <1>11, CurrentIsEntry, MarkRaw DEF MarkRawProcessed, Call, UpdateRaw, Goto, Labels, Entry, Outcomes,
      LoopInv, InLoop, ItemLabels
  <1>12. ASSUME NEW j \in Jobs, MarkRawFailed(j) PROVE TypeInv'
    BY <1>12, CurrentIsEntry, MarkRaw DEF MarkRawFailed, Call, UpdateRaw, Goto, Labels, Entry, Outcomes,
      LoopInv, InLoop, ItemLabels
  <1>13. ASSUME NEW j \in Jobs, IncrementProcessed(j) PROVE TypeInv'
    BY <1>13, CountJob, CurrentIsEntry DEF IncrementProcessed, NextItem, Call, UpdateJob, Goto, Labels, Outcomes,
      LoopInv, InLoop, ItemLabels
  <1>14. ASSUME NEW j \in Jobs, IncrementFailed(j) PROVE TypeInv'
    BY <1>14, CountJob, CurrentIsEntry DEF IncrementFailed, NextItem, Call, UpdateJob, Goto, Labels, Outcomes,
      LoopInv, InLoop, ItemLabels
  <1>15. ASSUME NEW j \in Jobs, Review(j) PROVE TypeInv'
    BY <1>15 DEF Review, rows, AllFailed, Call, Goto, Labels, Outcomes,
      LoopInv, InLoop, ItemLabels
  <1>16. ASSUME NEW j \in Jobs, MarkFailed(j) PROVE TypeInv'
    BY <1>16, MarkJob DEF MarkFailed, Call, UpdateJob, Goto, Labels, JobStatuses, Outcomes,
      LoopInv, InLoop, ItemLabels
  <1>17. ASSUME NEW j \in Jobs, MarkCompleted(j) PROVE TypeInv'
    BY <1>17, MarkJob, SMTT(30) DEF MarkCompleted, Call, UpdateJob, Goto, Labels, JobStatuses, Outcomes,
      LoopInv, InLoop, ItemLabels
  <1>18. ASSUME NEW j \in Jobs, Reread(j) PROVE TypeInv'
    BY <1>18 DEF Reread, Counters, rows, Call, Goto, Labels, Counts, JobRow, Outcomes,
      LoopInv, InLoop, ItemLabels
  <1>19. ASSUME NEW j \in Jobs, LogVerdict(j) PROVE TypeInv'
    <2>1. PICK e \in Entries, o \in Outcomes : Call(o) /\ Log(o, e)
      BY <1>19 DEF LogVerdict, Record, Entries, NoCounts, Counts
    <2>2. pc[j] \in {"logFailed", "logCompleted"} /\ pc' = [pc EXCEPT ![j] = "done"]
      BY <1>19 DEF LogVerdict, Goto
    <2>3. UNCHANGED <<job, raw, catalog, payload, pos, seen, crashes>>
      BY <1>19 DEF LogVerdict
    <2> QED
      BY <2>1, <2>2, <2>3 DEF Call, Log, Outcomes, Labels, LoopInv, InLoop, ItemLabels
  <1> QED
    BY <1>1, <1>2, <1>3, <1>4, <1>5, <1>6, <1>7, <1>8, <1>9, <1>10, <1>11, <1>12, <1>13, <1>14, <1>15, <1>16, <1>17, <1>18, <1>19
      DEF Next, Work, ProcessOne, Ingest

\* Type correctness: in particular the goroutine never indexes its upload out
\* of range, however the statements of its items end.
THEOREM TypeCorrect == Spec => []TypeOK
  <1>1. TypeInv => TypeOK
    BY DEF TypeInv
  <1> QED
    BY TypeInit, TypeStep, <1>1, PTL DEF Spec

-----------------------------------------------------------------------------
(* StatusInv *)

LEMMA StatusInit == Init => StatusInv
  BY DEF Init, StatusInv, NoRow, ItemLabels

LEMMA StatusStep ==
    TypeInv /\ TypeInv' /\ StatusInv /\ [Next]_vars => StatusInv'
  <1> SUFFICES ASSUME TypeInv, TypeInv', StatusInv, [Next]_vars
               PROVE StatusInv'
    OBVIOUS
  <1> USE DEF TypeInv, TypeOK, StatusInv, LoopInv, ItemLabels
  <1>1. CASE UNCHANGED vars
    BY <1>1 DEF vars
  <1>2. CASE Crash
    BY <1>2 DEF Crash, rows, Resting
  <1>3. ASSUME NEW j \in Jobs, Create(j) PROVE StatusInv'
    <2>1. PICK upload \in Uploads, o \in Outcomes :
            /\ UpdateJob(o, [job EXCEPT ![j] =
                   [status |-> "queued", total |-> Len(upload),
                    processed |-> 0, failed |-> 0]])
            /\ payload' = [payload EXCEPT ![j] = upload]
            /\ Goto(j, IF Failed(o) THEN "rejected" ELSE "announce")
            /\ pos' = pos
      BY <1>3 DEF Create, Queued
    <2>2. pc[j] = "idle" /\ job[j] = NoRow
      BY <1>3 DEF Create, Queued
    <2>3. job'[j] = NoRow
            \/ job'[j] = [status |-> "queued", total |-> Len(upload),
                          processed |-> 0, failed |-> 0]
      BY <2>1, <2>2 DEF UpdateJob
    <2>4. /\ pc'[j] \in {"rejected", "announce"}
          /\ payload'[j] = upload
          /\ pc'[j] = "announce" => job'[j].status = "queued"
      BY <2>1 DEF UpdateJob, Goto, Failed, Applied
    <2>5. ASSUME NEW i \in Jobs, i # j
          PROVE UNCHANGED <<job[i], pc[i], payload[i], pos[i]>>
      BY <2>1, <2>5 DEF UpdateJob, Goto
    <2> QED
      BY <2>1, <2>3, <2>4, <2>5, SMTT(30) DEF NoRow
  <1>4. ASSUME NEW j \in Jobs, Announce(j) PROVE StatusInv'
    BY <1>4 DEF Announce, Call, Log, Goto
  <1>5. ASSUME NEW j \in Jobs, MarkProcessing(j) PROVE StatusInv'
    <2>1. PICK o \in Outcomes :
            /\ UpdateJob(o, [job EXCEPT ![j] = Mark(@, "processing")])
            /\ Goto(j, IF Failed(o) THEN "fail" ELSE "item")
      BY <1>5 DEF MarkProcessing
    <2>2. pc[j] = "begin" /\ UNCHANGED <<payload, pos>>
      BY <1>5 DEF MarkProcessing
    <2>3. job[j].status = "queued" /\ job[j] \in JobRow
      BY <2>2
    <2>4. /\ job'[j] = job[j] \/ job'[j] = Mark(job[j], "processing")
          /\ ~Failed(o) => job'[j] = Mark(job[j], "processing")
      BY <2>1 DEF UpdateJob, Failed, Applied
    <2>5. ASSUME NEW i \in Jobs, i # j PROVE UNCHANGED <<job[i], pc[i]>>
      BY <2>1, <2>5 DEF UpdateJob, Goto
    <2> QED
      BY <2>1, <2>2, <2>3, <2>4, <2>5, MarkJob DEF Goto, JobStatuses
  <1>6. ASSUME NEW j \in Jobs, Reject(j) PROVE StatusInv'
    BY <1>6 DEF Reject, rows, Goto
  <1>7. ASSUME NEW j \in Jobs, SaveRaw(j) PROVE StatusInv'
    BY <1>7 DEF SaveRaw, Call, UpdateRaw, Goto
  <1>8. ASSUME NEW j \in Jobs, InsertListing(j) PROVE StatusInv'
    BY <1>8 DEF InsertListing, Call, Advance, Goto
  <1>9. ASSUME NEW j \in Jobs, InsertScore(j) PROVE StatusInv'
    BY <1>9 DEF InsertScore, Call, Advance, Goto
  <1>10. ASSUME NEW j \in Jobs, SaveStrategies(j) PROVE StatusInv'
    BY <1>10 DEF SaveStrategies, Call, Advance, Goto
  <1>11. ASSUME NEW j \in Jobs, MarkRawProcessed(j) PROVE StatusInv'
    BY <1>11 DEF MarkRawProcessed, Call, UpdateRaw, Goto
  <1>12. ASSUME NEW j \in Jobs, MarkRawFailed(j) PROVE StatusInv'
    BY <1>12 DEF MarkRawFailed, Call, UpdateRaw, Goto
  <1>13. ASSUME NEW j \in Jobs, IncrementProcessed(j) PROVE StatusInv'
    BY <1>13, CountJob DEF IncrementProcessed, NextItem, Call, UpdateJob, Goto
  <1>14. ASSUME NEW j \in Jobs, IncrementFailed(j) PROVE StatusInv'
    BY <1>14, CountJob DEF IncrementFailed, NextItem, Call, UpdateJob, Goto
  <1>15. ASSUME NEW j \in Jobs, Review(j) PROVE StatusInv'
    BY <1>15 DEF Review, rows, AllFailed, Call, Goto, InLoop, JobRow
  <1>16. ASSUME NEW j \in Jobs, MarkFailed(j) PROVE StatusInv'
    BY <1>16, MarkJob DEF MarkFailed, Call, UpdateJob, Goto, JobStatuses
  <1>17. ASSUME NEW j \in Jobs, MarkCompleted(j) PROVE StatusInv'
    <2>1. PICK o \in Outcomes :
            /\ UpdateJob(o, [job EXCEPT ![j] = Mark(@, "completed")])
            /\ Goto(j, IF Failed(o) THEN "logFailed" ELSE "reread")
      BY <1>17 DEF MarkCompleted
    <2>2. pc[j] = "complete" /\ UNCHANGED <<payload, pos>>
      BY <1>17 DEF MarkCompleted
    <2>3. /\ job[j].status = "processing"
          /\ job[j].failed > 0 => job[j].processed > 0
          /\ pos[j] = Len(payload[j]) + 1
          /\ job[j] \in JobRow
      BY <2>2
    <2>4. /\ job'[j] = job[j] \/ job'[j] = Mark(job[j], "completed")
          /\ ~Failed(o) => job'[j] = Mark(job[j], "completed")
      BY <2>1 DEF UpdateJob, Failed, Applied
    <2>5. ASSUME NEW i \in Jobs, i # j PROVE UNCHANGED <<job[i], pc[i]>>
      BY <2>1, <2>5 DEF UpdateJob, Goto
    <2> QED
      BY <2>1, <2>2, <2>3, <2>4, <2>5, MarkJob DEF Goto, JobStatuses
  <1>18. ASSUME NEW j \in Jobs, Reread(j) PROVE StatusInv'
    BY <1>18 DEF Reread, Counters, rows, Call, Goto
  <1>19. ASSUME NEW j \in Jobs, LogVerdict(j) PROVE StatusInv'
    BY <1>19 DEF LogVerdict, Call, Log, Goto
  <1> QED
    BY <1>1, <1>2, <1>3, <1>4, <1>5, <1>6, <1>7, <1>8, <1>9, <1>10, <1>11, <1>12, <1>13, <1>14, <1>15, <1>16, <1>17, <1>18, <1>19
      DEF Next, Work, ProcessOne, Ingest

-----------------------------------------------------------------------------
(* StageInv *)

LEMMA StageInit == Init => StageInv
  BY DEF Init, StageInv

\* One statement of the ingest changes one item of one job, or nothing.
LEMMA AdvanceStep ==
    ASSUME TypeInv, NEW j \in Jobs, InLoop(j),
           NEW o \in Outcomes, NEW stage \in Stages, Advance(o, j, stage)
    PROVE /\ \A i \in Jobs : i # j => catalog'[i] = catalog[i]
          /\ \A n \in Positions : n # pos[j] => catalog'[j][n] = catalog[j][n]
          /\ catalog'[j][pos[j]] = IF Applied(o) THEN stage
                                                ELSE catalog[j][pos[j]]
  BY CurrentIsEntry DEF TypeInv, TypeOK, Advance

LEMMA StageStep ==
    TypeInv /\ TypeInv' /\ StageInv /\ [Next]_vars => StageInv'
  <1> SUFFICES ASSUME TypeInv, TypeInv', StageInv, [Next]_vars
               PROVE StageInv'
    OBVIOUS
  <1> USE ImportAssumption
      DEF TypeInv, TypeOK, StageInv, LoopInv, ItemLabels, Positions
  <1>1. CASE UNCHANGED vars
    BY <1>1 DEF vars
  <1>2. CASE Crash
    BY <1>2 DEF Crash, rows, Resting
  <1>3. ASSUME NEW j \in Jobs, Create(j) PROVE StageInv'
    BY <1>3, UploadShape DEF Create, Queued, Goto
  <1>4. ASSUME NEW j \in Jobs, Announce(j) PROVE StageInv'
    BY <1>4 DEF Announce, Call, Log, Goto
  <1>5. ASSUME NEW j \in Jobs, MarkProcessing(j) PROVE StageInv'
    BY <1>5 DEF MarkProcessing, Call, UpdateJob, Goto
  <1>6. ASSUME NEW j \in Jobs, Reject(j) PROVE StageInv'
    BY <1>6 DEF Reject, rows, Goto
  <1>7. ASSUME NEW j \in Jobs, SaveRaw(j) PROVE StageInv'
    BY <1>7 DEF SaveRaw, Call, UpdateRaw, Goto
  <1>8. ASSUME NEW j \in Jobs, InsertListing(j) PROVE StageInv'
    <2>1. CASE Current(j).kind = "refused"
      <3>1. /\ pc[j] = "listing" /\ pc' = [pc EXCEPT ![j] = "rawFailed"]
            /\ UNCHANGED <<catalog, payload, pos>>
        BY <1>8, <2>1 DEF InsertListing, Goto
      <3> QED
        BY <3>1
    <2>2. CASE Current(j).kind = "good"
      <3>1. PICK o \in Outcomes :
              /\ Advance(o, j, "listed")
              /\ Goto(j, IF Failed(o) THEN "rawFailed" ELSE "score")
        BY <1>8, <2>2 DEF InsertListing
      <3>2. pc[j] = "listing" /\ UNCHANGED <<payload, pos>>
        BY <1>8 DEF InsertListing
      <3>3. InLoop(j) /\ "listed" \in Stages
        BY <3>2 DEF Stages
      <3>4. pos[j] \in Positions /\ pos[j] <= Len(payload[j])
        BY <3>3, CurrentIsEntry DEF InLoop
      <3> QED
        BY <3>1, <3>2, <3>3, <3>4, AdvanceStep DEF Goto, Failed, Applied
    <2> QED
      BY <1>8, <2>1, <2>2 DEF InsertListing
  <1>9. ASSUME NEW j \in Jobs, InsertScore(j) PROVE StageInv'
    <2>1. PICK o \in Outcomes :
            /\ Advance(o, j, "scored")
            /\ Goto(j, IF Failed(o) THEN "rawFailed" ELSE "strategies")
      BY <1>9 DEF InsertScore
    <2>2. pc[j] = "score" /\ UNCHANGED <<payload, pos>>
      BY <1>9 DEF InsertScore
    <2>3. InLoop(j) /\ "scored" \in Stages
      BY <2>2 DEF Stages
    <2>4. pos[j] \in Positions /\ pos[j] <= Len(payload[j])
      BY <2>3, CurrentIsEntry DEF InLoop
    <2> QED
      BY <2>1, <2>2, <2>3, <2>4, AdvanceStep DEF Goto, Failed, Applied
  <1>10. ASSUME NEW j \in Jobs, SaveStrategies(j) PROVE StageInv'
    <2>1. PICK o \in Outcomes :
            /\ Advance(o, j, "complete")
            /\ Goto(j, IF Failed(o) THEN "rawFailed" ELSE "rawProcessed")
      BY <1>10 DEF SaveStrategies
    <2>2. pc[j] = "strategies" /\ UNCHANGED <<payload, pos>>
      BY <1>10 DEF SaveStrategies
    <2>3. InLoop(j) /\ "complete" \in Stages
      BY <2>2 DEF Stages
    <2>4. pos[j] \in Positions /\ pos[j] <= Len(payload[j])
      BY <2>3, CurrentIsEntry DEF InLoop
    <2> QED
      BY <2>1, <2>2, <2>3, <2>4, AdvanceStep DEF Goto, Failed, Applied
  <1>11. ASSUME NEW j \in Jobs, MarkRawProcessed(j) PROVE StageInv'
    BY <1>11 DEF MarkRawProcessed, Call, UpdateRaw, Goto
  <1>12. ASSUME NEW j \in Jobs, MarkRawFailed(j) PROVE StageInv'
    BY <1>12 DEF MarkRawFailed, Call, UpdateRaw, Goto
  <1>13. ASSUME NEW j \in Jobs, IncrementProcessed(j) PROVE StageInv'
    BY <1>13 DEF IncrementProcessed, NextItem, Call, UpdateJob, Goto
  <1>14. ASSUME NEW j \in Jobs, IncrementFailed(j) PROVE StageInv'
    BY <1>14 DEF IncrementFailed, NextItem, Call, UpdateJob, Goto
  <1>15. ASSUME NEW j \in Jobs, Review(j) PROVE StageInv'
    BY <1>15 DEF Review, rows, AllFailed, Call, Goto, InLoop
  <1>16. ASSUME NEW j \in Jobs, MarkFailed(j) PROVE StageInv'
    BY <1>16 DEF MarkFailed, Call, UpdateJob, Goto
  <1>17. ASSUME NEW j \in Jobs, MarkCompleted(j) PROVE StageInv'
    BY <1>17 DEF MarkCompleted, Call, UpdateJob, Goto
  <1>18. ASSUME NEW j \in Jobs, Reread(j) PROVE StageInv'
    BY <1>18 DEF Reread, Counters, rows, Call, Goto
  <1>19. ASSUME NEW j \in Jobs, LogVerdict(j) PROVE StageInv'
    BY <1>19 DEF LogVerdict, Call, Log, Goto
  <1> QED
    BY <1>1, <1>2, <1>3, <1>4, <1>5, <1>6, <1>7, <1>8, <1>9, <1>10, <1>11, <1>12, <1>13, <1>14, <1>15, <1>16, <1>17, <1>18, <1>19
      DEF Next, Work, ProcessOne, Ingest

-----------------------------------------------------------------------------
(* How the catalogue grows *)

LEMMA LiveFinite ==
    ASSUME NEW j \in Jobs
    PROVE IsFiniteSet(Live(j)) /\ Cardinality(Live(j)) \in Nat
  <1>1. IsFiniteSet(Positions)
    BY FS_Interval, ImportAssumption DEF Positions
  <1>2. IsFiniteSet(Live(j))
    BY <1>1, FS_Subset DEF Live
  <1> QED
    BY <1>2, FS_CardinalityType

LEMMA AdvanceLive ==
    ASSUME TypeInv, NEW i \in Jobs, NEW j \in Jobs, InLoop(j),
           NEW o \in Outcomes, NEW stage \in Stages, Advance(o, j, stage),
           catalog[j][pos[j]] # "complete"
    PROVE Live(i)' = IF i = j /\ Applied(o) /\ stage = "complete"
                     THEN Live(i) \cup {pos[i]} ELSE Live(i)
  <1> USE AdvanceStep, CurrentIsEntry
  <1>1. CASE i # j
    BY <1>1 DEF Live
  <1>2. CASE i = j /\ Applied(o) /\ stage = "complete"
    BY <1>2 DEF Live
  <1>3. CASE i = j /\ ~(Applied(o) /\ stage = "complete")
    <2>1. \A n \in Positions :
            catalog'[i][n] = "complete" <=> catalog[i][n] = "complete"
      BY <1>3
    <2> QED
      BY <2>1, <1>3 DEF Live
  <1> QED
    BY <1>1, <1>2, <1>3

\* No statement but SaveMany makes a listing complete, and none unmakes one.
LEMMA LiveFrame ==
    ASSUME TypeInv, StageInv, [Next]_vars, NEW i \in Jobs,
           \A j \in Jobs : ~SaveStrategies(j)
    PROVE Live(i)' = Live(i)
  <1> USE DEF TypeInv, LoopInv, StageInv, ItemLabels
  <1>1. CASE UNCHANGED catalog
    BY <1>1 DEF Live
  <1>2. ASSUME NEW j \in Jobs, InsertListing(j), catalog' # catalog
        PROVE Live(i)' = Live(i)
    <2>1. PICK o \in Outcomes : Advance(o, j, "listed")
      BY <1>2 DEF InsertListing
    <2>2. InLoop(j) /\ pc[j] = "listing"
      BY <1>2 DEF InsertListing
    <2>3. catalog[j][pos[j]] = "absent"
      BY <2>2, CurrentIsEntry
    <2> QED
      BY <2>1, <2>2, <2>3, AdvanceLive DEF Stages
  <1>3. ASSUME NEW j \in Jobs, InsertScore(j) PROVE Live(i)' = Live(i)
    <2>1. PICK o \in Outcomes : Advance(o, j, "scored")
      BY <1>3 DEF InsertScore
    <2>2. InLoop(j) /\ pc[j] = "score"
      BY <1>3 DEF InsertScore
    <2>3. catalog[j][pos[j]] = "listed"
      BY <2>2, CurrentIsEntry
    <2> QED
      BY <2>1, <2>2, <2>3, AdvanceLive DEF Stages
  <1>4. \/ \E j \in Jobs : InsertListing(j) \/ InsertScore(j)
        \/ UNCHANGED catalog
    BY DEF Next, vars, rows, Crash, Create, Work, ProcessOne, Ingest, Announce,
        MarkProcessing, Review, MarkFailed, MarkCompleted, Reread, LogVerdict,
        Reject, SaveRaw, MarkRawProcessed, MarkRawFailed, IncrementProcessed,
        IncrementFailed
  <1> QED
    BY <1>1, <1>2, <1>3, <1>4

LEMMA LiveGrows ==
    ASSUME TypeInv, StageInv, NEW j \in Jobs, SaveStrategies(j), NEW i \in Jobs
    PROVE /\ i # j => Live(i)' = Live(i)
          /\ \/ Live(j)' = Live(j) /\ pc'[j] = "rawFailed"
             \/ /\ Live(j)' = Live(j) \cup {pos[j]}
                /\ pos[j] \notin Live(j)
                /\ Cardinality(Live(j)') = Cardinality(Live(j)) + 1
  <1>1. PICK o \in Outcomes :
          /\ Advance(o, j, "complete")
          /\ Goto(j, IF Failed(o) THEN "rawFailed" ELSE "rawProcessed")
    BY DEF SaveStrategies
  <1>2. InLoop(j)
    BY DEF SaveStrategies, TypeInv, LoopInv, ItemLabels
  <1>3. catalog[j][pos[j]] = "scored"
    BY <1>2, CurrentIsEntry DEF SaveStrategies, StageInv
  <1>4. pos[j] \notin Live(j)
    BY <1>3 DEF Live
  <1>5. CASE Applied(o)
    <2>1. Live(j)' = Live(j) \cup {pos[j]} /\ (i # j => Live(i)' = Live(i))
      BY <1>1, <1>2, <1>3, <1>5, AdvanceLive DEF Stages
    <2> QED
      BY <1>4, <2>1, LiveFinite, FS_AddElement
  <1>6. CASE ~Applied(o)
    <2>1. Live(j)' = Live(j) /\ (i # j => Live(i)' = Live(i))
      BY <1>1, <1>2, <1>3, <1>6, AdvanceLive DEF Stages
    <2>2. pc'[j] = "rawFailed"
      BY <1>1, <1>6 DEF Goto, Applied, Failed, TypeInv, TypeOK
    <2> QED
      BY <2>1, <2>2
  <1> QED
    BY <1>5, <1>6

-----------------------------------------------------------------------------
(* CountInv *)

LEMMA CountInit == TypeInv /\ Init => CountInv
  <1> SUFFICES ASSUME TypeInv, Init, NEW j \in Jobs
               PROVE /\ job[j].processed + Owed(j) <= Cardinality(Live(j))
                     /\ Counted(j) <= pos[j] - 1
                     /\ pos[j] - 1 <= Counted(j) + faults
    BY DEF CountInv
  <1>1. job[j] = NoRow /\ pos[j] = 1 /\ pc[j] = "idle" /\ faults = 0
    BY DEF Init
  <1> QED
    BY <1>1, LiveFinite DEF NoRow, Owed, Counted

LEMMA CountStep ==
    TypeInv /\ TypeInv' /\ StatusInv /\ StageInv /\ CountInv /\ [Next]_vars
        => CountInv'
  <1> SUFFICES ASSUME TypeInv, TypeInv', StatusInv, StageInv, CountInv,
                      [Next]_vars, NEW i \in Jobs
               PROVE /\ (job[i].processed + Owed(i) <= Cardinality(Live(i)))'
                     /\ (Counted(i) <= pos[i] - 1)'
                     /\ (pos[i] - 1 <= Counted(i) + faults)'
    BY DEF CountInv
  <1> DEFINE Goal == /\ (job[i].processed + Owed(i) <= Cardinality(Live(i)))'
                     /\ (Counted(i) <= pos[i] - 1)'
                     /\ (pos[i] - 1 <= Counted(i) + faults)'
  <1>1. /\ job[i].processed + Owed(i) <= Cardinality(Live(i))
        /\ Counted(i) <= pos[i] - 1
        /\ pos[i] - 1 <= Counted(i) + faults
    BY DEF CountInv
  <1>2. /\ job[i].processed \in Nat /\ job[i].failed \in Nat
        /\ pos[i] \in Nat /\ faults \in Nat /\ faults' \in Nat
        /\ job \in [Jobs -> JobRow] /\ pc \in [Jobs -> Labels]
        /\ pos \in [Jobs -> 1 .. MaxItems + 1]
        /\ Cardinality(Live(i)) \in Nat
    BY LiveFinite, ImportAssumption, SMTT(30) DEF TypeInv, TypeOK, JobRow
  <1>3. ASSUME NEW j \in Jobs, SaveStrategies(j) PROVE Goal
    <2>1. /\ pc[j] = "strategies" /\ UNCHANGED <<job, pos>>
          /\ pc'[j] \in {"rawFailed", "rawProcessed"}
          /\ i # j => pc'[i] = pc[i]
          /\ faults <= faults'
      BY <1>2, <1>3 DEF SaveStrategies, Goto, Call
    <2>2. CASE i # j
      BY <1>1, <1>2, <1>3, <2>1, <2>2, LiveGrows DEF Owed, Counted
    <2>3. CASE i = j
      BY <1>1, <1>2, <1>3, <2>1, <2>3, LiveGrows DEF Owed, Counted
    <2> QED
      BY <2>2, <2>3
  <1>4. CASE \A j \in Jobs : ~SaveStrategies(j)
    <2>1. Live(i)' = Live(i)
      BY <1>4, LiveFrame
    <2> USE <1>1, <1>2, <2>1 DEF Owed, Counted
    <2>2. CASE UNCHANGED vars
      BY <2>2 DEF vars
    <2>3. CASE Crash
      BY <2>3 DEF Crash, rows, Resting
    <2>4. ASSUME NEW j \in Jobs, Create(j) PROVE Goal
      <3>1. pc[j] = "idle" /\ job[j] = NoRow /\ pos' = pos
        BY <2>4 DEF Create, Queued, StatusInv
      <3>2. PICK upload \in Uploads, o \in Outcomes :
              /\ Call(o)
              /\ UpdateJob(o, [job EXCEPT ![j] =
                     [status |-> "queued", total |-> Len(upload),
                      processed |-> 0, failed |-> 0]])
              /\ Goto(j, IF Failed(o) THEN "rejected" ELSE "announce")
        BY <2>4 DEF Create, Queued
      <3>3. job'[i].processed = job[i].processed /\ job'[i].failed = job[i].failed
        BY <3>1, <3>2 DEF UpdateJob, NoRow
      <3>4. faults <= faults'
        BY <3>2 DEF Call
      <3>5. pc'[i] = pc[i] \/ pc'[i] \in {"rejected", "announce"}
        BY <3>2 DEF Goto
      <3> QED
        BY <3>1, <3>3, <3>4, <3>5
    <2>5. ASSUME NEW j \in Jobs, Announce(j) PROVE Goal
      BY <2>5 DEF Announce, Call, Log, Goto
    <2>6. ASSUME NEW j \in Jobs, MarkProcessing(j) PROVE Goal
      BY <2>6, MarkJob DEF MarkProcessing, Call, UpdateJob, Goto, JobStatuses
    <2>7. ASSUME NEW j \in Jobs, Reject(j) PROVE Goal
      BY <2>7 DEF Reject, rows, Goto
    <2>8. ASSUME NEW j \in Jobs, SaveRaw(j) PROVE Goal
      BY <2>8 DEF SaveRaw, Call, UpdateRaw, Goto
    <2>9. ASSUME NEW j \in Jobs, InsertListing(j) PROVE Goal
      BY <2>9 DEF InsertListing, Call, Advance, Goto
    <2>10. ASSUME NEW j \in Jobs, InsertScore(j) PROVE Goal
      BY <2>10 DEF InsertScore, Call, Advance, Goto
    <2>11. ASSUME NEW j \in Jobs, MarkRawProcessed(j) PROVE Goal
      BY <2>11 DEF MarkRawProcessed, Call, UpdateRaw, Goto
    <2>12. ASSUME NEW j \in Jobs, MarkRawFailed(j) PROVE Goal
      BY <2>12 DEF MarkRawFailed, Call, UpdateRaw, Goto
    <2>13. ASSUME NEW j \in Jobs, IncrementProcessed(j) PROVE Goal
      BY <2>13, CountJob DEF IncrementProcessed, NextItem, Call, UpdateJob, Goto, Applied, Failed
    <2>14. ASSUME NEW j \in Jobs, IncrementFailed(j) PROVE Goal
      BY <2>14, CountJob DEF IncrementFailed, NextItem, Call, UpdateJob, Goto, Applied, Failed
    <2>15. ASSUME NEW j \in Jobs, Review(j) PROVE Goal
      BY <2>15 DEF Review, rows, AllFailed, Call, Goto
    <2>16. ASSUME NEW j \in Jobs, MarkFailed(j) PROVE Goal
      BY <2>16, MarkJob DEF MarkFailed, Call, UpdateJob, Goto, JobStatuses
    <2>17. ASSUME NEW j \in Jobs, MarkCompleted(j) PROVE Goal
      BY <2>17, MarkJob DEF MarkCompleted, Call, UpdateJob, Goto, JobStatuses
    <2>18. ASSUME NEW j \in Jobs, Reread(j) PROVE Goal
      BY <2>18 DEF Reread, Counters, rows, Call, Goto
    <2>19. ASSUME NEW j \in Jobs, LogVerdict(j) PROVE Goal
      BY <2>19 DEF LogVerdict, Call, Log, Goto
    <2> QED
      BY <1>4, <2>2, <2>3, <2>4, <2>5, <2>6, <2>7, <2>8, <2>9, <2>10, <2>11, <2>12, <2>13, <2>14, <2>15, <2>16, <2>17, <2>18, <2>19
        DEF Next, Work, ProcessOne, Ingest
  <1> QED
    BY <1>3, <1>4

-----------------------------------------------------------------------------
(* AuditInv *)

\* A goroutine that has ended changes neither its job row nor its place.
LEMMA DoneIsFinal ==
    ASSUME TypeInv, [Next]_vars, NEW i \in Jobs, pc[i] = "done"
    PROVE pc'[i] = "done" /\ job'[i] = job[i]
  <1> USE DEF TypeInv, TypeOK
  <1>1. CASE UNCHANGED vars
    BY <1>1 DEF vars
  <1>2. CASE Crash
    BY <1>2 DEF Crash, rows, Resting
  <1>3. ASSUME NEW j \in Jobs, Create(j) PROVE pc'[i] = "done" /\ job'[i] = job[i]
    BY <1>3 DEF Create, Queued, UpdateJob, Goto
  <1>4. ASSUME NEW j \in Jobs, Announce(j) PROVE pc'[i] = "done" /\ job'[i] = job[i]
    BY <1>4 DEF Announce, Call, Log, Goto
  <1>5. ASSUME NEW j \in Jobs, MarkProcessing(j) PROVE pc'[i] = "done" /\ job'[i] = job[i]
    BY <1>5 DEF MarkProcessing, Call, UpdateJob, Goto
  <1>6. ASSUME NEW j \in Jobs, Reject(j) PROVE pc'[i] = "done" /\ job'[i] = job[i]
    BY <1>6 DEF Reject, rows, Goto
  <1>7. ASSUME NEW j \in Jobs, SaveRaw(j) PROVE pc'[i] = "done" /\ job'[i] = job[i]
    BY <1>7 DEF SaveRaw, Call, UpdateRaw, Goto
  <1>8. ASSUME NEW j \in Jobs, InsertListing(j) PROVE pc'[i] = "done" /\ job'[i] = job[i]
    BY <1>8 DEF InsertListing, Call, Advance, Goto
  <1>9. ASSUME NEW j \in Jobs, InsertScore(j) PROVE pc'[i] = "done" /\ job'[i] = job[i]
    BY <1>9 DEF InsertScore, Call, Advance, Goto
  <1>10. ASSUME NEW j \in Jobs, SaveStrategies(j) PROVE pc'[i] = "done" /\ job'[i] = job[i]
    BY <1>10 DEF SaveStrategies, Call, Advance, Goto
  <1>11. ASSUME NEW j \in Jobs, MarkRawProcessed(j) PROVE pc'[i] = "done" /\ job'[i] = job[i]
    BY <1>11 DEF MarkRawProcessed, Call, UpdateRaw, Goto
  <1>12. ASSUME NEW j \in Jobs, MarkRawFailed(j) PROVE pc'[i] = "done" /\ job'[i] = job[i]
    BY <1>12 DEF MarkRawFailed, Call, UpdateRaw, Goto
  <1>13. ASSUME NEW j \in Jobs, IncrementProcessed(j) PROVE pc'[i] = "done" /\ job'[i] = job[i]
    BY <1>13 DEF IncrementProcessed, NextItem, Call, UpdateJob, Goto
  <1>14. ASSUME NEW j \in Jobs, IncrementFailed(j) PROVE pc'[i] = "done" /\ job'[i] = job[i]
    BY <1>14 DEF IncrementFailed, NextItem, Call, UpdateJob, Goto
  <1>15. ASSUME NEW j \in Jobs, Review(j) PROVE pc'[i] = "done" /\ job'[i] = job[i]
    BY <1>15 DEF Review, rows, AllFailed, Call, Goto
  <1>16. ASSUME NEW j \in Jobs, MarkFailed(j) PROVE pc'[i] = "done" /\ job'[i] = job[i]
    BY <1>16 DEF MarkFailed, Call, UpdateJob, Goto
  <1>17. ASSUME NEW j \in Jobs, MarkCompleted(j) PROVE pc'[i] = "done" /\ job'[i] = job[i]
    BY <1>17 DEF MarkCompleted, Call, UpdateJob, Goto
  <1>18. ASSUME NEW j \in Jobs, Reread(j) PROVE pc'[i] = "done" /\ job'[i] = job[i]
    BY <1>18 DEF Reread, Counters, rows, Call, Goto
  <1>19. ASSUME NEW j \in Jobs, LogVerdict(j) PROVE pc'[i] = "done" /\ job'[i] = job[i]
    BY <1>19 DEF LogVerdict, Call, Log, Goto
  <1> QED
    BY <1>1, <1>2, <1>3, <1>4, <1>5, <1>6, <1>7, <1>8, <1>9, <1>10, <1>11, <1>12, <1>13, <1>14, <1>15, <1>16, <1>17, <1>18, <1>19
      DEF Next, Work, ProcessOne, Ingest

\* The log grows by the entries of Announce and LogVerdict only.
LEMMA AuditGrows ==
    ASSUME [Next]_vars
    PROVE \/ UNCHANGED audit
          \/ \E j \in Jobs : Announce(j) \/ LogVerdict(j)
  BY DEF Next, vars, rows, Crash, Create, Work, ProcessOne, Ingest,
      MarkProcessing, Review, MarkFailed, MarkCompleted, Reread, Reject, SaveRaw,
      InsertListing, InsertScore, SaveStrategies, MarkRawProcessed,
      MarkRawFailed, IncrementProcessed, IncrementFailed

\* What a goroutine read back is what its row still holds when it logs it.
LEMMA SeenStep ==
    ASSUME TypeInv, TypeInv', StatusInv, AuditInv, [Next]_vars, NEW i \in Jobs,
           pc'[i] = "logCompleted"
    PROVE seen'[i].processed = job'[i].processed /\ seen'[i].failed = job'[i].failed
  <1> USE DEF TypeInv, TypeOK, AuditInv
  <1>1. CASE UNCHANGED vars
    BY <1>1 DEF vars
  <1>2. CASE Crash
    BY <1>2 DEF Crash, rows, Resting
  <1>3. ASSUME NEW j \in Jobs, Create(j)
        PROVE seen'[i].processed = job'[i].processed /\ seen'[i].failed = job'[i].failed
    BY <1>3 DEF Create, Queued, UpdateJob, Goto
  <1>4. ASSUME NEW j \in Jobs, Announce(j) PROVE seen'[i].processed = job'[i].processed /\ seen'[i].failed = job'[i].failed
    BY <1>4 DEF Announce, Call, Log, Goto
  <1>5. ASSUME NEW j \in Jobs, MarkProcessing(j) PROVE seen'[i].processed = job'[i].processed /\ seen'[i].failed = job'[i].failed
    BY <1>5 DEF MarkProcessing, Call, UpdateJob, Goto
  <1>6. ASSUME NEW j \in Jobs, Reject(j) PROVE seen'[i].processed = job'[i].processed /\ seen'[i].failed = job'[i].failed
    BY <1>6 DEF Reject, rows, Goto
  <1>7. ASSUME NEW j \in Jobs, SaveRaw(j) PROVE seen'[i].processed = job'[i].processed /\ seen'[i].failed = job'[i].failed
    BY <1>7 DEF SaveRaw, Call, UpdateRaw, Goto
  <1>8. ASSUME NEW j \in Jobs, InsertListing(j) PROVE seen'[i].processed = job'[i].processed /\ seen'[i].failed = job'[i].failed
    BY <1>8 DEF InsertListing, Call, Advance, Goto
  <1>9. ASSUME NEW j \in Jobs, InsertScore(j) PROVE seen'[i].processed = job'[i].processed /\ seen'[i].failed = job'[i].failed
    BY <1>9 DEF InsertScore, Call, Advance, Goto
  <1>10. ASSUME NEW j \in Jobs, SaveStrategies(j) PROVE seen'[i].processed = job'[i].processed /\ seen'[i].failed = job'[i].failed
    BY <1>10 DEF SaveStrategies, Call, Advance, Goto
  <1>11. ASSUME NEW j \in Jobs, MarkRawProcessed(j) PROVE seen'[i].processed = job'[i].processed /\ seen'[i].failed = job'[i].failed
    BY <1>11 DEF MarkRawProcessed, Call, UpdateRaw, Goto
  <1>12. ASSUME NEW j \in Jobs, MarkRawFailed(j) PROVE seen'[i].processed = job'[i].processed /\ seen'[i].failed = job'[i].failed
    BY <1>12 DEF MarkRawFailed, Call, UpdateRaw, Goto
  <1>13. ASSUME NEW j \in Jobs, IncrementProcessed(j) PROVE seen'[i].processed = job'[i].processed /\ seen'[i].failed = job'[i].failed
    BY <1>13 DEF IncrementProcessed, NextItem, Call, UpdateJob, Goto
  <1>14. ASSUME NEW j \in Jobs, IncrementFailed(j) PROVE seen'[i].processed = job'[i].processed /\ seen'[i].failed = job'[i].failed
    BY <1>14 DEF IncrementFailed, NextItem, Call, UpdateJob, Goto
  <1>15. ASSUME NEW j \in Jobs, Review(j) PROVE seen'[i].processed = job'[i].processed /\ seen'[i].failed = job'[i].failed
    BY <1>15 DEF Review, rows, AllFailed, Call, Goto
  <1>16. ASSUME NEW j \in Jobs, MarkFailed(j) PROVE seen'[i].processed = job'[i].processed /\ seen'[i].failed = job'[i].failed
    BY <1>16 DEF MarkFailed, Call, UpdateJob, Goto
  <1>17. ASSUME NEW j \in Jobs, MarkCompleted(j) PROVE seen'[i].processed = job'[i].processed /\ seen'[i].failed = job'[i].failed
    BY <1>17 DEF MarkCompleted, Call, UpdateJob, Goto
  <1>18. ASSUME NEW j \in Jobs, Reread(j) PROVE seen'[i].processed = job'[i].processed /\ seen'[i].failed = job'[i].failed
    BY <1>18 DEF Reread, Counters, rows, Call, Goto
  <1>19. ASSUME NEW j \in Jobs, LogVerdict(j) PROVE seen'[i].processed = job'[i].processed /\ seen'[i].failed = job'[i].failed
    BY <1>19 DEF LogVerdict, Call, Log, Goto
  <1> QED
    BY <1>1, <1>2, <1>3, <1>4, <1>5, <1>6, <1>7, <1>8, <1>9, <1>10, <1>11, <1>12, <1>13, <1>14, <1>15, <1>16, <1>17, <1>18, <1>19
      DEF Next, Work, ProcessOne, Ingest

LEMMA AuditInit == Init => AuditInv
  BY DEF Init, AuditInv, AuditAgreesWithJob

LEMMA AuditStep ==
    TypeInv /\ TypeInv' /\ StatusInv /\ AuditInv /\ [Next]_vars => AuditInv'
  <1> SUFFICES ASSUME TypeInv, TypeInv', StatusInv, AuditInv, [Next]_vars
               PROVE AuditInv'
    OBVIOUS
  <1>1. \A e \in audit : e.job \in Jobs
    BY DEF TypeInv, TypeOK, Entries
  <1>2. \A j \in Jobs : pc'[j] = "logCompleted" =>
          seen'[j].processed = job'[j].processed /\ seen'[j].failed = job'[j].failed
    BY SeenStep
  <1>3. \A e \in audit : e.action # "import.started" =>
          pc[e.job] = "done" /\ pc'[e.job] = "done" /\ job'[e.job] = job[e.job]
    BY <1>1, DoneIsFinal DEF AuditInv
  <1>4. CASE UNCHANGED audit
    BY <1>2, <1>3, <1>4 DEF AuditInv, AuditAgreesWithJob
  <1>5. ASSUME NEW j \in Jobs, Announce(j) PROVE AuditInv'
    <2>1. audit' \subseteq audit \cup {Record(j, "import.started", NoCounts)}
      BY <1>5 DEF Announce, Log
    <2> QED
      BY <1>2, <1>3, <2>1 DEF AuditInv, AuditAgreesWithJob, Record
  <1>6. ASSUME NEW j \in Jobs, LogVerdict(j) PROVE AuditInv'
    <2>1. pc[j] # "done" /\ pc'[j] = "done" /\ job' = job
      BY <1>6 DEF LogVerdict, Goto, TypeInv, TypeOK
    <2>2. \A e \in audit : e.action # "import.started" => e.job # j
      BY <2>1, <1>3
    <2>3. CASE pc[j] = "logFailed"
      <3>1. audit' \subseteq audit \cup {Record(j, "import.failed", NoCounts)}
        BY <1>6, <2>3 DEF LogVerdict, Log
      <3> QED
        BY <1>2, <1>3, <2>1, <2>2, <3>1 DEF AuditInv, AuditAgreesWithJob, Record
    <2>4. CASE pc[j] = "logCompleted"
      <3>1. audit' \subseteq audit \cup {Record(j, "import.completed", seen[j])}
        BY <1>6, <2>4 DEF LogVerdict, Log
      <3>2. /\ job[j].status = "completed"
            /\ seen[j].processed = job[j].processed
            /\ seen[j].failed = job[j].failed
        BY <2>4 DEF StatusInv, AuditInv
      <3>3. Record(j, "import.failed", NoCounts) \notin audit'
        BY <2>2, <3>1 DEF Record
      <3> QED
        BY <1>2, <1>3, <2>1, <2>2, <3>1, <3>2, <3>3
          DEF AuditInv, AuditAgreesWithJob, Record
    <2> QED
      BY <1>6, <2>3, <2>4 DEF LogVerdict
  <1> QED
    BY <1>4, <1>5, <1>6, AuditGrows

-----------------------------------------------------------------------------
(* The theorems *)

\* The inductive invariant holds in every reachable state.
THEOREM Inductive == Spec => []PipelineInv
  <1>1. Init => PipelineInv
    BY TypeInit, StatusInit, StageInit, CountInit, AuditInit
      DEF PipelineInv, TypeInv
  <1>2. PipelineInv /\ [Next]_vars => PipelineInv'
    <2> SUFFICES ASSUME PipelineInv, [Next]_vars PROVE PipelineInv'
      OBVIOUS
    <2>1. TypeInv /\ TypeInv'
      BY TypeStep DEF PipelineInv, TypeInv
    <2> QED
      BY <2>1, StatusStep, StageStep, CountStep, AuditStep DEF PipelineInv, TypeInv
  <1> QED
    BY <1>1, <1>2, PTL DEF Spec

\* A job never counts as processed more items than it has put in the catalogue
\* with every score.
THEOREM ProcessedLive == Spec => []ProcessedAreLive
  <1>1. PipelineInv => ProcessedAreLive
    <2> SUFFICES ASSUME PipelineInv, NEW j \in Jobs
                 PROVE job[j].processed <= Cardinality(Live(j))
      BY DEF ProcessedAreLive
    <2>1. job[j].processed \in Nat /\ Cardinality(Live(j)) \in Nat
      BY LiveFinite DEF PipelineInv, TypeOK, JobRow
    <2> QED
      BY <2>1 DEF PipelineInv, CountInv, Owed
  <1> QED
    BY Inductive, <1>1, PTL

\* The counters account for every item the loop has passed, but for at most one
\* per statement that returned an error.
THEOREM CountsMissOnlyFaults == Spec => []MissingCountsAreFaults
  <1>1. PipelineInv => MissingCountsAreFaults
    <2> SUFFICES ASSUME PipelineInv, NEW j \in Jobs
                 PROVE pos[j] - 1 - Counted(j) \in 0 .. faults
      BY DEF MissingCountsAreFaults
    <2>1. /\ job[j].processed \in Nat /\ job[j].failed \in Nat
          /\ pos[j] \in Nat /\ faults \in Nat
      BY ImportAssumption DEF PipelineInv, TypeOK, JobRow
    <2> QED
      BY <2>1 DEF PipelineInv, CountInv, Counted
  <1> QED
    BY Inductive, <1>1, PTL

\* A job shown as completed has delivered something, or every one of its items
\* met a fault.
THEOREM CompletedDelivered == Spec => []CompletedMeansDelivered
  <1>1. PipelineInv => CompletedMeansDelivered
    <2> SUFFICES ASSUME PipelineInv, NEW j \in Jobs, job[j].status = "completed",
                        Live(j) = {}
                 PROVE faults >= job[j].total
      BY DEF CompletedMeansDelivered
    <2>1. /\ job[j].processed \in Nat /\ job[j].failed \in Nat
          /\ job[j].total \in Nat /\ pos[j] \in Nat /\ faults \in Nat
      BY ImportAssumption DEF PipelineInv, TypeOK, JobRow
    <2>2. job[j].processed = 0
      <3>1. Cardinality(Live(j)) = 0
        BY FS_EmptySet
      <3>2. job[j].processed + Owed(j) <= Cardinality(Live(j))
        BY DEF PipelineInv, CountInv
      <3> QED
        BY <2>1, <3>1, <3>2 DEF Owed
    <2>3. job[j].failed = 0 /\ pos[j] = job[j].total + 1
      BY <2>1, <2>2 DEF PipelineInv, StatusInv
    <2> QED
      BY <2>1, <2>2, <2>3 DEF PipelineInv, CountInv, Counted
  <1> QED
    BY Inductive, <1>1, PTL

\* An import.completed entry tells the row's final counters, and no job has an
\* import.failed entry beside it.
THEOREM AuditTrue == Spec => []AuditAgreesWithJob
  <1>1. PipelineInv => AuditAgreesWithJob
    BY DEF PipelineInv, AuditInv
  <1> QED
    BY Inductive, <1>1, PTL

-----------------------------------------------------------------------------
(* ImportPipeline implements JobLedger *)

LEMMA LedgerInit == Init => Ledger!Init
  <1> SUFFICES ASSUME Init PROVE Ledger!Init
    OBVIOUS
  <1>1. \A j \in Jobs : Live(j) = {}
    BY DEF Init, Live
  <1>2. \A j \in Jobs : Cardinality(Live(j)) = 0
    BY <1>1, FS_EmptySet
  <1>3. \A j \in Jobs : job[j] = NoRow
    BY DEF Init
  <1> QED
    BY <1>2, <1>3 DEF Ledger!Init, NoRow

\* The statements that write import_jobs.
LEMMA JobWriters ==
    ASSUME [Next]_vars
    PROVE \/ UNCHANGED job
          \/ \E j \in Jobs : \/ Create(j) \/ MarkProcessing(j)
                            \/ IncrementProcessed(j) \/ IncrementFailed(j)
                            \/ MarkFailed(j) \/ MarkCompleted(j)
  BY DEF Next, vars, rows, Crash, Work, ProcessOne, Ingest, Announce, Review,
      Reread, LogVerdict, Reject, SaveRaw, InsertListing, InsertScore,
      SaveStrategies, MarkRawProcessed, MarkRawFailed

\* An upload never puts more listings into the catalogue than it has items.
LEMMA LiveWithinUpload ==
    ASSUME TypeInv, StageInv, NEW j \in Jobs, InLoop(j)
    PROVE Cardinality(Live(j) \cup {pos[j]}) <= Len(payload[j])
  <1>1. Len(payload[j]) \in Positions /\ pos[j] \in Positions
    BY CurrentIsEntry
  <1>2. Len(payload[j]) \in Nat /\ pos[j] \in 1 .. Len(payload[j])
    BY <1>1, ImportAssumption DEF Positions, InLoop
  <1>3. Live(j) \cup {pos[j]} \subseteq 1 .. Len(payload[j])
    BY <1>1, <1>2, ImportAssumption DEF StageInv, Live, Positions
  <1>4. /\ IsFiniteSet(1 .. Len(payload[j]))
        /\ Cardinality(1 .. Len(payload[j])) = Len(payload[j])
    BY <1>2, FS_Interval
  <1> QED
    BY <1>3, <1>4, FS_Subset

LEMMA LedgerStep ==
    PipelineInv /\ PipelineInv' /\ [Next]_vars => [Ledger!Next]_(Ledger!vars)
  <1> SUFFICES ASSUME PipelineInv, PipelineInv', [Next]_vars
               PROVE [Ledger!Next]_(Ledger!vars)
    OBVIOUS
  <1>1. TypeInv /\ TypeInv' /\ job \in [Jobs -> JobRow]
    BY DEF PipelineInv, TypeInv, TypeOK
  <1>2. ASSUME NEW j \in Jobs, SaveStrategies(j)
        PROVE [Ledger!Next]_(Ledger!vars)
    <2>1. job' = job /\ payload' = payload /\ pc[j] = "strategies"
      BY <1>2 DEF SaveStrategies
    <2>2. \A i \in Jobs \ {j} : Live(i)' = Live(i)
      BY <1>1, <1>2, LiveGrows DEF PipelineInv
    <2>3. CASE Live(j)' = Live(j)
      BY <2>1, <2>2, <2>3 DEF Ledger!vars
    <2>4. CASE /\ Live(j)' = Live(j) \cup {pos[j]}
               /\ Cardinality(Live(j)') = Cardinality(Live(j)) + 1
      <3>1. InLoop(j) /\ job[j].status = "processing"
            /\ job[j].total = Len(payload[j])
        BY <2>1 DEF PipelineInv, LoopInv, StatusInv, ItemLabels
      <3>2. Cardinality(Live(j)') <= Len(payload[j])
        BY <1>1, <2>4, <3>1, LiveWithinUpload DEF PipelineInv
      <3>3. Cardinality(Live(j)) \in Nat /\ job[j].total \in Nat
        BY <1>1, LiveFinite, ImportAssumption DEF JobRow
      <3>4. Cardinality(Live(j)) < job[j].total
        BY <2>4, <3>1, <3>2, <3>3
      <3>5. [i \in Jobs |-> Cardinality(Live(i)')] =
              [[i \in Jobs |-> Cardinality(Live(i))] EXCEPT ![j] = @ + 1]
        BY <2>2, <2>4
      <3>6. Ledger!Deliver(j)
        BY <2>1, <3>1, <3>4, <3>5 DEF Ledger!Deliver
      <3> QED
        BY <3>6 DEF Ledger!Next
    <2> QED
      BY <1>1, <1>2, <2>3, <2>4, LiveGrows DEF PipelineInv
  <1>3. CASE \A j \in Jobs : ~SaveStrategies(j)
    <2>1. \A i \in Jobs : Live(i)' = Live(i)
      BY <1>1, <1>3, LiveFrame DEF PipelineInv
    <2>2. [i \in Jobs |-> Cardinality(Live(i)')] =
            [i \in Jobs |-> Cardinality(Live(i))]
      BY <2>1
    <2>3. CASE job' = job
      BY <2>2, <2>3 DEF Ledger!vars
    <2>4. ASSUME NEW j \in Jobs, Create(j), job' # job PROVE Ledger!Open(j)
      <3>1. PICK upload \in Uploads : job' = [job EXCEPT ![j] =
                [status |-> "queued", total |-> Len(upload),
                 processed |-> 0, failed |-> 0]]
        BY <2>4 DEF Create, Queued, UpdateJob
      <3>2. job[j] = NoRow /\ Len(upload) \in 1 .. MaxItems
        BY <2>4, UploadShape DEF Create, Queued, PipelineInv, StatusInv, Positions
      <3>4. [i \in Jobs |-> job'[i].status] =
              [[i \in Jobs |-> job[i].status] EXCEPT ![j] = "queued"]
        BY <1>1, <3>1, <3>2 DEF NoRow
      <3>5. [i \in Jobs |-> job'[i].total] =
              [[i \in Jobs |-> job[i].total] EXCEPT ![j] = Len(upload)]
        BY <1>1, <3>1, <3>2 DEF NoRow
      <3>6. [i \in Jobs |-> job'[i].processed] = [i \in Jobs |-> job[i].processed]
        BY <1>1, <3>1, <3>2 DEF NoRow
      <3>7. [i \in Jobs |-> job'[i].failed] = [i \in Jobs |-> job[i].failed]
        BY <1>1, <3>1, <3>2 DEF NoRow
      <3>8. Ledger!Move(j, {"none"}, "queued")
        BY <2>2, <3>2, <3>4, <3>6, <3>7 DEF Ledger!Move, NoRow
      <3>9. \E n \in 1 .. MaxItems :
              [i \in Jobs |-> job'[i].total] =
                  [[i \in Jobs |-> job[i].total] EXCEPT ![j] = n]
        BY <3>2, <3>5
      <3> QED
        BY <3>8, <3>9 DEF Ledger!Open
    <2>5. ASSUME NEW j \in Jobs, MarkProcessing(j), job' # job
          PROVE Ledger!Begin(j)
      <3>1. job' = [job EXCEPT ![j] = Mark(@, "processing")]
        BY <2>5 DEF MarkProcessing, UpdateJob
      <3>2. job[j].status = "queued"
        BY <2>5 DEF MarkProcessing, PipelineInv, StatusInv
      <3>4. [i \in Jobs |-> job'[i].status] =
              [[i \in Jobs |-> job[i].status] EXCEPT ![j] = "processing"]
        BY <1>1, <3>1, <3>2, MarkJob DEF JobStatuses
      <3>5. [i \in Jobs |-> job'[i].total] = [i \in Jobs |-> job[i].total]
        BY <1>1, <3>1, <3>2, MarkJob DEF JobStatuses
      <3>6. [i \in Jobs |-> job'[i].processed] = [i \in Jobs |-> job[i].processed]
        BY <1>1, <3>1, <3>2, MarkJob DEF JobStatuses
      <3>7. [i \in Jobs |-> job'[i].failed] = [i \in Jobs |-> job[i].failed]
        BY <1>1, <3>1, <3>2, MarkJob DEF JobStatuses
      <3> QED
        BY <2>2, <3>2, <3>4, <3>5, <3>6, <3>7 DEF Ledger!Begin, Ledger!Move
    <2>6. ASSUME NEW j \in Jobs, MarkFailed(j), job' # job
          PROVE Ledger!Fail(j)
      <3>1. job' = [job EXCEPT ![j] = Mark(@, "failed")]
        BY <2>6 DEF MarkFailed, UpdateJob
      <3>2. job[j].status \in {"queued", "processing"}
        BY <2>6 DEF MarkFailed, PipelineInv, StatusInv
      <3>4. [i \in Jobs |-> job'[i].status] =
              [[i \in Jobs |-> job[i].status] EXCEPT ![j] = "failed"]
        BY <1>1, <3>1, <3>2, MarkJob DEF JobStatuses
      <3>5. [i \in Jobs |-> job'[i].total] = [i \in Jobs |-> job[i].total]
        BY <1>1, <3>1, <3>2, MarkJob DEF JobStatuses
      <3>6. [i \in Jobs |-> job'[i].processed] = [i \in Jobs |-> job[i].processed]
        BY <1>1, <3>1, <3>2, MarkJob DEF JobStatuses
      <3>7. [i \in Jobs |-> job'[i].failed] = [i \in Jobs |-> job[i].failed]
        BY <1>1, <3>1, <3>2, MarkJob DEF JobStatuses
      <3> QED
        BY <2>2, <3>2, <3>4, <3>5, <3>6, <3>7 DEF Ledger!Fail, Ledger!Move
    <2>7. ASSUME NEW j \in Jobs, MarkCompleted(j), job' # job
          PROVE Ledger!Complete(j)
      <3>1. job' = [job EXCEPT ![j] = Mark(@, "completed")]
        BY <2>7 DEF MarkCompleted, UpdateJob
      <3>2. /\ job[j].status = "processing"
            /\ job[j].failed > 0 => job[j].processed > 0
        BY <2>7 DEF MarkCompleted, PipelineInv, StatusInv
      <3>4. [i \in Jobs |-> job'[i].status] =
              [[i \in Jobs |-> job[i].status] EXCEPT ![j] = "completed"]
        BY <1>1, <3>1, <3>2, MarkJob DEF JobStatuses
      <3>5. [i \in Jobs |-> job'[i].total] = [i \in Jobs |-> job[i].total]
        BY <1>1, <3>1, <3>2, MarkJob DEF JobStatuses
      <3>6. [i \in Jobs |-> job'[i].processed] = [i \in Jobs |-> job[i].processed]
        BY <1>1, <3>1, <3>2, MarkJob DEF JobStatuses
      <3>7. [i \in Jobs |-> job'[i].failed] = [i \in Jobs |-> job[i].failed]
        BY <1>1, <3>1, <3>2, MarkJob DEF JobStatuses
      <3> QED
        BY <2>2, <3>2, <3>4, <3>5, <3>6, <3>7 DEF Ledger!Complete, Ledger!Move
    <2>8. ASSUME NEW j \in Jobs, pc[j] \in {"countProcessed", "countFailed"}
          PROVE /\ job[j].status = "processing"
                /\ job[j].processed + job[j].failed < job[j].total
                /\ pc[j] = "countProcessed" =>
                      job[j].processed < Cardinality(Live(j))
      <3>1. /\ job[j].processed \in Nat /\ job[j].failed \in Nat
            /\ job[j].total \in Nat /\ pos[j] \in Nat
            /\ Cardinality(Live(j)) \in Nat
        BY LiveFinite, ImportAssumption DEF PipelineInv, TypeOK, JobRow
      <3>2. /\ job[j].status = "processing"
            /\ pos[j] <= Len(payload[j]) /\ job[j].total = Len(payload[j])
        BY <2>8 DEF PipelineInv, LoopInv, StatusInv, InLoop, ItemLabels
      <3> QED
        BY <2>8, <3>1, <3>2, SMTT(30) DEF PipelineInv, CountInv, Counted, Owed
    <2>9. ASSUME NEW j \in Jobs, IncrementProcessed(j), job' # job
          PROVE Ledger!CountProcessed(j)
      <3>1. /\ job' = [job EXCEPT ![j] = AddProcessed(@)]
            /\ pc[j] = "countProcessed"
        BY <2>9 DEF IncrementProcessed, UpdateJob
      <3>2. /\ job[j].status = "processing"
            /\ job[j].processed + job[j].failed < job[j].total
            /\ job[j].processed < Cardinality(Live(j))
        BY <2>8, <3>1
      <3>4. [i \in Jobs |-> job'[i].status] = [i \in Jobs |-> job[i].status]
        BY <1>1, <3>1, <3>2, CountJob
      <3>5. [i \in Jobs |-> job'[i].total] = [i \in Jobs |-> job[i].total]
        BY <1>1, <3>1, <3>2, CountJob
      <3>6. [i \in Jobs |-> job'[i].processed] =
              [[i \in Jobs |-> job[i].processed] EXCEPT ![j] = @ + 1]
        BY <1>1, <3>1, <3>2, CountJob
      <3>7. [i \in Jobs |-> job'[i].failed] = [i \in Jobs |-> job[i].failed]
        BY <1>1, <3>1, <3>2, CountJob
      <3> QED
        BY <2>2, <3>2, <3>4, <3>5, <3>6, <3>7 DEF Ledger!CountProcessed
    <2>10. ASSUME NEW j \in Jobs, IncrementFailed(j), job' # job
          PROVE Ledger!CountFailed(j)
      <3>1. /\ job' = [job EXCEPT ![j] = AddFailed(@)]
            /\ pc[j] = "countFailed"
        BY <2>10 DEF IncrementFailed, UpdateJob
      <3>2. /\ job[j].status = "processing"
            /\ job[j].processed + job[j].failed < job[j].total
        BY <2>8, <3>1
      <3>4. [i \in Jobs |-> job'[i].status] = [i \in Jobs |-> job[i].status]
        BY <1>1, <3>1, <3>2, CountJob
      <3>5. [i \in Jobs |-> job'[i].total] = [i \in Jobs |-> job[i].total]
        BY <1>1, <3>1, <3>2, CountJob
      <3>6. [i \in Jobs |-> job'[i].processed] = [i \in Jobs |-> job[i].processed]
        BY <1>1, <3>1, <3>2, CountJob
      <3>7. [i \in Jobs |-> job'[i].failed] =
              [[i \in Jobs |-> job[i].failed] EXCEPT ![j] = @ + 1]
        BY <1>1, <3>1, <3>2, CountJob
      <3> QED
        BY <2>2, <3>2, <3>4, <3>5, <3>6, <3>7 DEF Ledger!CountFailed
    <2> QED
      BY <2>3, <2>4, <2>5, <2>6, <2>7, <2>9, <2>10, JobWriters DEF Ledger!Next
  <1> QED
    BY <1>2, <1>3

\* The pipeline implements the ledger a poller is promised: counters that only
\* grow and stay within the upload, a verdict that never changes, no processed
\* item that is not live.
THEOREM Refinement == Spec => LedgerSpec
  BY LedgerInit, LedgerStep, Inductive, PTL DEF Spec, LedgerSpec, Ledger!Spec
=============================================================================
