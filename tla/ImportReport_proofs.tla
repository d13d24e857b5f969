------------------------- MODULE ImportReport_proofs -------------------------
(***************************************************************************)
(* More theorems about ImportPipeline, for any set of jobs, any set of     *)
(* keys and any values of the bounds: how much work an upload can cost,    *)
(* what a goroutine that ends without a verdict leaves behind, whom the    *)
(* verdict of a raw_listings row is about, and the report of an upload     *)
(* that meets no fault.  They rest on the inductive invariant of           *)
(* ImportPipeline_proofs.                                                  *)
(***************************************************************************)
EXTENDS ImportPipeline_proofs

\* A goroutine touches the row, the listings and the variables of its own
\* upload.
LEMMA OthersKept ==
    ASSUME TypeInv, NEW j \in Jobs, Create(j) \/ Work(j),
           NEW i \in Jobs, i # j
    PROVE /\ job'[i] = job[i]
          /\ pc'[i] = pc[i]
          /\ payload'[i] = payload[i]
          /\ pos'[i] = pos[i]
          /\ catalog'[i] = catalog[i]
          /\ seen'[i] = seen[i]
  <1> USE DEF TypeInv, TypeOK, Goto, UpdateJob, Advance, NextItem, rows
  <1>1. CASE Create(j)
    BY <1>1 DEF Create
  <1>2. CASE Announce(j) \/ MarkProcessing(j)
    BY <1>2 DEF Announce, MarkProcessing
  <1>3. CASE Reject(j) \/ SaveRaw(j)
    BY <1>3 DEF Reject, SaveRaw
  <1>4. CASE Ingest(j)
    BY <1>4 DEF Ingest, InsertListing, InsertScore, SaveStrategies
  <1>5. CASE MarkRawProcessed(j) \/ MarkRawFailed(j)
    BY <1>5 DEF MarkRawProcessed, MarkRawFailed
  <1>6. CASE IncrementProcessed(j) \/ IncrementFailed(j)
    BY <1>6 DEF IncrementProcessed, IncrementFailed
  <1>7. CASE Review(j) \/ Reread(j)
    BY <1>7 DEF Review, Reread
  <1>8. CASE MarkFailed(j) \/ MarkCompleted(j)
    BY <1>8 DEF MarkFailed, MarkCompleted
  <1>9. CASE LogVerdict(j)
    BY <1>9 DEF LogVerdict
  <1> QED
    BY <1>1, <1>2, <1>3, <1>4, <1>5, <1>6, <1>7, <1>8, <1>9
      DEF Work, ProcessOne

\* Faults are never forgotten, and a statement that returns an error is one.
LEMMA CallCounts ==
    ASSUME TypeInv, NEW o \in Outcomes, Call(o)
    PROVE /\ faults \in Nat /\ faults' \in Nat
          /\ faults <= faults'
          /\ Failed(o) => faults' = faults + 1
          /\ faults' = 0 => o = "ok" /\ faults = 0
  BY ImportAssumption DEF TypeInv, TypeOK, Call, Failed, Outcomes

-----------------------------------------------------------------------------
(* StatementsAreBounded *)

\* Where a goroutine is in its upload.
LEMMA PlaceInUpload ==
    ASSUME TypeInv, NEW j \in Jobs
    PROVE /\ pos[j] \in Nat /\ Len(payload[j]) \in Nat
          /\ pos[j] <= Len(payload[j]) + 1
          /\ pc[j] \in ItemLabels => pos[j] <= Len(payload[j])
          /\ pc[j] \in Labels
  <1>1. CASE payload[j] = <<>>
    BY <1>1, ImportAssumption DEF TypeInv, TypeOK, LoopInv, InLoop
  <1>2. CASE payload[j] \in Uploads
    BY <1>2, UploadShape, ImportAssumption
      DEF TypeInv, TypeOK, LoopInv, InLoop, Positions
  <1> QED
    BY <1>1, <1>2 DEF TypeInv, TypeOK

LEMMA StepsLeftIsNat ==
    ASSUME TypeInv, NEW j \in Jobs
    PROVE StepsLeft(j) \in Nat
  <1> DEFINE left == Len(payload[j]) - pos[j]
  <1>1. left \in Int /\ left >= -1 /\ pc[j] \in Labels
        /\ (pc[j] \in ItemLabels => left >= 0)
    BY PlaceInUpload
  <1>2. StepsLeft(j) = Ahead(pc[j], left)
    BY DEF StepsLeft
  <1> HIDE DEF left
  <1> QED
    BY <1>1, <1>2 DEF Ahead, Labels, ItemLabels

\* Every statement of a goroutine, and its decisions, bring it nearer to its end.
LEMMA WorkNearsEnd ==
    ASSUME TypeInv, NEW j \in Jobs, Work(j)
    PROVE StepsLeft(j)' \in Int /\ StepsLeft(j)' < StepsLeft(j)
  <1> DEFINE left == Len(payload[j]) - pos[j]
             next == Len(payload'[j]) - pos'[j]
  <1>1. /\ left \in Int /\ left >= -1
        /\ pc[j] \in ItemLabels => left >= 0
        /\ ~InLoop(j) => left = -1
    BY PlaceInUpload DEF InLoop
  <1>2. StepsLeft(j) = Ahead(pc[j], left) /\ StepsLeft(j)' = Ahead(pc'[j], next)
    BY DEF StepsLeft
  <1>3. UNCHANGED <<payload, pos>> => next = left
    OBVIOUS
  <1>4. UNCHANGED payload /\ pos'[j] = pos[j] + 1 => next = left - 1
    BY PlaceInUpload
  <1> HIDE DEF left, next
  <1>0. pc \in [Jobs -> Labels] /\ pos \in [Jobs -> 1 .. MaxItems + 1]
    BY DEF TypeInv, TypeOK
  <1>5. CASE Announce(j) \/ MarkProcessing(j)
    <2>1. /\ UNCHANGED <<payload, pos>>
          /\ \/ pc[j] = "announce" /\ pc'[j] = "begin"
             \/ pc[j] = "begin" /\ pc'[j] \in {"item", "fail"}
      BY <1>0, <1>5 DEF Goto, Announce, MarkProcessing
    <2> QED
      BY <1>1, <1>2, <1>3, <2>1 DEF Ahead
  <1>6. CASE Reject(j) \/ SaveRaw(j)
    <2>1. /\ UNCHANGED <<payload, pos>>
          /\ pc[j] = "item" /\ pc'[j] \in {"countFailed", "listing"}
      BY <1>0, <1>6 DEF Goto, Reject, SaveRaw
    <2> QED
      BY <1>1, <1>2, <1>3, <2>1 DEF Ahead
  <1>7. CASE Ingest(j)
    <2>1. /\ UNCHANGED <<payload, pos>>
          /\ \/ pc[j] = "listing" /\ pc'[j] \in {"rawFailed", "score"}
             \/ pc[j] = "score" /\ pc'[j] \in {"rawFailed", "strategies"}
             \/ pc[j] = "strategies" /\ pc'[j] \in {"rawFailed", "rawProcessed"}
      BY <1>0, <1>7 DEF Goto, Ingest, InsertListing, InsertScore, SaveStrategies
    <2> QED
      BY <1>1, <1>2, <1>3, <2>1 DEF Ahead
  <1>8. CASE MarkRawProcessed(j) \/ MarkRawFailed(j)
    <2>1. /\ UNCHANGED <<payload, pos>>
          /\ pc[j] \in {"rawProcessed", "rawFailed"}
          /\ pc'[j] \in {"countProcessed", "countFailed"}
      BY <1>0, <1>8 DEF Goto, MarkRawProcessed, MarkRawFailed
    <2> QED
      BY <1>1, <1>2, <1>3, <2>1 DEF Ahead
  <1>9. CASE IncrementProcessed(j) \/ IncrementFailed(j)
    <2>1. /\ pc[j] \in {"countProcessed", "countFailed"} /\ pc'[j] = "item"
          /\ UNCHANGED payload /\ pos'[j] = pos[j] + 1
      BY <1>0, <1>9 DEF Goto, IncrementProcessed, IncrementFailed, NextItem
    <2>2. next = left - 1
      BY <1>4, <2>1
    <2> QED
      BY <1>1, <1>2, <2>1, <2>2 DEF Ahead
  <1>10. CASE Review(j)
    <2>1. /\ UNCHANGED <<payload, pos>> /\ ~InLoop(j)
          /\ pc[j] = "item" /\ pc'[j] \in {"fail", "complete"}
      BY <1>0, <1>10 DEF Goto, Review
    <2> QED
      BY <1>1, <1>2, <1>3, <2>1 DEF Ahead
  <1>11. CASE MarkFailed(j) \/ MarkCompleted(j) \/ Reread(j) \/ LogVerdict(j)
    <2>1. \/ pc[j] = "fail" /\ pc'[j] = "logFailed"
          \/ pc[j] = "complete" /\ pc'[j] \in {"logFailed", "reread"}
          \/ pc[j] = "reread" /\ pc'[j] \in {"logFailed", "logCompleted"}
          \/ pc[j] \in {"logFailed", "logCompleted"} /\ pc'[j] = "done"
      BY <1>0, <1>11 DEF Goto, MarkFailed, MarkCompleted, Reread, LogVerdict
    <2> QED
      BY <1>2, <2>1 DEF Ahead
  <1> QED
    BY <1>5, <1>6, <1>7, <1>8, <1>9, <1>10, <1>11 DEF Work, ProcessOne

LEMMA NearsEnd ==
    TypeInv /\ [Next]_vars =>
        [\A j \in Jobs :
            /\ Work(j) => StepsLeft(j)' < StepsLeft(j)
            /\ pc[j] # "idle" => StepsLeft(j)' <= StepsLeft(j)
            /\ pc[j] = "idle" => StepsLeft(j)' <= 6 * Len(payload'[j]) + 6]_vars
  <1> SUFFICES ASSUME TypeInv, Next, NEW j \in Jobs
               PROVE /\ Work(j) => StepsLeft(j)' < StepsLeft(j)
                     /\ pc[j] # "idle" => StepsLeft(j)' <= StepsLeft(j)
                     /\ pc[j] = "idle" => StepsLeft(j)' <= 6 * Len(payload'[j]) + 6
    OBVIOUS
  <1>1. Work(j) => StepsLeft(j)' \in Int /\ StepsLeft(j)' < StepsLeft(j)
    BY WorkNearsEnd
  <1>2. /\ StepsLeft(j) \in Nat /\ pos[j] \in Nat /\ Len(payload[j]) \in Nat
        /\ pc[j] = "idle" => pos[j] = 1 /\ StepsLeft(j) = 0
    BY StepsLeftIsNat, PlaceInUpload DEF StepsLeft, Ahead, TypeInv, LoopInv
  <1>3. CASE Create(j)
    <2>1. pc[j] = "idle" /\ pos'[j] = 1 /\ pc'[j] \in {"announce", "rejected"}
      BY <1>2, <1>3 DEF Create, Goto, TypeInv, TypeOK
    <2>2. PICK upload \in Uploads : payload'[j] = upload
      BY <1>3 DEF Create, TypeInv, TypeOK
    <2>3. Len(payload'[j]) \in Nat /\ Len(payload'[j]) - 1 \in Int
      BY <2>2, UploadShape, ImportAssumption DEF Positions
    <2>4. StepsLeft(j)' = Ahead(pc'[j], Len(payload'[j]) - 1)
      BY <2>1 DEF StepsLeft
    <2>5. ~Work(j)
      BY <1>1, <1>2, <2>1 DEF Work, ProcessOne, Ingest, Announce, MarkProcessing,
        Reject, SaveRaw, InsertListing, InsertScore, SaveStrategies,
        MarkRawProcessed, MarkRawFailed, IncrementProcessed, IncrementFailed,
        Review, MarkFailed, MarkCompleted, Reread, LogVerdict
    <2> QED
      BY <2>1, <2>3, <2>4, <2>5 DEF Ahead
  <1>4. CASE Work(j)
    BY <1>1, <1>2, <1>4
  <1>5. CASE Crash
    <2>1. pc'[j] \in {"dead", pc[j]} /\ UNCHANGED <<payload, pos>>
      BY <1>5 DEF Crash, rows
    <2>2. StepsLeft(j)' \in {0, StepsLeft(j)}
      BY <1>2, <2>1 DEF StepsLeft, Ahead
    <2> QED
      BY <1>1, <1>2, <2>1, <2>2
  <1>6. ASSUME NEW i \in Jobs, i # j, Create(i) \/ Work(i)
        PROVE StepsLeft(j)' = StepsLeft(j) /\ payload'[j] = payload[j]
    BY <1>6, OthersKept DEF StepsLeft
  <1>7. CASE StepsLeft(j)' = StepsLeft(j) /\ payload'[j] = payload[j]
    BY <1>1, <1>2, <1>7
  <1> QED
    BY <1>3, <1>4, <1>5, <1>6, <1>7 DEF Next

\* Every statement a goroutine executes brings it nearer to its end, whatever
\* the statement returns and whatever the other goroutines do, so no upload
\* costs more than six statements an item, and six.
THEOREM Bounded == Spec => StatementsAreBounded
  <1> DEFINE InNat == \A j \in Jobs : StepsLeft(j) \in Nat
  <1>1. Spec => []TypeInv
    BY TypeInit, TypeStep, PTL DEF Spec
  <1>2. TypeInv => InNat
    BY StepsLeftIsNat
  <1>3. InNat' =>
          [\A j \in Jobs : StepsLeft(j)' \in Nat]_vars
    OBVIOUS
  <1>4. TypeInv /\ [Next]_vars /\ InNat' =>
          [\A j \in Jobs :
              /\ Work(j) => StepsLeft(j)' < StepsLeft(j)
              /\ pc[j] # "idle" => StepsLeft(j)' <= StepsLeft(j)
              /\ pc[j] = "idle" => StepsLeft(j)' <= 6 * Len(payload'[j]) + 6
              /\ StepsLeft(j)' \in Nat]_vars
    BY <1>3, NearsEnd
  <1> HIDE DEF InNat
  <1> QED
    BY <1>1, <1>2, <1>4, PTL DEF Spec, StatementsAreBounded

-----------------------------------------------------------------------------
(* TraceInv *)

\* Nothing takes back a fault or an entry of the activity log.
LEMMA Grows ==
    ASSUME TypeInv, [Next]_vars
    PROVE /\ faults \in Nat /\ faults' \in Nat /\ faults <= faults'
          /\ audit \subseteq audit'
  <1> USE CallCounts DEF TypeInv, TypeOK, Log, rows
  <1>0. faults \in Nat
    BY ImportAssumption
  <1>1. CASE UNCHANGED vars \/ Crash
    BY <1>0, <1>1 DEF vars, Crash
  <1>2. ASSUME NEW j \in Jobs, Create(j) \/ Announce(j) \/ MarkProcessing(j)
        PROVE faults' \in Nat /\ faults <= faults' /\ audit \subseteq audit'
    BY <1>2 DEF Create, Announce, MarkProcessing
  <1>3. ASSUME NEW j \in Jobs, Reject(j) \/ SaveRaw(j) \/ Ingest(j)
        PROVE faults' \in Nat /\ faults <= faults' /\ audit \subseteq audit'
    BY <1>0, <1>3 DEF Reject, SaveRaw, Ingest, InsertListing, InsertScore, SaveStrategies
  <1>4. ASSUME NEW j \in Jobs, MarkRawProcessed(j) \/ MarkRawFailed(j)
                            \/ IncrementProcessed(j) \/ IncrementFailed(j)
        PROVE faults' \in Nat /\ faults <= faults' /\ audit \subseteq audit'
    BY <1>4 DEF MarkRawProcessed, MarkRawFailed, IncrementProcessed, IncrementFailed
  <1>5. ASSUME NEW j \in Jobs, Review(j) \/ MarkFailed(j) \/ MarkCompleted(j)
                            \/ Reread(j) \/ LogVerdict(j)
        PROVE faults' \in Nat /\ faults <= faults' /\ audit \subseteq audit'
    BY <1>5 DEF Review, MarkFailed, MarkCompleted, Reread, LogVerdict, Outcomes
  <1> QED
    BY <1>0, <1>1, <1>2, <1>3, <1>4, <1>5 DEF Next, Work, ProcessOne

\* The statements that send a goroutine to its last one, and that last one.
LEMMA LastSteps ==
    ASSUME TypeInv, NEW j \in Jobs, Create(j) \/ Work(j),
           pc'[j] \in {"logFailed", "done"}
    PROVE MarkFailed(j) \/ MarkCompleted(j) \/ Reread(j) \/ LogVerdict(j)
  <1> USE DEF TypeInv, TypeOK, Goto
  <1>1. ~(Create(j) \/ Announce(j) \/ MarkProcessing(j) \/ Review(j))
    BY DEF Create, Announce, MarkProcessing, Review
  <1>2. ~ProcessOne(j)
    BY DEF ProcessOne, Ingest, Reject, SaveRaw, InsertListing, InsertScore,
      SaveStrategies, MarkRawProcessed, MarkRawFailed
  <1>3. ~(IncrementProcessed(j) \/ IncrementFailed(j))
    BY DEF IncrementProcessed, IncrementFailed
  <1> QED
    BY <1>1, <1>2, <1>3 DEF Work

LEMMA TraceInit == Init => TraceInv
  BY DEF Init, TraceInv

LEMMA TraceStep == PipelineInv /\ TraceInv /\ [Next]_vars => TraceInv'
  <1> SUFFICES ASSUME PipelineInv, TraceInv, [Next]_vars, NEW i \in Jobs,
                      job'[i].status \notin Terminal
               PROVE /\ pc'[i] = "logFailed" => faults' >= 1
                     /\ pc'[i] = "done" =>
                            \/ Record(i, "import.failed", NoCounts) \in audit'
                            \/ faults' >= 2
    BY DEF TraceInv
  <1>1. TypeInv /\ StatusInv
    BY DEF PipelineInv, TypeInv
  <1>2. /\ faults \in Nat /\ faults' \in Nat /\ faults <= faults'
        /\ audit \subseteq audit'
    BY <1>1, Grows
  <1>3. CASE pc'[i] = pc[i] /\ job'[i] = job[i]
    BY <1>2, <1>3 DEF TraceInv
  <1>4. CASE UNCHANGED vars
    BY <1>3, <1>4 DEF vars
  <1>5. CASE Crash
    BY <1>2, <1>3, <1>5 DEF Crash, rows
  <1>6. CASE MarkFailed(i)
    <2>1. PICK o \in Outcomes :
            Call(o) /\ UpdateJob(o, [job EXCEPT ![i] = Mark(@, "failed")])
      BY <1>6 DEF MarkFailed
    <2>2. job[i] \in JobRow /\ job \in [Jobs -> JobRow]
      BY <1>1 DEF TypeInv, TypeOK
    <2>3. Applied(o) => job'[i].status = "failed"
      BY <2>1, <2>2, MarkJob DEF UpdateJob, JobStatuses
    <2>4. Failed(o)
      BY <2>3 DEF Applied, Failed, Terminal
    <2>5. pc'[i] = "logFailed"
      BY <1>1, <1>6 DEF MarkFailed, Goto, TypeInv, TypeOK
    <2> QED
      BY <1>1, <1>2, <2>1, <2>4, <2>5, CallCounts
  <1>7. CASE MarkCompleted(i)
    <2>1. PICK o \in Outcomes :
            /\ Call(o)
            /\ UpdateJob(o, [job EXCEPT ![i] = Mark(@, "completed")])
            /\ Goto(i, IF Failed(o) THEN "logFailed" ELSE "reread")
      BY <1>7 DEF MarkCompleted
    <2>2. job[i] \in JobRow /\ job \in [Jobs -> JobRow] /\ pc \in [Jobs -> Labels]
      BY <1>1 DEF TypeInv, TypeOK
    <2>3. Applied(o) => job'[i].status = "completed"
      BY <2>1, <2>2, MarkJob DEF UpdateJob, JobStatuses
    <2>4. Failed(o)
      BY <2>3 DEF Applied, Failed, Terminal
    <2>5. pc'[i] = "logFailed"
      BY <2>1, <2>2, <2>4 DEF Goto
    <2> QED
      BY <1>1, <1>2, <2>1, <2>4, <2>5, CallCounts
  <1>8. CASE Reread(i)
    BY <1>1, <1>8 DEF Reread, rows, StatusInv, Terminal
  <1>9. CASE LogVerdict(i)
    <2>1. pc'[i] = "done" /\ job' = job
      BY <1>1, <1>9 DEF LogVerdict, Goto, TypeInv, TypeOK
    <2>2. pc[i] = "logFailed"
      BY <1>1, <1>9, <2>1 DEF LogVerdict, StatusInv, Terminal
    <2>3. PICK o \in Outcomes :
            Call(o) /\ Log(o, Record(i, "import.failed", NoCounts))
      BY <1>9, <2>2 DEF LogVerdict
    <2>4. faults >= 1
      BY <2>1, <2>2 DEF TraceInv
    <2>5. CASE Applied(o)
      BY <2>1, <2>3, <2>5 DEF Log
    <2>6. CASE ~Applied(o)
      <3>1. faults' = faults + 1
        BY <1>1, <2>3, <2>6, CallCounts DEF Applied, Failed
      <3> QED
        BY <1>2, <2>1, <2>4, <3>1
    <2> QED
      BY <2>5, <2>6
  <1>10. ASSUME NEW j \in Jobs, Create(j) \/ Work(j), i # j
         PROVE pc'[i] = pc[i] /\ job'[i] = job[i]
    BY <1>1, <1>10, OthersKept
  <1> QED
    BY <1>1, <1>3, <1>4, <1>5, <1>6, <1>7, <1>8, <1>9, <1>10, LastSteps DEF Next

\* The guarantee about a job left without a verdict.
LEMMA TraceMeans == TraceInv => StuckJobLeavesTrace
  BY DEF TraceInv, StuckJobLeavesTrace

-----------------------------------------------------------------------------
(* RawInv, and the two properties of raw_listings *)

\* The items of an upload are fixed once the upload is there.
LEMMA PayloadKept ==
    ASSUME TypeInv, [Next]_vars, NEW j \in Jobs, payload[j] # <<>>
    PROVE payload'[j] = payload[j] /\ pos[j] \in Nat /\ pc[j] # "idle"
  <1>1. pc[j] # "idle" /\ pos[j] \in Nat
    BY PlaceInUpload DEF TypeInv, LoopInv
  <1>2. UNCHANGED vars \/ Crash => payload' = payload
    BY DEF vars, Crash
  <1>3. ~Create(j)
    BY <1>1 DEF Create
  <1>4. Work(j) => payload' = payload
    BY DEF rows, Work, ProcessOne, Ingest, Announce, MarkProcessing, Review,
      MarkFailed, MarkCompleted, Reread, LogVerdict, Reject, SaveRaw,
      InsertListing, InsertScore, SaveStrategies, MarkRawProcessed,
      MarkRawFailed, IncrementProcessed, IncrementFailed
  <1>5. ASSUME NEW i \in Jobs, i # j, Create(i) \/ Work(i)
        PROVE payload'[j] = payload[j]
    BY <1>5, OthersKept
  <1> QED
    BY <1>1, <1>2, <1>3, <1>4, <1>5 DEF Next

\* So an upload keeps its claims, and has its keys to itself for as long as no
\* other upload comes.
LEMMA ClaimsKept ==
    ASSUME TypeInv, [Next]_vars, NEW j \in Jobs, NEW k \in Keys
    PROVE OnlyClaimant(j, k)' => OnlyClaimant(j, k)
  <1>1. ASSUME NEW other \in Jobs, Claims(other, k) PROVE Claims(other, k)'
    <2>1. payload[other] # <<>>
      BY <1>1 DEF Claims
    <2> QED
      BY <1>1, <2>1, PayloadKept DEF Claims
  <1> QED
    BY <1>1 DEF OnlyClaimant

\* What is in the catalogue with all its scores stays there.
LEMMA LiveKept ==
    ASSUME TypeInv, StageInv, [Next]_vars, NEW i \in Jobs
    PROVE Live(i) \subseteq Live(i)'
  <1>1. CASE \A j \in Jobs : ~SaveStrategies(j)
    BY <1>1, LiveFrame
  <1>2. ASSUME NEW j \in Jobs, SaveStrategies(j) PROVE Live(i) \subseteq Live(i)'
    BY <1>2, LiveGrows
  <1> QED
    BY <1>1, <1>2

\* An item between SaveRaw and its verdict claims its key.
LEMMA CurrentClaims ==
    ASSUME TypeInv, NEW j \in Jobs, InLoop(j), Current(j).kind # "malformed"
    PROVE /\ Claims(j, Current(j).key)
          /\ pos[j] \in DOMAIN payload[j] /\ pos[j] \in Positions
          /\ Current(j).key \in Keys
  <1>1. pos[j] \in DOMAIN payload[j] /\ pos[j] \in Positions
    BY CurrentIsEntry, UploadShape, ImportAssumption DEF InLoop, Positions, Uploads
  <1>2. Current(j).key \in Keys
    BY CurrentIsEntry DEF Entry
  <1> QED
    BY <1>1, <1>2 DEF Claims, Current

\* The statements that write the row of a key, and what they write.
LEMMA RawWriters ==
    ASSUME TypeInv, RawInv, [Next]_vars, NEW k \in Keys, raw'[k] # raw[k]
    PROVE \E a \in Jobs :
            /\ Claims(a, k) /\ InLoop(a)
            /\ Current(a).key = k /\ Current(a).kind # "malformed"
            /\ \/ SaveRaw(a) /\ raw'[k] = [status |-> "pending", job |-> a, item |-> pos[a]]
               \/ MarkRawProcessed(a) /\ raw'[k] = Mark(raw[k], "processed")
               \/ MarkRawFailed(a) /\ raw'[k] = Mark(raw[k], "failed")
  <1>1. PICK a \in Jobs : SaveRaw(a) \/ MarkRawProcessed(a) \/ MarkRawFailed(a)
    BY DEF Next, vars, rows, Crash, Create, Work, ProcessOne, Ingest, Announce,
      MarkProcessing, Review, MarkFailed, MarkCompleted, Reread, LogVerdict,
      Reject, InsertListing, InsertScore, SaveStrategies, IncrementProcessed,
      IncrementFailed
  <1>2. InLoop(a) /\ Current(a).kind # "malformed"
    BY <1>1 DEF SaveRaw, MarkRawProcessed, MarkRawFailed, RawInv, IngestLabels,
      TypeInv, LoopInv, ItemLabels
  <1>3. Claims(a, Current(a).key) /\ Current(a).key \in Keys
    BY <1>2, CurrentClaims
  <1>4. CASE SaveRaw(a)
    <2>1. /\ Current(a).key = k
          /\ raw'[k] = [status |-> "pending", job |-> a, item |-> pos[a]]
      BY <1>3, <1>4 DEF SaveRaw, UpdateRaw, TypeInv, TypeOK
    <2> QED
      BY <1>2, <1>3, <1>4, <2>1
  <1>5. CASE MarkRawProcessed(a)
    <2>1. Current(a).key = k /\ raw'[k] = Mark(raw[k], "processed")
      BY <1>3, <1>5 DEF MarkRawProcessed, UpdateRaw, TypeInv, TypeOK
    <2> QED
      BY <1>2, <1>3, <1>5, <2>1
  <1>6. CASE MarkRawFailed(a)
    <2>1. Current(a).key = k /\ raw'[k] = Mark(raw[k], "failed")
      BY <1>3, <1>6 DEF MarkRawFailed, UpdateRaw, TypeInv, TypeOK
    <2> QED
      BY <1>2, <1>3, <1>6, <2>1
  <1> QED
    BY <1>1, <1>4, <1>5, <1>6

LEMMA RawInit == Init => RawInv
  BY ImportAssumption DEF Init, RawInv, NoRaw, IngestLabels

\* A row holds an item of the upload that owns it.
LEMMA RowStep ==
    ASSUME PipelineInv, RawInv, [Next]_vars, NEW k \in Keys, NEW j \in Jobs,
           raw'[k].job = j
    PROVE /\ raw'[k].item \in DOMAIN payload'[j]
          /\ payload'[j][raw'[k].item].key = k
          /\ payload'[j][raw'[k].item].kind # "malformed"
  <1>0. TypeInv /\ raw[k] \in RawRow
    BY DEF PipelineInv, TypeInv, TypeOK
  <1>1. CASE raw'[k].job = raw[k].job /\ raw'[k].item = raw[k].item
    <2>1. /\ raw[k].item \in DOMAIN payload[j]
          /\ payload[j][raw[k].item].key = k
          /\ payload[j][raw[k].item].kind # "malformed"
      BY <1>1 DEF RawInv
    <2>2. payload'[j] = payload[j]
      BY <1>0, <2>1, PayloadKept
    <2> QED
      BY <1>1, <2>1, <2>2
  <1>2. CASE raw'[k] # raw[k]
    <2>1. PICK a \in Jobs :
            /\ Claims(a, k) /\ InLoop(a)
            /\ Current(a).key = k /\ Current(a).kind # "malformed"
            /\ \/ SaveRaw(a) /\ raw'[k] = [status |-> "pending", job |-> a, item |-> pos[a]]
               \/ MarkRawProcessed(a) /\ raw'[k] = Mark(raw[k], "processed")
               \/ MarkRawFailed(a) /\ raw'[k] = Mark(raw[k], "failed")
      BY <1>0, <1>2, RawWriters
    <2>2. CASE SaveRaw(a) /\ raw'[k] = [status |-> "pending", job |-> a, item |-> pos[a]]
      <3>1. a = j /\ raw'[k].item = pos[j] /\ payload'[j] = payload[j]
        BY <2>2 DEF SaveRaw
      <3>2. pos[j] \in DOMAIN payload[j]
        BY <1>0, <2>1, <3>1, CurrentClaims
      <3> QED
        BY <2>1, <3>1, <3>2 DEF Current
    <2>3. CASE raw'[k] \in {Mark(raw[k], "processed"), Mark(raw[k], "failed")}
      BY <1>0, <1>1, <2>3, MarkRaw
    <2> QED
      BY <2>1, <2>2, <2>3
  <1> QED
    BY <1>1, <1>2

\* Whoever reaches the labels of the ingest comes from SaveRaw, or is there.
LEMMA IngestSteps ==
    ASSUME TypeInv, NEW j \in Jobs, Create(j) \/ Work(j), pc'[j] \in IngestLabels
    PROVE /\ UNCHANGED <<payload, pos>>
          /\ SaveRaw(j) \/ (Ingest(j) /\ UNCHANGED raw /\ pc[j] \in IngestLabels)
  <1> USE DEF TypeInv, TypeOK, Goto, IngestLabels
  <1>1. ~(Create(j) \/ Announce(j) \/ MarkProcessing(j) \/ Reject(j))
    BY DEF Create, Announce, MarkProcessing, Reject
  <1>2. ~(MarkRawProcessed(j) \/ MarkRawFailed(j) \/ IncrementProcessed(j) \/ IncrementFailed(j))
    BY DEF MarkRawProcessed, MarkRawFailed, IncrementProcessed, IncrementFailed
  <1>3. ~(Review(j) \/ MarkFailed(j) \/ MarkCompleted(j))
    BY DEF Review, MarkFailed, MarkCompleted
  <1>4. ~(Reread(j) \/ LogVerdict(j))
    BY DEF Reread, LogVerdict
  <1>5. CASE SaveRaw(j)
    BY <1>5 DEF SaveRaw
  <1>6. CASE Ingest(j)
    BY <1>6 DEF Ingest, InsertListing, InsertScore, SaveStrategies
  <1> QED
    BY <1>1, <1>2, <1>3, <1>4, <1>5, <1>6 DEF Work, ProcessOne

\* An upload that has its key to itself owns the row while its item is ingested.
LEMMA OwnerStep ==
    ASSUME PipelineInv, RawInv, [Next]_vars, NEW j \in Jobs, pc'[j] \in IngestLabels
    PROVE (/\ Current(j).kind # "malformed"
           /\ OnlyClaimant(j, Current(j).key) =>
                 raw[Current(j).key] = [status |-> "pending", job |-> j, item |-> pos[j]])'
  <1>0. TypeInv
    BY DEF PipelineInv, TypeInv
  <1>1. CASE SaveRaw(j)
    <2>1. PICK o \in Outcomes :
            /\ UpdateRaw(o, [raw EXCEPT ![Current(j).key] =
                   [status |-> "pending", job |-> j, item |-> pos[j]]])
            /\ Goto(j, IF Failed(o) THEN "countFailed" ELSE "listing")
      BY <1>1 DEF SaveRaw
    <2>2. /\ InLoop(j) /\ Current(j).kind # "malformed"
          /\ payload' = payload /\ pos' = pos
      BY <1>1 DEF SaveRaw
    <2>3. Current(j)' = Current(j) /\ Current(j).key \in Keys
      BY <1>0, <2>2, CurrentClaims DEF Current
    <2>4. Applied(o)
      BY <1>0, <2>1 DEF Goto, Failed, Applied, IngestLabels, TypeInv, TypeOK
    <2>5. raw'[Current(j).key] = [status |-> "pending", job |-> j, item |-> pos[j]]
      BY <1>0, <2>1, <2>3, <2>4 DEF UpdateRaw, TypeInv, TypeOK
    <2> QED
      BY <2>2, <2>3, <2>5
  <1>2. CASE pc[j] \in IngestLabels /\ payload'[j] = payload[j] /\ pos'[j] = pos[j]
    <2>1. /\ InLoop(j) /\ Current(j)' = Current(j) /\ Current(j).kind # "malformed"
          /\ OnlyClaimant(j, Current(j).key) =>
                raw[Current(j).key] = [status |-> "pending", job |-> j, item |-> pos[j]]
      BY <1>0, <1>2 DEF RawInv, IngestLabels, TypeInv, LoopInv, ItemLabels, Current
    <2>2. Current(j).key \in Keys
      BY <1>0, <2>1, CurrentClaims
    <2>3. CASE raw'[Current(j).key] = raw[Current(j).key]
      BY <1>0, <1>2, <2>1, <2>2, <2>3, ClaimsKept
    <2>4. CASE raw'[Current(j).key] # raw[Current(j).key]
      <3>1. PICK a \in Jobs :
              /\ Claims(a, Current(j).key)
              /\ SaveRaw(a) \/ MarkRawProcessed(a) \/ MarkRawFailed(a)
        BY <1>0, <2>2, <2>4, RawWriters
      <3>2. a # j
        BY <1>0, <1>2, <3>1, IngestSteps DEF SaveRaw, MarkRawProcessed, MarkRawFailed,
          Goto, IngestLabels, TypeInv, TypeOK
      <3>3. ~OnlyClaimant(j, Current(j).key)
        BY <3>1, <3>2 DEF OnlyClaimant
      <3>4. ~OnlyClaimant(j, Current(j).key)'
        <4>1. PICK k \in Keys : k = Current(j).key
          BY <2>2
        <4>2. ~OnlyClaimant(j, k)'
          BY <1>0, <3>3, <4>1, ClaimsKept
        <4> QED
          BY <2>1, <4>1, <4>2 DEF OnlyClaimant
      <3> QED
        BY <2>1, <3>4
    <2> QED
      BY <2>3, <2>4
  <1>3. CASE UNCHANGED vars \/ Crash
    <2>1. pc[j] \in IngestLabels /\ payload'[j] = payload[j] /\ pos'[j] = pos[j]
      BY <1>3 DEF vars, Crash, IngestLabels
    <2> QED
      BY <1>2, <2>1
  <1>4. CASE Create(j) \/ Work(j)
    BY <1>0, <1>1, <1>2, <1>4, IngestSteps
  <1>5. ASSUME NEW a \in Jobs, a # j, Create(a) \/ Work(a)
        PROVE pc[j] \in IngestLabels /\ payload'[j] = payload[j] /\ pos'[j] = pos[j]
    BY <1>0, <1>5, OthersKept
  <1> QED
    BY <1>2, <1>3, <1>4, <1>5 DEF Next

\* An item goes to a "failed" verdict unlisted, unless a statement failed.
LEMMA RefusedStep ==
    ASSUME PipelineInv, RawInv, [Next]_vars, NEW j \in Jobs, pc'[j] = "rawFailed"
    PROVE pos'[j] \notin Live(j)' \/ faults' > 0
  <1>0. TypeInv /\ StageInv /\ pos[j] \in Nat
    BY PlaceInUpload DEF PipelineInv, TypeInv
  <1>1. faults \in Nat /\ faults' \in Nat /\ faults <= faults'
    BY <1>0, Grows
  <1>2. CASE pc[j] = "rawFailed" /\ pos'[j] = pos[j] /\ catalog'[j] = catalog[j]
    <2>1. Live(j)' = Live(j)
      BY <1>2 DEF Live
    <2> QED
      BY <1>1, <1>2, <2>1 DEF RawInv
  <1>3. CASE UNCHANGED vars \/ Crash
    BY <1>2, <1>3 DEF vars, Crash, rows
  <1>4. CASE Create(j) \/ Work(j)
    <2>1. Ingest(j)
      BY <1>0, <1>4, IngestSteps DEF IngestLabels, SaveRaw, Goto, TypeInv, TypeOK
    <2>2. CASE InsertListing(j) /\ Current(j).kind = "refused"
      <3>1. pc[j] = "listing" /\ pos' = pos /\ catalog' = catalog
        BY <2>2 DEF InsertListing
      <3>2. catalog'[j][pos'[j]] # "complete" \/ pos'[j] \notin Positions
        BY <1>0, <3>1 DEF StageInv
      <3> QED
        BY <3>2 DEF Live
    <2>3. ASSUME NEW o \in Outcomes, NEW label \in Labels \ {"rawFailed"}, Call(o),
                 Goto(j, IF Failed(o) THEN "rawFailed" ELSE label)
          PROVE faults' > 0
      <3>1. Failed(o)
        BY <1>0, <2>3 DEF Goto, TypeInv, TypeOK
      <3> QED
        BY <1>0, <1>1, <2>3, <3>1, CallCounts
    <2>4. CASE InsertListing(j) /\ Current(j).kind # "refused"
      BY <2>3, <2>4 DEF InsertListing, Labels
    <2>5. CASE InsertScore(j)
      BY <2>3, <2>5 DEF InsertScore, Labels
    <2>6. CASE SaveStrategies(j)
      BY <2>3, <2>6 DEF SaveStrategies, Labels
    <2> QED
      BY <2>1, <2>2, <2>4, <2>5, <2>6 DEF Ingest
  <1>5. ASSUME NEW a \in Jobs, a # j, Create(a) \/ Work(a)
        PROVE pc'[j] = pc[j] /\ pos'[j] = pos[j] /\ catalog'[j] = catalog[j]
    BY <1>0, <1>5, OthersKept
  <1> QED
    BY <1>2, <1>3, <1>4, <1>5 DEF Next

LEMMA RawStep == PipelineInv /\ RawInv /\ [Next]_vars => RawInv'
  <1> SUFFICES ASSUME PipelineInv, RawInv, [Next]_vars PROVE RawInv'
    OBVIOUS
  <1>1. (\A k \in Keys, j \in Jobs : raw[k].job = j =>
            /\ raw[k].item \in DOMAIN payload[j]
            /\ payload[j][raw[k].item].key = k
            /\ payload[j][raw[k].item].kind # "malformed")'
    BY RowStep
  <1>2. (\A j \in Jobs : pc[j] \in IngestLabels =>
            /\ Current(j).kind # "malformed"
            /\ OnlyClaimant(j, Current(j).key) =>
                  raw[Current(j).key] = [status |-> "pending", job |-> j, item |-> pos[j]])'
    BY OwnerStep
  <1>3. (\A j \in Jobs : pc[j] = "rawFailed" => pos[j] \notin Live(j) \/ faults > 0)'
    BY RefusedStep
  <1> QED
    BY <1>1, <1>2, <1>3 DEF RawInv

\* SaveRaw comes before the item reaches the catalogue: an item whose row has its
\* verdict is not made live after it, as long as its upload is alone with the key.
LEMMA VerdictIsLast ==
    ASSUME PipelineInv, RawInv, [Next]_vars, NEW k \in Keys, NEW j \in Jobs,
           raw[k].job = j, raw[k].status # "pending", OnlyClaimant(j, k),
           raw[k].item \notin Live(j)
    PROVE raw[k].item \notin Live(j)'
  <1>0. TypeInv /\ StageInv
    BY DEF PipelineInv, TypeInv
  <1>1. CASE \A a \in Jobs : ~SaveStrategies(a)
    BY <1>0, <1>1, LiveFrame
  <1>2. ASSUME NEW a \in Jobs, a # j, SaveStrategies(a)
        PROVE raw[k].item \notin Live(j)'
    BY <1>0, <1>2, LiveGrows
  <1>3. CASE SaveStrategies(j)
    <2>1. pc[j] = "strategies"
      BY <1>3 DEF SaveStrategies
    <2>2. OnlyClaimant(j, Current(j).key) =>
            raw[Current(j).key] = [status |-> "pending", job |-> j, item |-> pos[j]]
      BY <2>1 DEF RawInv, IngestLabels
    <2>3. payload[j][raw[k].item].key = k
      BY DEF RawInv
    <2>4. pos[j] # raw[k].item
      BY <2>2, <2>3 DEF Current
    <2> QED
      BY <1>0, <1>3, <2>4, LiveGrows
  <1> QED
    BY <1>1, <1>2, <1>3

LEMMA VerdictStep ==
    PipelineInv /\ RawInv /\ VerdictIsAboutPayload /\ [Next]_vars
        => VerdictIsAboutPayload'
  <1> SUFFICES ASSUME PipelineInv, RawInv, VerdictIsAboutPayload, [Next]_vars,
                      NEW k \in Keys, NEW j \in Jobs,
                      raw'[k].job = j, OnlyClaimant(j, k)'
               PROVE /\ raw'[k].status = "processed" => raw'[k].item \in Live(j)'
                     /\ raw'[k].status = "failed" =>
                            raw'[k].item \notin Live(j)' \/ faults' > 0
    BY DEF VerdictIsAboutPayload
  <1>0. TypeInv /\ StageInv /\ raw[k] \in RawRow
    BY DEF PipelineInv, TypeInv, TypeOK
  <1>1. OnlyClaimant(j, k)
    BY <1>0, ClaimsKept
  <1>2. /\ faults \in Nat /\ faults' \in Nat /\ faults <= faults'
        /\ Live(j) \subseteq Live(j)'
    BY <1>0, Grows, LiveKept
  <1>3. CASE raw'[k] = raw[k]
    <2>1. /\ raw[k].status = "processed" => raw[k].item \in Live(j)
          /\ raw[k].status = "failed" => raw[k].item \notin Live(j) \/ faults > 0
      BY <1>1, <1>3 DEF VerdictIsAboutPayload
    <2>2. CASE raw[k].status = "failed" /\ raw[k].item \notin Live(j)
      BY <1>1, <1>3, <2>2, VerdictIsLast
    <2> QED
      BY <1>2, <1>3, <2>1, <2>2
  <1>4. CASE raw'[k] # raw[k]
    <2>1. PICK a \in Jobs :
            /\ Claims(a, k) /\ InLoop(a)
            /\ Current(a).key = k /\ Current(a).kind # "malformed"
            /\ \/ SaveRaw(a) /\ raw'[k] = [status |-> "pending", job |-> a, item |-> pos[a]]
               \/ MarkRawProcessed(a) /\ raw'[k] = Mark(raw[k], "processed")
               \/ MarkRawFailed(a) /\ raw'[k] = Mark(raw[k], "failed")
      BY <1>0, <1>4, RawWriters
    <2>2. a = j /\ pos[j] \in Positions
      BY <1>0, <1>1, <2>1, CurrentClaims DEF OnlyClaimant
    <2>3. CASE SaveRaw(j) /\ raw'[k] = [status |-> "pending", job |-> j, item |-> pos[j]]
      BY <2>3
    <2>4. CASE MarkRawProcessed(j) /\ raw'[k] = Mark(raw[k], "processed")
      <3>1. pc[j] = "rawProcessed"
        BY <2>4 DEF MarkRawProcessed
      <3>2. raw[k].item = pos[j]
        BY <1>1, <2>1, <2>2, <3>1 DEF RawInv, IngestLabels
      <3>3. pos[j] \in Live(j)
        BY <1>0, <2>2, <3>1 DEF StageInv, Live
      <3>4. raw'[k].status = "processed" /\ raw'[k].item = pos[j]
        BY <1>0, <2>4, <3>2, MarkRaw
      <3> QED
        BY <1>2, <3>3, <3>4
    <2>5. CASE MarkRawFailed(j) /\ raw'[k] = Mark(raw[k], "failed")
      <3>1. pc[j] = "rawFailed" /\ catalog' = catalog
        BY <2>5 DEF MarkRawFailed
      <3>2. raw[k].item = pos[j]
        BY <1>1, <2>1, <2>2, <3>1 DEF RawInv, IngestLabels
      <3>3. pos[j] \notin Live(j) \/ faults > 0
        BY <3>1 DEF RawInv
      <3>4. raw'[k].status = "failed" /\ raw'[k].item = pos[j] /\ Live(j)' = Live(j)
        BY <1>0, <2>5, <3>1, <3>2, MarkRaw DEF Live
      <3> QED
        BY <1>2, <3>3, <3>4
    <2> QED
      BY <2>1, <2>2, <2>3, <2>4, <2>5
  <1> QED
    BY <1>3, <1>4

LEMMA ProcessedStep ==
    PipelineInv /\ RawInv /\ ProcessedKeyIsLive /\ [Next]_vars
        => ProcessedKeyIsLive'
  <1> SUFFICES ASSUME PipelineInv, RawInv, ProcessedKeyIsLive, [Next]_vars,
                      NEW k \in Keys, raw'[k].status = "processed"
               PROVE \E j \in Jobs : \E i \in Live(j)' : payload'[j][i].key = k
    BY DEF ProcessedKeyIsLive
  <1>0. TypeInv /\ StageInv /\ raw[k] \in RawRow
    BY DEF PipelineInv, TypeInv, TypeOK
  <1>1. ASSUME NEW j \in Jobs, NEW i \in Live(j), payload[j][i].key = k
        PROVE i \in Live(j)' /\ payload'[j][i].key = k
    <2>1. payload[j] # <<>>
      BY <1>0, ImportAssumption DEF Live, StageInv, Positions
    <2> QED
      BY <1>0, <1>1, <2>1, LiveKept, PayloadKept
  <1>2. CASE raw'[k] = raw[k]
    <2>1. PICK j \in Jobs : \E i \in Live(j) : payload[j][i].key = k
      BY <1>2 DEF ProcessedKeyIsLive
    <2> QED
      BY <1>1, <2>1
  <1>3. CASE raw'[k] # raw[k]
    <2>1. PICK a \in Jobs :
            /\ Claims(a, k) /\ InLoop(a)
            /\ Current(a).key = k /\ Current(a).kind # "malformed"
            /\ \/ SaveRaw(a) /\ raw'[k] = [status |-> "pending", job |-> a, item |-> pos[a]]
               \/ MarkRawProcessed(a) /\ raw'[k] = Mark(raw[k], "processed")
               \/ MarkRawFailed(a) /\ raw'[k] = Mark(raw[k], "failed")
      BY <1>0, <1>3, RawWriters
    <2>2. pc[a] = "rawProcessed"
      BY <1>0, <2>1, MarkRaw DEF MarkRawProcessed
    <2>3. pos[a] \in Live(a)
      BY <1>0, <2>1, <2>2, CurrentClaims DEF StageInv, Live
    <2> QED
      BY <1>1, <2>1, <2>3 DEF Current
  <1> QED
    BY <1>2, <1>3

-----------------------------------------------------------------------------
(* ReportInv *)

\* An upload's part of the catalogue grows by its own SaveStrategies only.
LEMMA OwnLive ==
    ASSUME TypeInv, StageInv, [Next]_vars, NEW i \in Jobs, ~SaveStrategies(i)
    PROVE Live(i)' = Live(i)
  <1>1. CASE \A j \in Jobs : ~SaveStrategies(j)
    BY <1>1, LiveFrame
  <1>2. ASSUME NEW j \in Jobs, SaveStrategies(j) PROVE Live(i)' = Live(i)
    BY <1>2, LiveGrows
  <1> QED
    BY <1>1, <1>2

\* What each step does in a run without faults: before the loop,
LEMMA FaultFreeStart ==
    ASSUME TypeInv, StatusInv, NEW j \in Jobs, faults' = 0
    PROVE /\ Create(j) =>
                /\ pc[j] = "idle" /\ pc'[j] = "announce" /\ pos'[j] = 1 /\ pos[j] = 1
                /\ job[j].processed = 0 /\ job'[j].processed = 0
                /\ catalog' = catalog
          /\ Announce(j) =>
                /\ pc[j] = "announce" /\ pc'[j] = "begin"
                /\ Record(j, "import.started", NoCounts) \in audit'
                /\ UNCHANGED <<job, catalog, payload, pos>>
          /\ MarkProcessing(j) =>
                /\ pc[j] = "begin" /\ pc'[j] = "item"
                /\ job'[j].processed = job[j].processed
                /\ UNCHANGED <<catalog, audit, payload, pos>>
  BY CallCounts, MarkJob, SMTT(30)
    DEF TypeInv, TypeOK, LoopInv, StatusInv, NoRow, JobStatuses, Goto, Failed,
      Applied, UpdateJob, Log, Create, Queued, Announce, MarkProcessing

\* in its body,
LEMMA FaultFreeItem ==
    ASSUME TypeInv, NEW j \in Jobs, faults' = 0
    PROVE /\ Reject(j) =>
                /\ pc[j] = "item" /\ pc'[j] = "countFailed" /\ InLoop(j)
                /\ Current(j).kind = "malformed"
                /\ UNCHANGED <<job, catalog, audit, payload, pos>>
          /\ SaveRaw(j) =>
                /\ pc[j] = "item" /\ pc'[j] = "listing" /\ InLoop(j)
                /\ UNCHANGED <<job, catalog, audit, payload, pos>>
          /\ InsertListing(j) =>
                /\ pc[j] = "listing"
                /\ \/ /\ Current(j).kind = "refused" /\ pc'[j] = "rawFailed"
                      /\ UNCHANGED catalog
                   \/ /\ Current(j).kind = "good" /\ pc'[j] = "score"
                      /\ \E o \in Outcomes : Advance(o, j, "listed")
                /\ UNCHANGED <<job, audit, payload, pos>>
          /\ InsertScore(j) =>
                /\ pc[j] = "score" /\ pc'[j] = "strategies"
                /\ \E o \in Outcomes : Advance(o, j, "scored")
                /\ UNCHANGED <<job, audit, payload, pos>>
          /\ SaveStrategies(j) =>
                /\ pc[j] = "strategies" /\ pc'[j] = "rawProcessed"
                /\ \E o \in Outcomes : Advance(o, j, "complete")
                /\ UNCHANGED <<job, audit, payload, pos>>
  BY CallCounts, SMTT(30)
    DEF TypeInv, TypeOK, Goto, Failed, rows, Reject, SaveRaw, InsertListing,
      InsertScore, SaveStrategies

LEMMA FaultFreeVerdict ==
    ASSUME TypeInv, NEW j \in Jobs, faults' = 0
    PROVE /\ MarkRawProcessed(j) =>
                /\ pc[j] = "rawProcessed" /\ pc'[j] = "countProcessed"
                /\ UNCHANGED <<job, catalog, audit, payload, pos>>
          /\ MarkRawFailed(j) =>
                /\ pc[j] = "rawFailed" /\ pc'[j] = "countFailed"
                /\ UNCHANGED <<job, catalog, audit, payload, pos>>
          /\ IncrementProcessed(j) =>
                /\ pc[j] = "countProcessed" /\ pc'[j] = "item"
                /\ job'[j].processed = job[j].processed + 1
                /\ pos'[j] = pos[j] + 1
                /\ UNCHANGED <<catalog, audit, payload>>
          /\ IncrementFailed(j) =>
                /\ pc[j] = "countFailed" /\ pc'[j] = "item"
                /\ job'[j].processed = job[j].processed
                /\ pos'[j] = pos[j] + 1
                /\ UNCHANGED <<catalog, audit, payload>>
  BY CallCounts, CountJob, SMTT(30)
    DEF TypeInv, TypeOK, Goto, Failed, Applied, UpdateJob, NextItem,
      MarkRawProcessed, MarkRawFailed, IncrementProcessed, IncrementFailed

\* and past it.
LEMMA FaultFreeEnd ==
    ASSUME TypeInv, NEW j \in Jobs, faults' = 0
    PROVE /\ Review(j) =>
                /\ pc[j] = "item" /\ ~InLoop(j)
                /\ pc'[j] = IF AllFailed(j) THEN "fail" ELSE "complete"
                /\ UNCHANGED <<job, catalog, audit, payload, pos>>
          /\ MarkFailed(j) =>
                /\ pc[j] = "fail" /\ pc'[j] = "logFailed"
                /\ job'[j].processed = job[j].processed
                /\ job'[j].status = "failed"
                /\ UNCHANGED <<catalog, audit, payload, pos>>
          /\ MarkCompleted(j) =>
                /\ pc[j] = "complete" /\ pc'[j] = "reread"
                /\ job'[j].processed = job[j].processed
                /\ UNCHANGED <<catalog, audit, payload, pos>>
          /\ Reread(j) =>
                /\ pc[j] = "reread" /\ pc'[j] = "logCompleted"
                /\ UNCHANGED <<job, catalog, audit, payload, pos>>
          /\ LogVerdict(j) =>
                /\ pc'[j] = "done"
                /\ \/ /\ pc[j] = "logFailed"
                      /\ Record(j, "import.failed", NoCounts) \in audit'
                   \/ /\ pc[j] = "logCompleted"
                      /\ Record(j, "import.completed", seen[j]) \in audit'
                /\ audit \subseteq audit'
                /\ UNCHANGED <<job, catalog, payload, pos>>
  BY CallCounts, MarkJob, SMTT(30)
    DEF TypeInv, TypeOK, Goto, Failed, Applied, rows, UpdateJob, JobStatuses, Log,
      Review, MarkFailed, MarkCompleted, Reread, LogVerdict

\* What another goroutine does, or a crash, leaves the report of an upload alone.
LEMMA ReportFrame ==
    ASSUME NEW i \in Jobs, Delivered(i) /\ Tallied(i) /\ Logged(i),
           job'[i] = job[i], pc'[i] \in {pc[i], "dead"}, payload'[i] = payload[i],
           pos'[i] = pos[i], catalog'[i] = catalog[i], audit \subseteq audit'
    PROVE (Delivered(i) /\ Tallied(i) /\ Logged(i))'
  <1>1. Good(i)' = Good(i) /\ Live(i)' = Live(i)
    BY DEF Good, Live
  <1>2. Delivered(i)'
    BY <1>1 DEF Delivered
  <1>3. Tallied(i)'
    BY <1>1 DEF Tallied, Owed, Settling
  <1>4. Logged(i)'
    BY DEF Logged, Counters
  <1> QED
    BY <1>2, <1>3, <1>4

\* Good, of the item the goroutine is on.
LEMMA CurrentGood ==
    ASSUME TypeInv, NEW j \in Jobs, InLoop(j)
    PROVE (pos[j] \in Good(j)) <=> (Current(j).kind = "good")
  <1>1. pos[j] \in DOMAIN payload[j]
    BY CurrentIsEntry, UploadShape, ImportAssumption DEF InLoop, Positions, Uploads
  <1> QED
    BY <1>1 DEF Good, Current

LEMMA DeliveredStep ==
    ASSUME PipelineInv, NEW j \in Jobs, Create(j) \/ Work(j), faults' = 0,
           Delivered(j)
    PROVE Delivered(j)'
  <1>0. /\ TypeInv /\ StatusInv /\ StageInv
        /\ pos[j] \in Nat /\ Len(payload[j]) \in Nat /\ Positions \subseteq Nat
        /\ pc[j] \in ItemLabels => InLoop(j)
    BY PlaceInUpload DEF PipelineInv, TypeInv, LoopInv, Positions
  <1>1. payload'[j] = payload[j] => Good(j)' = Good(j)
    BY DEF Good
  <1>2. InLoop(j) => pos[j] \in Positions
    BY <1>0, CurrentIsEntry
  <1>3. CASE Create(j)
    BY <1>0, <1>3, FaultFreeStart, ImportAssumption DEF Delivered, Positions
  <1>4. CASE Announce(j) \/ MarkProcessing(j)
    BY <1>0, <1>1, <1>4, FaultFreeStart DEF Delivered
  <1>5. CASE Reject(j) \/ SaveRaw(j)
    <2>1. Current(j).kind = "malformed" => pos[j] \notin Good(j)
      BY <1>0, <1>5, CurrentGood DEF Reject, SaveRaw
    <2>2. catalog[j][pos[j]] = "absent"
      BY <1>0, <1>2, <1>5 DEF Reject, SaveRaw, StageInv
    <2> QED
      BY <1>0, <1>1, <1>5, <2>1, <2>2, FaultFreeItem DEF Delivered
  <1>6. CASE InsertListing(j)
    <2>1. InLoop(j) /\ catalog[j][pos[j]] = "absent"
      BY <1>0, <1>2, <1>6, FaultFreeItem DEF StageInv, ItemLabels
    <2>2. (pos[j] \in Good(j)) <=> (Current(j).kind = "good")
      BY <1>0, <2>1, CurrentGood
    <2>3. \A n \in Positions : n < pos[j] => catalog'[j][n] = catalog[j][n]
      BY <1>0, <1>6, <2>1, FaultFreeItem, AdvanceStep DEF Stages
    <2> QED
      BY <1>0, <1>1, <1>6, <2>1, <2>2, <2>3, FaultFreeItem DEF Delivered
  <1>7. CASE InsertScore(j) \/ SaveStrategies(j)
    <2>1. InLoop(j)
      BY <1>0, <1>7, FaultFreeItem DEF ItemLabels
    <2>2. \A n \in Positions : n < pos[j] => catalog'[j][n] = catalog[j][n]
      BY <1>0, <1>7, <2>1, FaultFreeItem, AdvanceStep DEF Stages
    <2> QED
      BY <1>0, <1>1, <1>7, <2>2, FaultFreeItem DEF Delivered
  <1>8. CASE MarkRawProcessed(j) \/ MarkRawFailed(j)
    BY <1>0, <1>1, <1>8, FaultFreeVerdict DEF Delivered
  <1>9. CASE IncrementProcessed(j)
    <2>1. catalog[j][pos[j]] = "complete" /\ pos[j] \in Good(j)
      BY <1>0, <1>2, <1>9, FaultFreeVerdict DEF StageInv, ItemLabels, Delivered
    <2> QED
      BY <1>0, <1>1, <1>9, <2>1, FaultFreeVerdict DEF Delivered
  <1>10. CASE IncrementFailed(j)
    <2>1. catalog[j][pos[j]] = "absent" /\ pos[j] \notin Good(j)
      BY <1>0, <1>10, FaultFreeVerdict DEF Delivered
    <2> QED
      BY <1>0, <1>1, <1>10, <2>1, FaultFreeVerdict DEF Delivered
  <1>11. CASE Review(j) \/ MarkFailed(j) \/ MarkCompleted(j) \/ Reread(j) \/ LogVerdict(j)
    BY <1>0, <1>1, <1>11, FaultFreeEnd DEF Delivered
  <1> QED
    BY <1>3, <1>4, <1>5, <1>6, <1>7, <1>8, <1>9, <1>10, <1>11
      DEF Work, ProcessOne, Ingest

LEMMA TalliedStep ==
    ASSUME PipelineInv, [Next]_vars, NEW j \in Jobs, Create(j) \/ Work(j),
           faults = 0, faults' = 0, Tallied(j)
    PROVE Tallied(j)'
  <1>0. /\ TypeInv /\ StatusInv /\ StageInv
        /\ pos[j] \in Nat /\ Len(payload[j]) \in Nat /\ pos[j] <= Len(payload[j]) + 1
        /\ job[j].processed \in Nat /\ job[j].failed \in Nat
        /\ Cardinality(Live(j)) \in Nat
        /\ pc[j] = "complete" => pos[j] = Len(payload[j]) + 1
    BY PlaceInUpload, LiveFinite DEF PipelineInv, TypeInv, TypeOK, JobRow, LoopInv
  <1>1. ~SaveStrategies(j) => Live(j)' = Live(j)
    BY <1>0, OwnLive
  <1> USE <1>0 DEF Tallied, Owed, Settling
  <1>2. CASE Create(j) \/ Announce(j) \/ MarkProcessing(j)
    <2>1. ~SaveStrategies(j)
      BY <1>2, FaultFreeStart DEF SaveStrategies
    <2> QED
      BY <1>1, <1>2, <2>1, FaultFreeStart
  <1>3. CASE Reject(j) \/ SaveRaw(j) \/ InsertListing(j) \/ InsertScore(j)
    <2>1. ~SaveStrategies(j)
      BY <1>3, FaultFreeItem DEF SaveStrategies
    <2> QED
      BY <1>1, <1>3, <2>1, FaultFreeItem
  <1>4. CASE SaveStrategies(j)
    <2>1. Cardinality(Live(j)') = Cardinality(Live(j)) + 1
      BY <1>4, LiveGrows, FaultFreeItem
    <2> QED
      BY <1>4, <2>1, FaultFreeItem
  <1>5. CASE \/ MarkRawProcessed(j) \/ MarkRawFailed(j)
             \/ IncrementProcessed(j) \/ IncrementFailed(j)
    <2>1. ~SaveStrategies(j)
      BY <1>5, FaultFreeVerdict DEF SaveStrategies
    <2> QED
      BY <1>1, <1>5, <2>1, FaultFreeVerdict
  <1>6. CASE Review(j)
    <2>1. pos[j] = Len(payload[j]) + 1
      BY <1>6, FaultFreeEnd DEF InLoop
    <2>2. Counted(j) = pos[j] - 1
      <3>1. Counted(j) <= pos[j] - 1 /\ pos[j] - 1 <= Counted(j) + faults
        BY DEF PipelineInv, CountInv
      <3> QED
        BY <3>1 DEF Counted
    <2>3. payload[j] # <<>> /\ payload[j] \in Uploads
      BY <1>6, FaultFreeEnd DEF TypeInv, TypeOK, LoopInv
    <2>4. Len(payload[j]) >= 1
      BY <2>3, UploadShape, ImportAssumption DEF Positions
    <2>5. AllFailed(j) <=> job[j].processed = 0
      BY <2>1, <2>2, <2>4 DEF AllFailed, Counted
    <2>6. Live(j)' = Live(j)
      BY <1>1, <1>6, FaultFreeEnd DEF SaveStrategies
    <2> QED
      BY <1>6, <2>1, <2>5, <2>6, FaultFreeEnd
  <1>7. CASE MarkFailed(j) \/ MarkCompleted(j) \/ Reread(j) \/ LogVerdict(j)
    <2>1. ~SaveStrategies(j)
      BY <1>7, FaultFreeEnd DEF SaveStrategies
    <2> QED
      BY <1>1, <1>7, <2>1, FaultFreeEnd
  <1> QED
    BY <1>2, <1>3, <1>4, <1>5, <1>6, <1>7 DEF Work, ProcessOne, Ingest

LEMMA LoggedStep ==
    ASSUME PipelineInv, [Next]_vars, NEW j \in Jobs, Create(j) \/ Work(j),
           faults' = 0, Tallied(j), Logged(j)
    PROVE Logged(j)'
  <1>0. TypeInv /\ StatusInv /\ audit \subseteq audit'
    BY Grows DEF PipelineInv, TypeInv
  <1> USE <1>0 DEF Logged
  <1>1. CASE Create(j) \/ Announce(j) \/ MarkProcessing(j)
    BY <1>1, FaultFreeStart
  <1>2. CASE Reject(j) \/ SaveRaw(j) \/ Ingest(j)
    BY <1>2, FaultFreeItem DEF Ingest
  <1>3. CASE \/ MarkRawProcessed(j) \/ MarkRawFailed(j)
             \/ IncrementProcessed(j) \/ IncrementFailed(j)
    BY <1>3, FaultFreeVerdict
  <1>4. CASE Review(j) \/ MarkFailed(j) \/ MarkCompleted(j) \/ Reread(j)
    BY <1>4, FaultFreeEnd
  <1>5. CASE LogVerdict(j)
    <2>1. pc[j] = "logCompleted" => job[j].status = "completed" /\ seen[j] = Counters(j)
      BY DEF StatusInv, PipelineInv, AuditInv, TypeOK, Counts, Counters
    <2>2. /\ pc[j] = "logFailed" => job[j].processed = 0 /\ job[j].status = "failed"
          /\ pc[j] = "logCompleted" => job[j].processed # 0
      BY DEF Tallied
    <2>3. Counters(j)' = Counters(j) /\ job'[j] = job[j]
      BY <1>5, FaultFreeEnd DEF Counters
    <2> QED
      BY <1>5, <2>1, <2>2, <2>3, FaultFreeEnd
  <1> QED
    BY <1>1, <1>2, <1>3, <1>4, <1>5 DEF Work, ProcessOne

LEMMA ReportInit == Init => ReportInv
  <1> SUFFICES ASSUME Init, NEW j \in Jobs
               PROVE Delivered(j) /\ Tallied(j) /\ Logged(j)
    BY DEF ReportInv
  <1>1. /\ pc[j] = "idle" /\ pos[j] = 1 /\ job[j].processed = 0
        /\ \A i \in Positions : catalog[j][i] = "absent"
    BY DEF Init, NoRow
  <1>2. Live(j) = {} /\ Cardinality(Live(j)) = 0
    BY <1>1, FS_EmptySet DEF Live
  <1>3. Delivered(j)
    BY <1>1, ImportAssumption DEF Delivered, Positions
  <1> QED
    BY <1>1, <1>2, <1>3 DEF Tallied, Logged, Owed, Settling

LEMMA ReportStep == PipelineInv /\ ReportInv /\ [Next]_vars => ReportInv'
  <1> SUFFICES ASSUME PipelineInv, ReportInv, [Next]_vars, faults' = 0,
                      NEW i \in Jobs
               PROVE (Delivered(i) /\ Tallied(i) /\ Logged(i))'
    BY DEF ReportInv
  <1>0. TypeInv /\ faults = 0 /\ audit \subseteq audit'
    BY Grows DEF PipelineInv, TypeInv
  <1>1. Delivered(i) /\ Tallied(i) /\ Logged(i)
    BY <1>0 DEF ReportInv
  <1>2. CASE Create(i) \/ Work(i)
    BY <1>0, <1>1, <1>2, DeliveredStep, TalliedStep, LoggedStep
  <1>3. CASE UNCHANGED vars \/ Crash
    <2>1. /\ UNCHANGED <<job, payload, pos, catalog>>
          /\ pc'[i] \in {pc[i], "dead"}
      BY <1>3 DEF vars, Crash, rows
    <2> QED
      BY <1>0, <1>1, <2>1, ReportFrame
  <1>4. ASSUME NEW j \in Jobs, Create(j) \/ Work(j), i # j
        PROVE (Delivered(i) /\ Tallied(i) /\ Logged(i))'
    BY <1>0, <1>1, <1>4, OthersKept, ReportFrame
  <1> QED
    BY <1>2, <1>3, <1>4 DEF Next

-----------------------------------------------------------------------------
(* The theorems *)

\* The whole inductive invariant holds in every reachable state: beside
\* PipelineInv, what a goroutine without a verdict leaves, who owns a
\* raw_listings row, and the report of an upload that met no fault.
THEOREM ReportInductive == Spec => []IndInv
  <1>1. Init => PipelineInv /\ TraceInv /\ RawInv /\ ReportInv
    BY TypeInit, StatusInit, StageInit, CountInit, AuditInit, TraceInit, RawInit,
      ReportInit DEF PipelineInv, TypeInv
  <1>2. TraceInv /\ RawInv /\ ReportInv /\ PipelineInv /\ [Next]_vars
          => (TraceInv /\ RawInv /\ ReportInv)'
    BY TraceStep, RawStep, ReportStep
  <1> QED
    BY <1>1, <1>2, Inductive, PTL DEF Spec, IndInv

\* A goroutine that ends without settling its job leaves an import.failed entry,
\* unless a second statement failed.
THEOREM StuckLeavesTrace == Spec => []StuckJobLeavesTrace
  <1>1. IndInv => StuckJobLeavesTrace
    BY TraceMeans DEF IndInv
  <1> QED
    BY ReportInductive, <1>1, PTL

\* The verdict of a raw_listings row is about the payload it holds, as long as
\* one upload alone contains the key.
THEOREM VerdictAboutPayload == Spec => []VerdictIsAboutPayload
  <1>1. Init => VerdictIsAboutPayload
    BY DEF Init, VerdictIsAboutPayload, NoRaw
  <1>2. IndInv /\ VerdictIsAboutPayload /\ [Next]_vars => VerdictIsAboutPayload'
    BY VerdictStep DEF IndInv
  <1> QED
    BY <1>1, <1>2, ReportInductive, PTL DEF Spec

\* A row is marked processed only if a listing of its key is in the catalogue
\* with all its scores, also when uploads race for the key.
THEOREM ProcessedKeysLive == Spec => []ProcessedKeyIsLive
  <1>1. Init => ProcessedKeyIsLive
    BY DEF Init, ProcessedKeyIsLive, NoRaw
  <1>2. IndInv /\ ProcessedKeyIsLive /\ [Next]_vars => ProcessedKeyIsLive'
    BY ProcessedStep DEF IndInv
  <1> QED
    BY <1>1, <1>2, ReportInductive, PTL DEF Spec

\* An upload that met no fault ends with exactly the report it deserves.
THEOREM FaultFree == Spec => []FaultFreeReport
  <1>1. IndInv => FaultFreeReport
    <2> SUFFICES ASSUME IndInv, NEW j \in Jobs, pc[j] = "done", faults = 0
                 PROVE /\ Live(j) = Good(j)
                       /\ \A i \in Positions \ Good(j) : catalog[j][i] = "absent"
                       /\ job[j].processed = Cardinality(Good(j))
                       /\ Counted(j) = job[j].total
                       /\ job[j].status = IF Good(j) = {} THEN "failed" ELSE "completed"
                       /\ Record(j, "import.started", NoCounts) \in audit
                       /\ IF Good(j) = {}
                          THEN Record(j, "import.failed", NoCounts) \in audit
                          ELSE Record(j, "import.completed", Counters(j)) \in audit
      BY DEF FaultFreeReport
    <2>1. TypeInv /\ StatusInv /\ StageInv /\ CountInv
      BY DEF IndInv, PipelineInv, TypeInv
    <2>2. Delivered(j) /\ Tallied(j) /\ Logged(j)
      BY DEF IndInv, ReportInv
    <2>3. /\ pos[j] = Len(payload[j]) + 1 /\ Len(payload[j]) \in Nat
          /\ job[j].processed \in Nat /\ job[j].failed \in Nat
          /\ Cardinality(Live(j)) = job[j].processed
      BY <2>1, <2>2, PlaceInUpload DEF Tallied, Settling, Owed, TypeInv, TypeOK, JobRow
    <2>4. /\ DOMAIN payload[j] = 1 .. Len(payload[j]) /\ Len(payload[j]) <= MaxItems
      <3>1. payload[j] \in Uploads
        BY <2>1 DEF TypeInv, TypeOK, LoopInv
      <3> QED
        BY <3>1, UploadShape, ImportAssumption DEF Uploads, Positions
    <2>5. Positions = 1 .. MaxItems /\ MaxItems \in Nat
      BY ImportAssumption DEF Positions
    <2>6. \A i \in Positions :
            catalog[j][i] = IF i \in Good(j) THEN "complete" ELSE "absent"
      <3> SUFFICES ASSUME NEW i \in Positions
                   PROVE catalog[j][i] = IF i \in Good(j) THEN "complete" ELSE "absent"
        OBVIOUS
      <3>1. CASE i <= Len(payload[j])
        BY <2>2, <2>3, <2>5, <3>1 DEF Delivered
      <3>2. CASE i > Len(payload[j])
        BY <2>1, <2>3, <2>4, <2>5, <3>2 DEF StageInv, Good
      <3> QED
        BY <2>3, <2>5, <3>1, <3>2
    <2>7. Live(j) = Good(j)
      BY <2>4, <2>5, <2>6 DEF Live, Good
    <2>8. Good(j) = {} <=> job[j].processed = 0
      BY <2>3, <2>7, LiveFinite, FS_EmptySet
    <2>9. Counted(j) = job[j].total
      <3>1. Counted(j) <= pos[j] - 1 /\ pos[j] - 1 <= Counted(j) + faults
        BY <2>1 DEF CountInv
      <3>2. job[j].status # "none" => job[j].total = Len(payload[j])
        BY <2>1 DEF StatusInv
      <3>3. job[j].total = Len(payload[j])
        BY <2>2, <3>2 DEF Logged
      <3>4. Counted(j) \in Nat
        BY <2>3 DEF Counted
      <3> QED
        BY <2>3, <3>1, <3>3, <3>4
    <2> QED
      BY <2>2, <2>3, <2>6, <2>7, <2>8, <2>9 DEF Logged
  <1> QED
    BY ReportInductive, <1>1, PTL

-----------------------------------------------------------------------------
(* The part of JobsSettle that is not about fairness *)

\* Wherever the goroutine of an upload has come to its end, its job is settled,
\* unless a statement failed or the process died.  (It does come to its end:
\* StatementsAreBounded.)
EndedAreSettled ==
    \A j \in Jobs : pc[j] \in Resting \ {"idle"} =>
        job[j].status \in Terminal \/ faults > 0 \/ crashes > 0

\* Only a crash ends a goroutine before its work is done.
DeadInv == \A j \in Jobs : pc[j] = "dead" => crashes > 0

LEMMA DeadStep ==
    ASSUME TypeInv, DeadInv, NEW j \in Jobs, Create(j) \/ Work(j)
    PROVE DeadInv'
  <1> USE DEF TypeInv, TypeOK, Goto
  <1>1. \A i \in Jobs : i # j => pc'[i] = pc[i]
    BY OthersKept
  <1>2. pc'[j] # "dead" /\ crashes' = crashes
    <2>1. CASE Create(j)
      BY <2>1 DEF Create
    <2>2. CASE Announce(j) \/ MarkProcessing(j)
      BY <2>2 DEF Announce, MarkProcessing
    <2>3. CASE Reject(j) \/ SaveRaw(j)
      BY <2>3 DEF Reject, SaveRaw
    <2>4. CASE Ingest(j)
      BY <2>4 DEF Ingest, InsertListing, InsertScore, SaveStrategies
    <2>5. CASE MarkRawProcessed(j) \/ MarkRawFailed(j)
      BY <2>5 DEF MarkRawProcessed, MarkRawFailed
    <2>6. CASE IncrementProcessed(j) \/ IncrementFailed(j)
      BY <2>6 DEF IncrementProcessed, IncrementFailed
    <2>7. CASE Review(j) \/ Reread(j)
      BY <2>7 DEF Review, Reread
    <2>8. CASE MarkFailed(j) \/ MarkCompleted(j)
      BY <2>8 DEF MarkFailed, MarkCompleted
    <2>9. CASE LogVerdict(j)
      BY <2>9 DEF LogVerdict
    <2> QED
      BY <2>1, <2>2, <2>3, <2>4, <2>5, <2>6, <2>7, <2>8, <2>9
        DEF Work, ProcessOne
  <1> QED
    BY <1>1, <1>2 DEF DeadInv

\* A poller of an upload whose goroutine has ended sees a verdict, if nothing
\* failed: with Bounded, all of JobsSettle but the fairness of the scheduler.
THEOREM EndedSettled == Spec => []EndedAreSettled
  <1>1. Init => DeadInv
    BY DEF Init, DeadInv
  <1>2. IndInv /\ DeadInv /\ [Next]_vars => DeadInv'
    <2> SUFFICES ASSUME IndInv, DeadInv, [Next]_vars
                 PROVE DeadInv'
      OBVIOUS
    <2>0. TypeInv
      BY DEF IndInv, PipelineInv, TypeInv
    <2>1. CASE Crash
      BY <2>0, <2>1 DEF Crash, DeadInv, TypeInv, TypeOK
    <2>2. ASSUME NEW j \in Jobs, Create(j) \/ Work(j)
          PROVE DeadInv'
      BY <2>0, <2>2, DeadStep
    <2>3. CASE UNCHANGED vars
      BY <2>3 DEF DeadInv, vars
    <2> QED
      BY <2>1, <2>2, <2>3 DEF Next
  <1>3. IndInv /\ DeadInv => EndedAreSettled
    <2> SUFFICES ASSUME IndInv, DeadInv, NEW j \in Jobs,
                        pc[j] \in Resting \ {"idle"}, faults = 0
                 PROVE job[j].status \in Terminal \/ crashes > 0
      BY DEF EndedAreSettled, IndInv, PipelineInv, TypeOK
    <2>1. Logged(j)
      BY DEF IndInv, ReportInv
    <2> QED
      BY <2>1 DEF Logged, DeadInv, Resting, Terminal
  <1> QED
    BY <1>1, <1>2, <1>3, ReportInductive, PTL DEF Spec

=============================================================================
