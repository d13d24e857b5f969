--------------------------- MODULE ImportPipeline ---------------------------
(***************************************************************************)
(* The bulk import of clean listings                                       *)
(* (internal/application/importlistings).  POST /api/imports/clean-listings*)
(* creates an import_jobs row and starts one goroutine per upload; the     *)
(* goroutine walks the upload, and for every item writes raw_listings,     *)
(* listings, lead_scores and property_strategy_scores in statements that   *)
(* share no transaction, counts the item in the job row, and at the end    *)
(* settles the job and records the verdict in the activity log.            *)
(*                                                                         *)
(* Every database statement is one step.  It can succeed, be refused       *)
(* without effect, or take effect and still return an error (the           *)
(* connection is lost after the commit): see Outcomes.  The process can    *)
(* die between two steps; nothing in the code resumes a job.               *)
(***************************************************************************)
EXTENDS Naturals, Sequences, FiniteSets

CONSTANTS
    Jobs,         \* the uploads, each with its own goroutine
    Keys,         \* (source, property_id) pairs: the unique key of raw_listings
    NoJob,        \* import_job_id of a raw_listings row that does not exist
    MaxItems,     \* bound: items of one upload
    MaxFaults,    \* bound: database statements that return an error
    MaxCrashes    \* bound: deaths of the API process

ASSUME ImportAssumption ==
    /\ NoJob \notin Jobs
    /\ MaxItems \in Nat \ {0}
    /\ MaxFaults \in Nat
    /\ MaxCrashes \in Nat

VARIABLES
    job,       \* import_jobs, one row per upload
    raw,       \* raw_listings, one row per key
    catalog,   \* how far the listing of item i of job j got into the catalogue
    audit,     \* the rows of activity_log about imports
    pc,        \* where the goroutine of job j is
    payload,   \* payloadCopy: the items of the upload
    pos,       \* the item the goroutine is on
    seen,      \* completedJob: the counters read back after completion
    faults,    \* statements that returned an error so far
    crashes    \* process deaths so far

rows == <<job, raw, catalog, audit>>
vars == <<job, raw, catalog, audit, pc, payload, pos, seen, faults, crashes>>

-----------------------------------------------------------------------------
(* Values.  Of the rows the model keeps the columns that some decision or     *)
(* property reads: error_message, started_at and completed_at are set by the *)
(* statements that set the status, and nothing reads them back.              *)

\* "malformed" is rejected by processOne before its first statement (or by
\* raw_listings, for an escaped NUL, with the same effect); "refused" is a value
\* that raw_listings stores as JSON and the columns of listings do not take (a
\* price beyond INTEGER); "good" is refused by no table.
Kinds == {"malformed", "refused", "good"}
Entry == [key: Keys, kind: Kinds]

Positions == 1 .. MaxItems
Uploads == UNION {[1 .. n -> Entry] : n \in Positions}

JobStatuses == {"none", "queued", "processing", "completed", "failed"}
Terminal == {"completed", "failed"}
JobRow == [status: JobStatuses, total: 0 .. MaxItems,
           processed: Nat, failed: Nat]
NoRow == [status |-> "none", total |-> 0, processed |-> 0, failed |-> 0]

\* item stands for raw_payload: the position, in its job, of what is stored.
RawRow == [status: {"none", "pending", "processed", "failed"},
           job: Jobs \cup {NoJob}, item: 0 .. MaxItems]
NoRaw == [status |-> "none", job |-> NoJob, item |-> 0]

\* No listing; a listing without scores (no reader sees it: the lead queries
\* join lead_scores); with its lead score; with its strategy scores too.
Stages == {"absent", "listed", "scored", "complete"}

Labels == {"idle", "announce", "begin", "item", "listing", "score",
           "strategies", "rawProcessed", "rawFailed", "countProcessed",
           "countFailed", "fail", "complete", "reread", "logCompleted",
           "logFailed", "done", "rejected", "dead"}
Resting == {"idle", "done", "rejected", "dead"}

Counts == [processed: Nat, failed: Nat]
Entries == [job: Jobs, action: {"import.started", "import.completed",
                                "import.failed"}, counts: Counts]
NoCounts == [processed |-> 0, failed |-> 0]
Record(j, action, counts) == [job |-> j, action |-> action, counts |-> counts]

-----------------------------------------------------------------------------
(* The database, and one statement of it *)

Outcomes == {"ok", "err", "lost"}
Failed(o) == o # "ok"
Applied(o) == o # "err"

Call(o) ==
    /\ Failed(o) => faults < MaxFaults
    /\ faults' = IF Failed(o) THEN faults + 1 ELSE faults

Goto(j, label) == pc' = [pc EXCEPT ![j] = label]

Init ==
    /\ job = [j \in Jobs |-> NoRow]
    /\ raw = [k \in Keys |-> NoRaw]
    /\ catalog = [j \in Jobs |-> [i \in Positions |-> "absent"]]
    /\ audit = {}
    /\ pc = [j \in Jobs |-> "idle"]
    /\ payload = [j \in Jobs |-> <<>>]
    /\ pos = [j \in Jobs |-> 1]
    /\ seen = [j \in Jobs |-> NoCounts]
    /\ faults = 0
    /\ crashes = 0

Queued(n) == [status |-> "queued", total |-> n, processed |-> 0, failed |-> 0]
Mark(row, status) == [row EXCEPT !.status = status]
AddProcessed(row) == [row EXCEPT !.processed = @ + 1]
AddFailed(row) == [row EXCEPT !.failed = @ + 1]

UpdateJob(o, table) == job' = IF Applied(o) THEN table ELSE job
UpdateRaw(o, table) == raw' = IF Applied(o) THEN table ELSE raw
Advance(o, j, stage) ==
    catalog' = IF Applied(o) THEN [catalog EXCEPT ![j][pos[j]] = stage]
                             ELSE catalog
Log(o, entry) == audit' = IF Applied(o) THEN audit \cup {entry} ELSE audit

Current(j) == payload[j][pos[j]]
InLoop(j) == pos[j] <= Len(payload[j])

-----------------------------------------------------------------------------
(* StartCleanListingsImport, on the request's goroutine *)

\* When Create returns an error the client is told so and no goroutine starts,
\* although the row may be there.
Create(j) ==
    /\ pc[j] = "idle"
    /\ \E upload \in Uploads, o \in Outcomes :
          /\ Call(o)
          /\ UpdateJob(o, [job EXCEPT ![j] = Queued(Len(upload))])
          /\ payload' = [payload EXCEPT ![j] = upload]
          /\ Goto(j, IF Failed(o) THEN "rejected" ELSE "announce")
    /\ UNCHANGED <<raw, catalog, audit, pos, seen, crashes>>

Announce(j) ==
    /\ pc[j] = "announce"
    /\ \E o \in Outcomes :
          Call(o) /\ Log(o, Record(j, "import.started", NoCounts))
    /\ Goto(j, "begin")
    /\ UNCHANGED <<job, raw, catalog, payload, pos, seen, crashes>>

-----------------------------------------------------------------------------
(* processImportJob, before and after its loop *)

MarkProcessing(j) ==
    /\ pc[j] = "begin"
    /\ \E o \in Outcomes :
          /\ Call(o)
          /\ UpdateJob(o, [job EXCEPT ![j] = Mark(@, "processing")])
          /\ Goto(j, IF Failed(o) THEN "fail" ELSE "item")
    /\ UNCHANGED <<raw, catalog, audit, payload, pos, seen, crashes>>

\* Mutants: one failed item fails the job; the counters are not looked at.
AnyFailed(j) == job[j].failed > 0
NeverFailed(j) == FALSE

\* "all listings failed to import"
AllFailed(j) == job[j].failed > 0 /\ job[j].processed = 0

\* Mutant: the verdict waits until every item has been counted.
ReviewWaits(j) ==
    /\ pc[j] = "item" /\ ~InLoop(j)
    /\ job[j].processed + job[j].failed = job[j].total
    /\ Goto(j, IF AllFailed(j) THEN "fail" ELSE "complete")
    /\ UNCHANGED <<rows, payload, pos, seen, faults, crashes>>

\* GetByID after the loop, and the decision taken on what it read.
Review(j) ==
    /\ pc[j] = "item" /\ ~InLoop(j)
    /\ \E o \in Outcomes \ {"lost"} :
          /\ Call(o)
          /\ Goto(j, IF Failed(o) \/ AllFailed(j) THEN "fail" ELSE "complete")
    /\ UNCHANGED <<rows, payload, pos, seen, crashes>>

\* Mutant: the verdict is logged and the row left alone.
MarkFailedNot(j) == pc[j] = "fail" /\ Goto(j, "logFailed")
                    /\ UNCHANGED <<rows, payload, pos, seen, faults, crashes>>

\* Its own error is dropped: the job may stay as it was.
MarkFailed(j) ==
    /\ pc[j] = "fail"
    /\ \E o \in Outcomes :
          /\ Call(o)
          /\ UpdateJob(o, [job EXCEPT ![j] = Mark(@, "failed")])
    /\ Goto(j, "logFailed")
    /\ UNCHANGED <<raw, catalog, audit, payload, pos, seen, crashes>>

\* Mutant: its error is dropped, as those of the counters are.
MarkCompletedSilent(j) ==
    /\ pc[j] = "complete"
    /\ \E o \in Outcomes :
          /\ Call(o)
          /\ UpdateJob(o, [job EXCEPT ![j] = Mark(@, "completed")])
          /\ Goto(j, IF Failed(o) THEN "done" ELSE "reread")
    /\ UNCHANGED <<raw, catalog, audit, payload, pos, seen, crashes>>

MarkCompleted(j) ==
    /\ pc[j] = "complete"
    /\ \E o \in Outcomes :
          /\ Call(o)
          /\ UpdateJob(o, [job EXCEPT ![j] = Mark(@, "completed")])
          /\ Goto(j, IF Failed(o) THEN "logFailed" ELSE "reread")
    /\ UNCHANGED <<raw, catalog, audit, payload, pos, seen, crashes>>

\* GetByID again, for the counters of the log entry.
Counters(j) == [processed |-> job[j].processed, failed |-> job[j].failed]

\* Mutant: the counters are never read back.
RereadBlind(j) ==
    /\ pc[j] = "reread"
    /\ \E o \in Outcomes \ {"lost"} :
          /\ Call(o)
          /\ Goto(j, IF Failed(o) THEN "logFailed" ELSE "logCompleted")
          /\ seen' = seen
    /\ UNCHANGED <<rows, payload, pos, crashes>>

\* Mutant: a failed read is treated like the one before it.
RereadFailsJob(j) ==
    /\ pc[j] = "reread"
    /\ \E o \in Outcomes \ {"lost"} :
          /\ Call(o)
          /\ Goto(j, IF Failed(o) THEN "fail" ELSE "logCompleted")
          /\ seen' = IF Failed(o) THEN seen
                     ELSE [seen EXCEPT ![j] = Counters(j)]
    /\ UNCHANGED <<rows, payload, pos, crashes>>

Reread(j) ==
    /\ pc[j] = "reread"
    /\ \E o \in Outcomes \ {"lost"} :
          /\ Call(o)
          /\ Goto(j, IF Failed(o) THEN "logFailed" ELSE "logCompleted")
          /\ seen' = IF Failed(o) THEN seen
                     ELSE [seen EXCEPT ![j] = Counters(j)]
    /\ UNCHANGED <<rows, payload, pos, crashes>>

LogVerdict(j) ==
    /\ \/ /\ pc[j] = "logFailed"
          /\ \E o \in Outcomes :
                Call(o) /\ Log(o, Record(j, "import.failed", NoCounts))
       \/ /\ pc[j] = "logCompleted"
          /\ \E o \in Outcomes :
                Call(o) /\ Log(o, Record(j, "import.completed", seen[j]))
    /\ Goto(j, "done")
    /\ UNCHANGED <<job, raw, catalog, payload, pos, seen, crashes>>

-----------------------------------------------------------------------------
(* processOne and the ingest it calls, for the item at pos[j] *)

Reject(j) ==
    /\ pc[j] = "item" /\ InLoop(j)
    /\ Current(j).kind = "malformed"
    /\ Goto(j, "countFailed")
    /\ UNCHANGED <<rows, payload, pos, seen, faults, crashes>>

\* Mutant: the upsert does not reset the status.
SaveRawKeepsStatus(j) ==
    /\ pc[j] = "item" /\ InLoop(j)
    /\ Current(j).kind # "malformed"
    /\ \E o \in Outcomes :
          /\ Call(o)
          /\ UpdateRaw(o, [raw EXCEPT ![Current(j).key] =
                 [status |-> IF raw[Current(j).key] = NoRaw
                      THEN "pending" ELSE raw[Current(j).key].status, job |-> j, item |-> pos[j]]])
          /\ Goto(j, IF Failed(o) THEN "countFailed" ELSE "listing")
    /\ UNCHANGED <<job, catalog, audit, payload, pos, seen, crashes>>

\* The upsert: a second upload of the key takes the row over.
SaveRaw(j) ==
    /\ pc[j] = "item" /\ InLoop(j)
    /\ Current(j).kind # "malformed"
    /\ \E o \in Outcomes :
          /\ Call(o)
          /\ UpdateRaw(o, [raw EXCEPT ![Current(j).key] =
                 [status |-> "pending", job |-> j, item |-> pos[j]]])
          /\ Goto(j, IF Failed(o) THEN "countFailed" ELSE "listing")
    /\ UNCHANGED <<job, catalog, audit, payload, pos, seen, crashes>>

InsertListing(j) ==
    /\ pc[j] = "listing"
    /\ \/ /\ Current(j).kind = "refused"
          /\ Goto(j, "rawFailed")
          /\ UNCHANGED <<catalog, faults>>
       \/ /\ Current(j).kind = "good"
          /\ \E o \in Outcomes :
                /\ Call(o)
                /\ Advance(o, j, "listed")
                /\ Goto(j, IF Failed(o) THEN "rawFailed" ELSE "score")
    /\ UNCHANGED <<job, raw, audit, payload, pos, seen, crashes>>

\* Mutant: its error is dropped.
InsertScoreLenient(j) ==
    /\ pc[j] = "score"
    /\ \E o \in Outcomes :
          /\ Call(o)
          /\ Advance(o, j, "scored")
          /\ Goto(j, "strategies")
    /\ UNCHANGED <<job, raw, audit, payload, pos, seen, crashes>>

InsertScore(j) ==
    /\ pc[j] = "score"
    /\ \E o \in Outcomes :
          /\ Call(o)
          /\ Advance(o, j, "scored")
          /\ Goto(j, IF Failed(o) THEN "rawFailed" ELSE "strategies")
    /\ UNCHANGED <<job, raw, audit, payload, pos, seen, crashes>>

\* Mutant: its error is dropped.
SaveStrategiesLenient(j) ==
    /\ pc[j] = "strategies"
    /\ \E o \in Outcomes :
          /\ Call(o)
          /\ Advance(o, j, "complete")
          /\ Goto(j, "rawProcessed")
    /\ UNCHANGED <<job, raw, audit, payload, pos, seen, crashes>>

\* SaveMany runs in one transaction: all the rows or none.
SaveStrategies(j) ==
    /\ pc[j] = "strategies"
    /\ \E o \in Outcomes :
          /\ Call(o)
          /\ Advance(o, j, "complete")
          /\ Goto(j, IF Failed(o) THEN "rawFailed" ELSE "rawProcessed")
    /\ UNCHANGED <<job, raw, audit, payload, pos, seen, crashes>>

\* The row is addressed by its id: whoever owns it by now gets the verdict.
MarkRawProcessed(j) ==
    /\ pc[j] = "rawProcessed"
    /\ \E o \in Outcomes :
          /\ Call(o)
          /\ UpdateRaw(o, [raw EXCEPT ![Current(j).key] = Mark(@, "processed")])
          /\ Goto(j, IF Failed(o) THEN "countFailed" ELSE "countProcessed")
    /\ UNCHANGED <<job, catalog, audit, payload, pos, seen, crashes>>

\* Mutant: processOne returns nil after it.
MarkRawFailedCounted(j) ==
    /\ pc[j] = "rawFailed"
    /\ \E o \in Outcomes :
          /\ Call(o)
          /\ UpdateRaw(o, [raw EXCEPT ![Current(j).key] = Mark(@, "failed")])
    /\ Goto(j, "countProcessed")
    /\ UNCHANGED <<job, catalog, audit, payload, pos, seen, crashes>>

MarkRawFailed(j) ==
    /\ pc[j] = "rawFailed"
    /\ \E o \in Outcomes :
          /\ Call(o)
          /\ UpdateRaw(o, [raw EXCEPT ![Current(j).key] = Mark(@, "failed")])
    /\ Goto(j, "countFailed")
    /\ UNCHANGED <<job, catalog, audit, payload, pos, seen, crashes>>

NextItem(j) == pos' = [pos EXCEPT ![j] = @ + 1]

\* The counters' own errors are dropped, so a count can be missing.
IncrementProcessed(j) ==
    /\ pc[j] = "countProcessed"
    /\ \E o \in Outcomes :
          Call(o) /\ UpdateJob(o, [job EXCEPT ![j] = AddProcessed(@)])
    /\ NextItem(j)
    /\ Goto(j, "item")
    /\ UNCHANGED <<raw, catalog, audit, payload, seen, crashes>>

\* Mutant: its continue is missing, and the item is counted as processed as well.
IncrementFailedFallsThrough(j) ==
    /\ pc[j] = "countFailed"
    /\ \E o \in Outcomes :
          Call(o) /\ UpdateJob(o, [job EXCEPT ![j] = AddFailed(@)])
    /\ Goto(j, "countProcessed")
    /\ UNCHANGED <<raw, catalog, audit, payload, pos, seen, crashes>>

\* Mutant: an item that failed is tried again, once it has been counted.
IncrementFailedRetries(j) ==
    /\ pc[j] = "countFailed"
    /\ \E o \in Outcomes :
          Call(o) /\ UpdateJob(o, [job EXCEPT ![j] = AddFailed(@)])
    /\ Goto(j, "item")
    /\ UNCHANGED <<raw, catalog, audit, payload, pos, seen, crashes>>

IncrementFailed(j) ==
    /\ pc[j] = "countFailed"
    /\ \E o \in Outcomes :
          Call(o) /\ UpdateJob(o, [job EXCEPT ![j] = AddFailed(@)])
    /\ NextItem(j)
    /\ Goto(j, "item")
    /\ UNCHANGED <<raw, catalog, audit, payload, seen, crashes>>

-----------------------------------------------------------------------------
(* The process dies: every goroutine with it, and nothing picks its job up. *)

Crash ==
    /\ crashes < MaxCrashes
    /\ \E j \in Jobs : pc[j] \notin Resting
    /\ crashes' = crashes + 1
    /\ pc' = [j \in Jobs |-> IF pc[j] \in Resting THEN pc[j] ELSE "dead"]
    /\ UNCHANGED <<rows, payload, pos, seen, faults>>

Ingest(j) ==
    \/ InsertListing(j) \/ InsertScore(j) \/ SaveStrategies(j)

ProcessOne(j) ==
    \/ Reject(j) \/ SaveRaw(j) \/ Ingest(j)
    \/ MarkRawProcessed(j) \/ MarkRawFailed(j)

\* What the code runs once Create has returned.
Work(j) ==
    \/ Announce(j) \/ MarkProcessing(j)
    \/ ProcessOne(j) \/ IncrementProcessed(j) \/ IncrementFailed(j)
    \/ Review(j) \/ MarkFailed(j) \/ MarkCompleted(j)
    \/ Reread(j) \/ LogVerdict(j)

Next == Crash \/ \E j \in Jobs : Create(j) \/ Work(j)

Spec == Init /\ [][Next]_vars

\* Goroutines are scheduled and the statements return: the goroutine runs on
\* context.Background() and nothing it calls waits for another goroutine.
FairSpec == Spec /\ \A j \in Jobs : WF_vars(Work(j))

-----------------------------------------------------------------------------
(* Properties *)

TypeOK ==
    /\ job \in [Jobs -> JobRow]
    /\ raw \in [Keys -> RawRow]
    /\ catalog \in [Jobs -> [Positions -> Stages]]
    /\ audit \subseteq Entries
    /\ pc \in [Jobs -> Labels]
    /\ payload \in [Jobs -> Uploads \cup {<<>>}]
    /\ pos \in [Jobs -> 1 .. MaxItems + 1]
    /\ seen \in [Jobs -> Counts]
    /\ faults \in 0 .. MaxFaults
    /\ crashes \in 0 .. MaxCrashes

Live(j) == {i \in Positions : catalog[j][i] = "complete"}
Counted(j) == job[j].processed + job[j].failed

\* A job never counts as processed more items than it has put in the catalogue
\* with every score, whatever fails between the statements of processOne and
\* the IncrementProcessed that follows it.
ProcessedAreLive ==
    \A j \in Jobs : job[j].processed <= Cardinality(Live(j))

\* The two counters together never run ahead of the loop, and fall behind it by
\* at most one for every statement that returned an error: dropping the errors
\* of the Increment calls loses counts, a whole item is never skipped and none
\* is counted twice.
MissingCountsAreFaults ==
    \A j \in Jobs : pos[j] - 1 - Counted(j) \in 0 .. faults

\* A job shown as completed has delivered something, unless there was a fault
\* for each of its items: the "all listings failed" test reads counters whose
\* updates are best effort, and that is how far it can be misled.
CompletedMeansDelivered ==
    \A j \in Jobs :
        job[j].status = "completed" => Live(j) # {} \/ faults >= job[j].total

\* What the activity log says of an import is what its job row says: an
\* import.completed entry carries the row's final counters, and no job has both
\* verdicts.  (The converse fails: a completed job whose re-read fails is logged
\* as import.failed.)
AuditAgreesWithJob ==
    \A e \in audit : e.action = "import.completed" =>
        /\ job[e.job].status = "completed"
        /\ e.counts.processed = job[e.job].processed
        /\ e.counts.failed = job[e.job].failed
        /\ Record(e.job, "import.failed", NoCounts) \notin audit

\* A goroutine that ends without settling its job, so that polls say queued or
\* processing for ever, leaves an import.failed entry, unless a second statement
\* failed as well.
StuckJobLeavesTrace ==
    \A j \in Jobs :
        pc[j] = "done" /\ job[j].status \notin Terminal =>
            \/ Record(j, "import.failed", NoCounts) \in audit
            \/ faults >= 2

Claims(j, k) == \E i \in DOMAIN payload[j] :
    payload[j][i].key = k /\ payload[j][i].kind # "malformed"
OnlyClaimant(j, k) == \A other \in Jobs : Claims(other, k) => other = j

\* The verdict of a raw_listings row is about the payload the row holds, as long
\* as one upload alone contains the key; also when the upload contains it twice.
\* (With two uploads in flight the verdict may be about the other's payload:
\* MarkProcessed and MarkFailed address the row by id only.)
VerdictIsAboutPayload ==
    \A k \in Keys : \A j \in Jobs :
        raw[k].job = j /\ OnlyClaimant(j, k) =>
            /\ raw[k].status = "processed" => raw[k].item \in Live(j)
            /\ raw[k].status = "failed" =>
                  raw[k].item \notin Live(j) \/ faults > 0

\* Even when uploads race for a key, a row is marked processed only if some
\* listing of that key is in the catalogue with all its scores.
ProcessedKeyIsLive ==
    \A k \in Keys : raw[k].status = "processed" =>
        \E j \in Jobs : \E i \in Live(j) : payload[j][i].key = k

Good(j) == {i \in DOMAIN payload[j] : payload[j][i].kind = "good"}

\* When no statement fails, the end of the goroutine leaves exactly the report
\* the upload deserves: each good item live and each other one absent from the
\* catalogue, all of them counted, the job failed only if nothing was good, and
\* the verdict logged.
FaultFreeReport ==
    \A j \in Jobs : pc[j] = "done" /\ faults = 0 =>
        /\ Live(j) = Good(j)
        /\ \A i \in Positions \ Good(j) : catalog[j][i] = "absent"
        /\ job[j].processed = Cardinality(Good(j))
        /\ Counted(j) = job[j].total
        /\ job[j].status = IF Good(j) = {} THEN "failed" ELSE "completed"
        /\ Record(j, "import.started", NoCounts) \in audit
        /\ IF Good(j) = {}
           THEN Record(j, "import.failed", NoCounts) \in audit
           ELSE Record(j, "import.completed", Counters(j)) \in audit

\* What can be wrong with the report of an upload: that the client was told it did
\* not start; that import.started is not logged; a good item that is not live; a
\* count that is missing; a failure that was decided although not every item was
\* counted as failed; a job without a verdict; a verdict that is not logged, or
\* not as the row has it.
GapKinds == {"created", "started", "item", "count", "decision", "row", "entry"}

VerdictEntry(j) ==
    IF job[j].status = "completed"
    THEN Record(j, "import.completed", Counters(j))
    ELSE Record(j, "import.failed", NoCounts)

\* The gaps of upload j as soon as they are certain; items and counts have several.
Gap(j, what, n) ==
    \/ /\ what = "item"
       /\ n \in Good(j) \ Live(j)
       /\ n < pos[j] \/ (n = pos[j] /\ pc[j] \in {"rawFailed", "countFailed"})
    \/ /\ what = "count"
       /\ n \in 1 .. pos[j] - 1 - Counted(j)
    \/ /\ n = 0
       /\ \/ what = "created" /\ pc[j] = "rejected"
          \/ /\ what = "started"
             /\ pc[j] \notin {"idle", "announce", "rejected", "dead"}
             /\ Record(j, "import.started", NoCounts) \notin audit
          \/ /\ what = "decision"
             /\ pc[j] = "fail" \/ job[j].status = "failed"
             /\ InLoop(j) \/ job[j].failed = 0 \/ job[j].processed > 0
          \/ /\ what = "row"
             /\ pc[j] \in {"logFailed", "done"}
             /\ job[j].status \notin Terminal
          \/ /\ what = "entry"
             /\ \/ pc[j] = "logFailed" /\ job[j].status = "completed"
                \/ pc[j] = "done" /\ VerdictEntry(j) \notin audit

Gaps == {g \in Jobs \X GapKinds \X (0 .. MaxItems) : Gap(g[1], g[2], g[3])}

\* Every gap in the report of every upload has cost a failed statement of its own,
\* all uploads taken together: no error is paid for twice, by a count and a
\* verdict, by the job row and the log, by two items, or by two uploads that race.
\* So a lost item, an import.failed entry beside a completed row, or a job that
\* stays queued or processing, is never what the code does of itself.  (A
\* goroutine that dies leaves undone what it had not come to.)
GapsAreFaults == Cardinality(Gaps) <= faults

\* The detailed pipeline implements what JobLedger promises a poller.
Ledger == INSTANCE JobLedger WITH
    status <- [j \in Jobs |-> job[j].status],
    total <- [j \in Jobs |-> job[j].total],
    processed <- [j \in Jobs |-> job[j].processed],
    failed <- [j \in Jobs |-> job[j].failed],
    live <- [j \in Jobs |-> Cardinality(Live(j))]
LedgerSpec == Ledger!Spec

\* Every goroutine ends, whatever errors the statements of its items return.
GoroutinesEnd ==
    \A j \in Jobs : pc[j] \notin Resting ~> pc[j] \in Resting

\* How many statements are left, at most, from a label and with so many items
\* after the one at hand: six for each item (fewer when one of them sends it to
\* its verdict), four to decide, settle and log, two before the loop.
Ahead(label, items) ==
    CASE label = "announce" -> 6 * items + 12
      [] label = "begin" -> 6 * items + 11
      [] label = "item" -> 6 * items + 10
      [] label = "listing" -> 6 * items + 9
      [] label = "score" -> 6 * items + 8
      [] label = "strategies" -> 6 * items + 7
      [] label \in {"rawProcessed", "rawFailed"} -> 6 * items + 6
      [] label \in {"countProcessed", "countFailed"} -> 6 * items + 5
      [] label = "complete" -> 3
      [] label \in {"fail", "reread"} -> 2
      [] label \in {"logFailed", "logCompleted"} -> 1
      [] OTHER -> 0
StepsLeft(j) == Ahead(pc[j], Len(payload[j]) - pos[j])

\* No path through the dropped errors, the continue of a failed item and the four
\* ways of settling comes back to where it was: every statement the goroutine of
\* an upload executes brings it nearer to its end, and what other goroutines do
\* does not take it farther away.  So no upload costs more than six statements an
\* item, and six more, whatever fails.
StatementsAreBounded ==
    [][\A j \in Jobs :
          /\ Work(j) => StepsLeft(j)' < StepsLeft(j)
          /\ pc[j] # "idle" => StepsLeft(j)' <= StepsLeft(j)
          /\ pc[j] = "idle" => StepsLeft(j)' <= 6 * Len(payload'[j]) + 6
          /\ StepsLeft(j)' \in Nat]_vars

\* A poller sees every job it was given settle, unless a statement failed or the
\* process died: there is no other way for a job to stay queued or processing.
JobsSettle ==
    \A j \in Jobs : job[j].status = "queued" ~>
        job[j].status \in Terminal \/ faults > 0 \/ crashes > 0

-----------------------------------------------------------------------------
(* The inductive invariant behind the theorems: PipelineInv for those of      *)
(* ImportPipeline_proofs, and on top of it the rest of IndInv for those of    *)
(* ImportReport_proofs.                                                       *)

\* The labels of the loop body: the goroutine is on an item of its upload.
ItemLabels == {"listing", "score", "strategies", "rawProcessed", "rawFailed",
               "countProcessed", "countFailed"}

\* The goroutine never is on an item beyond the end of its upload, and decides
\* and settles only past the end of it.
LoopInv == \A j \in Jobs :
    /\ pos[j] <= Len(payload[j]) + 1
    /\ pc[j] \in ItemLabels => InLoop(j)
    /\ pc[j] = "idle" <=> payload[j] = <<>>
    /\ pc[j] \in {"idle", "announce", "begin"} => pos[j] = 1
    /\ pc[j] = "complete" => pos[j] = Len(payload[j]) + 1

\* What the row shows for each place the goroutine can be at.
StatusInv == \A j \in Jobs :
    /\ pc[j] = "idle" => job[j] = NoRow
    /\ pc[j] \in {"announce", "begin"} => job[j].status = "queued"
    /\ pc[j] \in ItemLabels \cup {"item", "complete"} =>
            job[j].status = "processing"
    /\ pc[j] = "fail" => job[j].status \in {"queued", "processing"}
    /\ pc[j] \in {"reread", "logCompleted"} => job[j].status = "completed"
    /\ job[j].status # "none" => job[j].total = Len(payload[j])
    /\ pc[j] = "complete" \/ job[j].status = "completed" =>
            /\ pos[j] = Len(payload[j]) + 1
            /\ job[j].failed > 0 => job[j].processed > 0

\* How far into the catalogue the items before, at and after pos[j] have got.
StageInv == \A j \in Jobs :
    /\ \A i \in Positions :
          /\ i > pos[j] \/ i > Len(payload[j]) => catalog[j][i] = "absent"
          /\ i = pos[j] =>
                /\ pc[j] \in {"idle", "announce", "begin", "item", "listing"} =>
                      catalog[j][i] = "absent"
                /\ pc[j] = "score" => catalog[j][i] = "listed"
                /\ pc[j] = "strategies" => catalog[j][i] = "scored"
                /\ pc[j] \in {"rawProcessed", "countProcessed"} =>
                      catalog[j][i] = "complete"

Owed(j) == IF pc[j] \in {"rawProcessed", "countProcessed"} THEN 1 ELSE 0

\* The counters against the catalogue and against the loop.
CountInv == \A j \in Jobs :
    /\ job[j].processed + Owed(j) <= Cardinality(Live(j))
    /\ Counted(j) <= pos[j] - 1
    /\ pos[j] - 1 <= Counted(j) + faults

\* A verdict is logged by the last step only, and from counters that no later
\* statement changes.
AuditInv ==
    /\ \A j \in Jobs : pc[j] = "logCompleted" =>
            seen[j].processed = job[j].processed /\ seen[j].failed = job[j].failed
    /\ \A e \in audit : e.action # "import.started" => pc[e.job] = "done"
    /\ AuditAgreesWithJob

PipelineInv == TypeOK /\ LoopInv /\ StatusInv /\ StageInv /\ CountInv /\ AuditInv

\* A job that has no verdict when its verdict is to be logged has met a fault.
TraceInv == \A j \in Jobs : job[j].status \notin Terminal =>
    /\ pc[j] = "logFailed" => faults >= 1
    /\ pc[j] = "done" => Record(j, "import.failed", NoCounts) \in audit \/ faults >= 2

\* The labels between SaveRaw and the verdict on its row.
IngestLabels == {"listing", "score", "strategies", "rawProcessed", "rawFailed"}

\* A row holds an item of the upload that owns it, and an upload that has its key
\* to itself owns it from SaveRaw to the verdict, which is then about the item
\* the goroutine is on.
RawInv ==
    /\ \A k \in Keys, j \in Jobs : raw[k].job = j =>
          /\ raw[k].item \in DOMAIN payload[j]
          /\ payload[j][raw[k].item].key = k
          /\ payload[j][raw[k].item].kind # "malformed"
    /\ \A j \in Jobs : pc[j] \in IngestLabels =>
          /\ Current(j).kind # "malformed"
          /\ OnlyClaimant(j, Current(j).key) =>
                raw[Current(j).key] = [status |-> "pending", job |-> j, item |-> pos[j]]
    /\ \A j \in Jobs : pc[j] = "rawFailed" => pos[j] \notin Live(j) \/ faults > 0

\* Where the goroutine is past its loop.
Settling == {"fail", "complete", "reread", "logFailed", "logCompleted", "done"}

\* The report as far as it has got, in an upload that met no fault.  (A crash
\* leaves the item under way as it is.)  What is in the catalogue:
Delivered(j) ==
    /\ \A i \in Positions : i < pos[j] =>
          catalog[j][i] = IF i \in Good(j) THEN "complete" ELSE "absent"
    /\ pc[j] \in {"score", "strategies", "rawProcessed", "countProcessed"} =>
          pos[j] \in Good(j)
    /\ pc[j] \in {"rawFailed", "countFailed"} =>
          pos[j] \notin Good(j) /\ catalog[j][pos[j]] = "absent"

\* what is counted, and what is decided on it:
Tallied(j) ==
    /\ pc[j] # "dead" => Cardinality(Live(j)) = job[j].processed + Owed(j)
    /\ pc[j] \in Settling => pos[j] = Len(payload[j]) + 1
    /\ pc[j] \in {"fail", "logFailed"} => job[j].processed = 0
    /\ pc[j] \in {"complete", "reread", "logCompleted"} => job[j].processed > 0

\* and what the job row and the activity log say.
Logged(j) ==
    /\ pc[j] # "rejected"
    /\ pc[j] \notin {"idle", "announce", "dead"} =>
          Record(j, "import.started", NoCounts) \in audit
    /\ pc[j] = "logFailed" => job[j].status = "failed"
    /\ pc[j] = "done" =>
          IF job[j].processed = 0
          THEN /\ job[j].status = "failed"
               /\ Record(j, "import.failed", NoCounts) \in audit
          ELSE /\ job[j].status = "completed"
               /\ Record(j, "import.completed", Counters(j)) \in audit

ReportInv == faults = 0 => \A j \in Jobs : Delivered(j) /\ Tallied(j) /\ Logged(j)

IndInv == PipelineInv /\ TraceInv /\ RawInv /\ ReportInv

=============================================================================
