------------------------------ MODULE JobLedger ------------------------------
(***************************************************************************)
(* What an import job promises to the client that polls                    *)
(* GET /api/imports/{id}, and to the people who read the catalogue: the    *)
(* import_jobs row moves forward only, its counters never shrink and never *)
(* exceed the size of the upload, and it never counts as processed an item *)
(* whose listing is not in the catalogue with all its scores.              *)
(* ImportPipeline implements this specification.                           *)
(***************************************************************************)
EXTENDS Naturals

CONSTANTS
    Jobs,       \* the import jobs
    MaxItems    \* bound: the largest upload

VARIABLES
    status,     \* the columns of import_jobs that a poll returns
    total,
    processed,
    failed,
    live        \* how many listings of the job the catalogue serves in full

vars == <<status, total, processed, failed, live>>

Init ==
    /\ status = [j \in Jobs |-> "none"]
    /\ total = [j \in Jobs |-> 0]
    /\ processed = [j \in Jobs |-> 0]
    /\ failed = [j \in Jobs |-> 0]
    /\ live = [j \in Jobs |-> 0]

Move(j, from, to) ==
    /\ status[j] \in from
    /\ status' = [status EXCEPT ![j] = to]
    /\ UNCHANGED <<processed, failed, live>>

Open(j) ==
    /\ Move(j, {"none"}, "queued")
    /\ \E n \in 1 .. MaxItems : total' = [total EXCEPT ![j] = n]

Begin(j) ==
    /\ Move(j, {"queued"}, "processing")
    /\ UNCHANGED total

Deliver(j) ==
    /\ status[j] = "processing"
    /\ live[j] < total[j]
    /\ live' = [live EXCEPT ![j] = @ + 1]
    /\ UNCHANGED <<status, total, processed, failed>>

CountProcessed(j) ==
    /\ status[j] = "processing"
    /\ processed[j] < live[j]
    /\ processed[j] + failed[j] < total[j]
    /\ processed' = [processed EXCEPT ![j] = @ + 1]
    /\ UNCHANGED <<status, total, failed, live>>

CountFailed(j) ==
    /\ status[j] = "processing"
    /\ processed[j] + failed[j] < total[j]
    /\ failed' = [failed EXCEPT ![j] = @ + 1]
    /\ UNCHANGED <<status, total, processed, live>>

Complete(j) ==
    /\ failed[j] > 0 => processed[j] > 0
    /\ Move(j, {"processing"}, "completed")
    /\ UNCHANGED total

Fail(j) ==
    /\ Move(j, {"queued", "processing"}, "failed")
    /\ UNCHANGED total

Next ==
    \E j \in Jobs :
        \/ Open(j) \/ Begin(j) \/ Deliver(j)
        \/ CountProcessed(j) \/ CountFailed(j)
        \/ Complete(j) \/ Fail(j)

Spec == Init /\ [][Next]_vars
=============================================================================
