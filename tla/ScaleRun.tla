------------------------------ MODULE ScaleRun ------------------------------
(***************************************************************************)
(* One Scale Run, from the request that admitted it to its terminal        *)
(* evidence.  Three programs share its DynamoDB items:                     *)
(*   - the control Lambda (functions/scale_runs/app.py), invoked by the    *)
(*     API and by the Step Functions workflow (scale_run.asl.yaml),        *)
(*   - the partition workers (functions/scale_worker/app.py), fed by SQS,  *)
(*   - the request that created the run and still has to start its         *)
(*     workflow.                                                           *)
(* Every DynamoDB, S3, SQS or Athena call is one step, because any other   *)
(* program may run between two of them.                                    *)
(***************************************************************************)
EXTENDS Integers, FiniteSets

CONSTANTS
    Partitions,       \* the partitions of the plan, over all datasets
    Workers,          \* concurrent worker invocations
    NoPartition,      \* the partition of an idle worker
    Rows,             \* generated records of each partition
    Bad,              \* records of each partition that go to quarantine
    MaxReceive,       \* redrive limit of the queue (3 in template.yaml)
    BatchSize,        \* send_message_batch size (10 in the code)
    MaxFaults,        \* bound: crashes, errors and lost replies in a behaviour
    MaxDuplicates,    \* bound: extra deliveries by the at-least-once queue
    Retained,         \* bound: messages of older runs already in the shared DLQ
    MaxForeign,       \* bound: ... and those that still arrive there
    ExecutionTimeout, \* whether the workflow's own TimeoutSeconds may strike
    CreatorFaults     \* whether the creating request may fail or die half way

ASSUME ScaleRunAssumption ==
    /\ IsFiniteSet(Partitions) /\ Partitions # {}
    /\ NoPartition \notin Partitions
    /\ Rows \in [Partitions -> Nat] /\ Bad \in [Partitions -> Nat]
    /\ \A p \in Partitions : Bad[p] <= Rows[p]
    /\ MaxReceive \in Nat \ {0} /\ BatchSize \in Nat \ {0}
    /\ MaxFaults \in Nat /\ MaxDuplicates \in Nat
    /\ Retained \in Nat /\ MaxForeign \in Nat
    /\ ExecutionTimeout \in BOOLEAN /\ CreatorFaults \in BOOLEAN

VARIABLES
    run,        \* RUN#<id>/META
    parts,      \* RUN#<id>/PART#<p>, one row per partition
    lock,       \* whether LOCK#ACTIVE names this run
    proof,      \* whether PROOF#100k names this run
    receipts,   \* the receipt object of each partition in S3
    manifest,   \* the run manifest in S3: the receipt hash of each partition
    msgs,       \* where the message of each partition is
    receives,   \* ApproximateReceiveCount of each message
    sends,      \* how often a message was accepted for each partition
    foreign,    \* messages of older runs in the DLQ
    arrivals,   \* ... of which this many arrived during this run
    workers,    \* the worker invocations
    creator,    \* progress of the request that created the run
    wf,         \* current state of the workflow
    call,       \* the control Lambda invocation of that state
    athena,     \* the UNLOAD queries
    late,       \* whether deadline_at has passed
    faults, duplicates

ledger  == <<run, parts, lock, proof>>
objects == <<receipts, manifest>>
queue   == <<msgs, receives, sends, foreign, arrivals>>
control == <<creator, wf, call>>
vars    == <<ledger, objects, queue, workers, control, athena, late, faults, duplicates>>

Done        == {"completed", "completed_with_quarantine"}
Terminal    == Done \cup {"failed", "canceled"}
Accepting   == {"requested", "partitioning"}
Statuses    == Accepting \cup {"aggregating", "canceling"} \cup Terminal
FinishedPart == {"completed", "failed"}

Tasks == {"DispatchPartitions", "CheckPartitions", "StartAthenaConversion",
          "CheckAthena", "FinalizeRun", "RecordWorkflowFailure"}
Ends  == {"RunCompleted", "RunCanceled", "WorkflowFailed", "TimedOut"}

NoBaseline == -1
Idle       == [pc |-> "idle", dlq |-> 0, todo |-> {}, batch |-> {}, sent |-> {},
               rejected |-> FALSE]
IdleWorker == [pc |-> "idle", part |-> NoPartition, rc |-> 0]

CompletedSet == {p \in Partitions : parts[p].status = "completed"}
FailedSet    == {p \in Partitions : parts[p].status = "failed"}

\* The shared dead-letter queue holds this run's poison messages and others'.
DlqCount == foreign + Cardinality({p \in Partitions : msgs[p] = "dlq"})

\* Mutant: no baseline.
MutantBaseline == 0

\* run.get("dlq_baseline_count", 0)
Baseline == IF run.baseline = NoBaseline THEN 0 ELSE run.baseline

Init ==
    /\ run = [status |-> "requested", total |-> 0, completed |-> 0, failed |-> 0,
              generated |-> 0, curated |-> 0, quarantined |-> 0,
              baseline |-> NoBaseline, queries |-> FALSE]
    /\ parts = [p \in Partitions |->
                  [status |-> "absent", dispatch |-> "queued", sha |-> 0]]
    /\ lock = TRUE /\ proof = FALSE
    /\ receipts = [p \in Partitions |-> 0]
    /\ manifest = [p \in Partitions |-> 0]
    /\ msgs = [p \in Partitions |-> "unsent"]
    /\ receives = [p \in Partitions |-> 0]
    /\ sends = [p \in Partitions |-> 0]
    /\ foreign \in 0..Retained /\ arrivals = 0
    /\ workers = [w \in Workers |-> IdleWorker]
    /\ creator = "starting" /\ wf = "NotStarted" /\ call = Idle
    /\ athena = "none" /\ late = FALSE
    /\ faults = 0 /\ duplicates = 0

Fault == faults < MaxFaults /\ faults' = faults + 1

SetStatus(s) == run' = [run EXCEPT !.status = s]

\* Mutant: only a published run releases the lock.
MutantReleaseLock == /\ lock' = IF run.status \in Done THEN FALSE ELSE lock
                     /\ UNCHANGED faults

\* _release_lock deletes LOCK#ACTIVE if it names this run and swallows any error.
ReleaseLock == \/ lock' = FALSE /\ UNCHANGED faults
               \/ Fault /\ UNCHANGED lock

-----------------------------------------------------------------------------
(* The request that created the run, after its four-item transaction.      *)

StartExecution ==
    /\ creator = "starting"
    /\ creator' = "recording" /\ wf' = "DispatchPartitions"
    /\ UNCHANGED <<ledger, objects, queue, workers, call, athena, late, faults, duplicates>>

\* update_item(execution_started_at) succeeds and the request answers.
RecordStart ==
    /\ creator = "recording" /\ creator' = "answered"
    /\ UNCHANGED <<ledger, objects, queue, workers, wf, call, athena, late, faults, duplicates>>

\* start_execution, or the update after a start that succeeded, raises.
StartFails ==
    /\ CreatorFaults /\ creator \in {"starting", "recording"} /\ Fault
    /\ creator' = "failing"
    /\ UNCHANGED <<ledger, objects, queue, workers, wf, call, athena, late, duplicates>>

\* _fail_run(run_id, "workflow_start_failed"): an unconditional status write.
RecordStartFailure ==
    /\ creator = "failing" /\ creator' = "releasing"
    /\ SetStatus("failed")
    /\ UNCHANGED <<parts, lock, proof, objects, queue, workers, wf, call, athena, late,
                   faults, duplicates>>

CreatorReleases ==
    /\ creator = "releasing" /\ creator' = "answered"
    /\ ReleaseLock
    /\ UNCHANGED <<run, parts, proof, objects, queue, workers, wf, call, athena, late, duplicates>>

CreatorDies ==
    /\ CreatorFaults /\ creator # "answered" /\ Fault
    /\ creator' = "answered"
    /\ UNCHANGED <<ledger, objects, queue, workers, wf, call, athena, late, duplicates>>

CreatorStep == StartExecution \/ RecordStart \/ RecordStartFailure \/ CreatorReleases

-----------------------------------------------------------------------------
(* The workflow: each Task invokes the control Lambda, which runs one step *)
(* at a time.  `call.pc' is where the invocation is.                       *)

At(task, pc) == wf = task /\ call.pc = pc
Goto(pc)     == call' = [call EXCEPT !.pc = pc] /\ UNCHANGED wf

\* Mutant: a Catch that goes straight to the Fail state.
MutantOnError == "WorkflowFailed"

\* Catch: [States.ALL].  RecordWorkflowFailure itself has no Catch.
OnError == IF wf = "RecordWorkflowFailure" THEN "WorkflowFailed" ELSE "RecordWorkflowFailure"
Raise   == call' = Idle /\ wf' = OnError /\ UNCHANGED faults

\* The invocation answers and the workflow moves on; or its answer is lost after its
\* last write: a Lambda.* error makes the task's Retry block invoke it again, any
\* other error (a timeout, a write that was applied but reported an error) is caught.
Return(next) ==
    /\ call' = Idle
    /\ \/ wf' = next /\ UNCHANGED faults
       \/ Fault /\ wf' \in {wf, OnError}

\* The state a Choice picks for a terminal run.
EndFor(s) == CASE s \in Done -> "RunCompleted"
               [] s = "canceled" -> "RunCanceled"
               [] OTHER -> "WorkflowFailed"

\* The invocation dies between two calls, or before the first one: retried when
\* the error is one of the Lambda.* errors, caught otherwise.
InvocationFails ==
    /\ wf \in Tasks /\ Fault
    /\ call' = Idle /\ wf' \in {wf, OnError}
    /\ UNCHANGED <<ledger, objects, queue, workers, creator, athena, late, duplicates>>

----------------------------------------------------------------------------
(* _dispatch                                                               *)

\* Reads the run, then the DLQ depth; a failed read of the queue counts as zero.
DispatchRead ==
    /\ At("DispatchPartitions", "idle")
    /\ \/ /\ run.status \in Terminal \cup {"canceling"}
          /\ Return("CheckPartitions")
       \/ /\ run.status \notin Terminal \cup {"canceling"}
          /\ \/ call' = [Idle EXCEPT !.pc = "init", !.dlq = DlqCount] /\ UNCHANGED faults
             \/ call' = [Idle EXCEPT !.pc = "init"] /\ DlqCount > 0 /\ Fault
          /\ UNCHANGED wf
    /\ UNCHANGED <<ledger, objects, queue, workers, creator, athena, late, duplicates>>

DispatchInit ==
    /\ At("DispatchPartitions", "init")
    /\ \/ /\ run.status \in Accepting
          /\ run' = [run EXCEPT !.total = Cardinality(Partitions),
                                !.baseline = IF @ = NoBaseline THEN call.dlq ELSE @]
          /\ Goto("ledger") /\ UNCHANGED faults
       \/ /\ run.status \notin Accepting
          /\ Return("CheckPartitions") /\ UNCHANGED run
    /\ UNCHANGED <<parts, lock, proof, objects, queue, workers, creator, athena, late, duplicates>>

\* A row whose send was attempted and never acknowledged, nor picked up by a worker.
Uncertain(p) == parts[p].status = "queued" /\ parts[p].dispatch = "dispatching"

\* A row to send: acknowledged rows and rows a worker picked up are skipped.
Pending(p) == /\ parts[p].status \in {"absent", "queued"}
              /\ parts[p].dispatch # "acknowledged"

\* Puts the missing rows (attribute_not_exists) and collects those to send.  A row that
\* conflicts with the deterministic plan cannot occur: nothing changes its fields.
DispatchLedger ==
    /\ At("DispatchPartitions", "ledger")
    /\ parts' = [p \in Partitions |->
                   IF parts[p].status = "absent" THEN [parts[p] EXCEPT !.status = "queued"]
                                                 ELSE parts[p]]
    /\ LET todo == {p \in Partitions : Pending(p)}
       IN  IF \E p \in Partitions : Uncertain(p)
           THEN Raise
           ELSE /\ call' = [call EXCEPT !.todo = todo,
                                        !.pc = IF todo = {} THEN "announce" ELSE "mark"]
                /\ UNCHANGED <<wf, faults>>
    /\ UNCHANGED <<run, lock, proof, objects, queue, workers, creator, athena, late, duplicates>>

\* The condition of the mark.
Unsent(p) == parts[p].status = "queued" /\ parts[p].dispatch = "queued"

\* Mutant: the mark only records the time of the attempt.
MutantMarked(row) == row

Marked(row) == [row EXCEPT !.dispatch = "dispatching"]

\* The next batch is marked, row by row, before SQS is called.
DispatchMark ==
    /\ At("DispatchPartitions", "mark")
    /\ \E batch \in SUBSET call.todo :
         /\ batch # {}
         /\ Cardinality(batch) <= BatchSize
         /\ Cardinality(batch) = BatchSize \/ batch = call.todo
         /\ parts' = [p \in Partitions |->
                        IF p \in batch /\ Unsent(p) THEN Marked(parts[p]) ELSE parts[p]]
         /\ IF \A p \in batch : Unsent(p)
            THEN /\ call' = [call EXCEPT !.pc = "send", !.batch = batch, !.todo = @ \ batch]
                 /\ UNCHANGED <<wf, faults>>
            ELSE Raise
    /\ UNCHANGED <<run, lock, proof, objects, queue, workers, creator, athena, late, duplicates>>

\* send_message_batch accepts some entries and may report the others as Failed.
DispatchSend ==
    /\ At("DispatchPartitions", "send")
    /\ \E sent \in SUBSET call.batch :
         /\ IF sent = call.batch THEN UNCHANGED faults ELSE Fault
         /\ msgs'  = [p \in Partitions |-> IF p \in sent THEN "visible" ELSE msgs[p]]
         /\ sends' = [p \in Partitions |-> IF p \in sent THEN sends[p] + 1 ELSE sends[p]]
         /\ call'  = [call EXCEPT !.pc = "ack", !.sent = sent,
                                      !.rejected = (sent # call.batch)]
    /\ UNCHANGED <<ledger, objects, receives, foreign, arrivals, workers, creator, wf, athena, late,
                   duplicates>>

\* One update per entry: successful ones first, then the failed ones back to queued.
DispatchAck ==
    /\ At("DispatchPartitions", "ack") /\ call.batch # {}
    /\ \E p \in call.batch :
         /\ call.batch \cap call.sent # {} => p \in call.sent
         /\ parts' = [parts EXCEPT ![p].dispatch =
                        IF p \in call.sent THEN "acknowledged" ELSE "queued"]
         /\ call' = [call EXCEPT !.batch = @ \ {p}]
    /\ UNCHANGED <<run, lock, proof, objects, queue, workers, creator, wf, athena, late,
                   faults, duplicates>>

\* A rejected entry stops dispatch; otherwise the next batch, or the announcement.
DispatchNext ==
    /\ At("DispatchPartitions", "ack") /\ call.batch = {}
    /\ IF call.rejected
       THEN Raise
       ELSE /\ call' = [call EXCEPT !.sent = {},
                                    !.pc = IF call.todo = {} THEN "announce" ELSE "mark"]
            /\ UNCHANGED <<wf, faults>>
    /\ UNCHANGED <<ledger, objects, queue, workers, creator, athena, late, duplicates>>

DispatchAnnounce ==
    /\ At("DispatchPartitions", "announce")
    /\ Return("CheckPartitions")
    /\ IF run.status \in Accepting THEN SetStatus("partitioning") ELSE UNCHANGED run
    /\ UNCHANGED <<parts, lock, proof, objects, queue, workers, creator, athena, late, duplicates>>

DispatchStep == \/ DispatchRead \/ DispatchInit \/ DispatchLedger \/ DispatchMark
                \/ DispatchSend \/ DispatchAck \/ DispatchNext \/ DispatchAnnounce

-----------------------------------------------------------------------------
(* _check                                                                  *)

AllCounted == run.total > 0 /\ run.completed >= run.total

PoisonSeen(dlq) == run.failed > 0 \/ dlq > Baseline

\* One read of the run and of the queue, and the decision it leads to.
CheckRead ==
    /\ At("CheckPartitions", "idle")
    /\ \/ /\ run.status = "canceling"
          /\ Goto("cancel") /\ UNCHANGED faults
       \/ /\ run.status \in Terminal
          /\ Return(EndFor(run.status))
       \/ /\ run.status \notin Terminal \cup {"canceling"} /\ late
          /\ Goto("fail") /\ UNCHANGED faults
       \/ /\ run.status \notin Terminal \cup {"canceling"} /\ ~late
          /\ \E dlq \in {0, DlqCount} :
               /\ IF dlq = DlqCount THEN UNCHANGED faults ELSE Fault
               /\ IF PoisonSeen(dlq)
                  THEN Goto("fail")
                  ELSE IF AllCounted
                  THEN Goto("aggregate")
                  ELSE UNCHANGED <<call, wf>>
    /\ UNCHANGED <<ledger, objects, queue, workers, creator, athena, late, duplicates>>

\* The write that follows the decision carries no condition on the status.
CheckAggregate ==
    /\ At("CheckPartitions", "aggregate")
    /\ SetStatus("aggregating")
    /\ Return("StartAthenaConversion")
    /\ UNCHANGED <<parts, lock, proof, objects, queue, workers, creator, athena, late, duplicates>>

-----------------------------------------------------------------------------
(* _start_athena and _check_athena.  The queries of the six datasets are   *)
(* one `athena' state: none, running, succeeded, failed.                   *)

\* start_query_execution is idempotent (ClientRequestToken), so a retry that finds
\* no recorded queries joins the ones already started.
AthenaStart ==
    /\ At("StartAthenaConversion", "idle")
    /\ \/ /\ run.status = "canceling"
          /\ Goto("cancel") /\ UNCHANGED <<faults, athena>>
       \/ /\ run.status \in Terminal \/ (run.status # "canceling" /\ run.queries)
          /\ Return("CheckAthena") /\ UNCHANGED athena
       \/ /\ run.status \notin Terminal \cup {"canceling"} /\ ~run.queries
          /\ athena' = IF athena = "none" THEN "running" ELSE athena
          /\ Goto("store") /\ UNCHANGED faults
    /\ UNCHANGED <<ledger, objects, queue, workers, creator, late, duplicates>>

\* What a step that found the run out of aggregation does with the status it reads.
LeftAggregation(next) ==
    CASE run.status = "canceling" -> Goto("cancel") /\ UNCHANGED faults
      [] run.status \in Terminal -> Return(next)
      [] OTHER -> Raise

StopQueries == athena' = IF athena = "running" THEN "failed" ELSE athena

AthenaStore ==
    /\ At("StartAthenaConversion", "store")
    /\ \/ /\ run.status = "aggregating"
          /\ run' = [run EXCEPT !.queries = TRUE]
          /\ Return("CheckAthena") /\ UNCHANGED athena
       \/ /\ run.status # "aggregating"
          /\ StopQueries /\ LeftAggregation("CheckAthena") /\ UNCHANGED run
    /\ UNCHANGED <<parts, lock, proof, objects, queue, workers, creator, late, duplicates>>

\* AthenaDecision: a completed run would come without the field that the last Choice reads.
AthenaEnd == IF run.status = "canceled" THEN "RunCanceled" ELSE "WorkflowFailed"

AthenaCheck ==
    /\ At("CheckAthena", "idle")
    /\ \/ /\ run.status = "canceling"
          /\ IF run.queries THEN StopQueries ELSE UNCHANGED athena
          /\ Goto("cancel") /\ UNCHANGED faults
       \/ /\ run.status \in Terminal
          /\ Return(AthenaEnd) /\ UNCHANGED athena
       \/ /\ run.status \notin Terminal \cup {"canceling"}
          /\ IF ~run.queries THEN Raise
             ELSE IF athena = "failed" THEN Goto("fail") /\ UNCHANGED faults
             ELSE IF athena = "succeeded" THEN Return("FinalizeRun")
             ELSE UNCHANGED <<call, wf, faults>>
          /\ UNCHANGED athena
    /\ UNCHANGED <<ledger, objects, queue, workers, creator, late, duplicates>>

-----------------------------------------------------------------------------
(* _finalize                                                               *)

\* Mutant: the manifest hashes the stored object again instead of the ledger's hash.
MutantManifestEntry(p) == receipts[p]

ManifestEntry(p) == parts[p].sha

\* Reads the run and every partition row and writes the manifest.  The rows can no
\* longer change (CompletedIsFinal), so the read and the write are one step.
FinalizeEvidence ==
    /\ At("FinalizeRun", "idle")
    /\ \/ /\ run.status = "canceling"
          /\ Goto("cancel") /\ UNCHANGED <<faults, manifest>>
       \/ /\ run.status \in Terminal
          /\ Return(EndFor(run.status)) /\ UNCHANGED manifest
       \/ /\ run.status \notin Terminal \cup {"canceling"}
          /\ IF /\ \A p \in Partitions : parts[p].status = "completed"
                /\ run.total = Cardinality(Partitions)
             THEN /\ manifest' = [p \in Partitions |-> ManifestEntry(p)]
                  \* _fail_run and raise; the workflow then records the failure again.
                  /\ Goto(IF run.generated = run.curated + run.quarantined
                          THEN "publish" ELSE "fail")
                  /\ UNCHANGED faults
             ELSE Raise /\ UNCHANGED manifest
    /\ UNCHANGED <<ledger, receipts, queue, workers, creator, athena, late, duplicates>>

FinalizePublish ==
    /\ At("FinalizeRun", "publish")
    /\ \/ /\ run.status = "aggregating"
          /\ SetStatus(IF run.quarantined > 0 THEN "completed_with_quarantine" ELSE "completed")
          /\ Goto("release_done") /\ UNCHANGED faults
       \/ /\ run.status # "aggregating"
          /\ LeftAggregation(EndFor(run.status)) /\ UNCHANGED run
    /\ UNCHANGED <<parts, lock, proof, objects, queue, workers, creator, athena, late, duplicates>>

\* The 100k profile leaves a capacity proof, which unlocks the larger profiles.
FinalizeProof ==
    /\ At("FinalizeRun", "proof")
    /\ proof' = TRUE
    /\ Return("RunCompleted")
    /\ UNCHANGED <<run, parts, lock, objects, queue, workers, creator, athena, late, duplicates>>

-----------------------------------------------------------------------------
(* _complete_cancel, _fail_run and _fail_orchestration: an unconditional   *)
(* status write, then the release of the lock.                             *)

RecordCancel ==
    /\ call.pc = "cancel"
    /\ SetStatus("canceled") /\ Goto("release_cancel")
    /\ UNCHANGED <<parts, lock, proof, objects, queue, workers, creator, athena, late,
                   faults, duplicates>>

RecordFailure ==
    /\ call.pc = "fail" \/ At("RecordWorkflowFailure", "idle")
    /\ SetStatus("failed") /\ Goto("release_fail")
    /\ UNCHANGED <<parts, lock, proof, objects, queue, workers, creator, athena, late,
                   faults, duplicates>>

\* The release is the last write.  An answer lost here and retried reads the terminal
\* status and ends in the same state, so this step only answers.
\* StartAthenaConversion has no Choice: CheckAthena reads the terminal status next.
AfterRelease ==
    IF wf = "StartAthenaConversion" THEN "CheckAthena"
    ELSE IF call.pc = "release_cancel" THEN "RunCanceled" ELSE "WorkflowFailed"

CallReleases ==
    /\ call.pc \in {"release_cancel", "release_fail", "release_done"}
    /\ ReleaseLock
    /\ IF call.pc = "release_done"
       THEN Goto("proof")
       ELSE call' = Idle /\ wf' = AfterRelease
    /\ UNCHANGED <<run, parts, proof, objects, queue, workers, creator, athena, late, duplicates>>

WorkflowStep ==
    \/ DispatchStep
    \/ CheckRead \/ CheckAggregate
    \/ AthenaStart \/ AthenaStore \/ AthenaCheck
    \/ FinalizeEvidence \/ FinalizePublish \/ FinalizeProof
    \/ RecordCancel \/ RecordFailure \/ CallReleases

-----------------------------------------------------------------------------
(* The partition workers and their queue.                                  *)

\* The handler returns without a batch item failure and SQS deletes the message.
Ack(w) ==
    /\ msgs' = [msgs EXCEPT ![workers[w].part] = "deleted"]
    /\ workers' = [workers EXCEPT ![w] = IdleWorker]

\* The handler reports a batch item failure: the message stays in flight.
GiveUp(w) ==
    /\ workers' = [workers EXCEPT ![w] = IdleWorker]
    /\ UNCHANGED msgs

Advance(w, pc) == workers' = [workers EXCEPT ![w].pc = pc] /\ UNCHANGED msgs

\* The except branch of the handler, which on the last receive first tries to
\* record the partition as failed.
HandlerError(w) ==
    IF workers[w].rc >= MaxReceive THEN Advance(w, "failing") ELSE GiveUp(w)

WorkerOnly == UNCHANGED <<lock, proof, manifest, sends, foreign, arrivals, control, athena, late>>

Deliver(w, p) ==
    /\ workers[w].pc = "idle"
    /\ receives' = [receives EXCEPT ![p] = @ + 1]
    /\ workers' = [workers EXCEPT ![w] =
                     [pc |-> "received", part |-> p, rc |-> receives[p] + 1]]

Receive(w, p) ==
    /\ msgs[p] = "visible" /\ Deliver(w, p)
    /\ msgs' = [msgs EXCEPT ![p] = "inflight"]
    /\ WorkerOnly /\ UNCHANGED <<run, parts, receipts, faults, duplicates>>

\* SQS delivers at least once: again while in flight, or even after the delete.
ReceiveDuplicate(w, p) ==
    /\ msgs[p] \in {"inflight", "deleted"} /\ Deliver(w, p)
    /\ duplicates < MaxDuplicates /\ duplicates' = duplicates + 1
    /\ WorkerOnly /\ UNCHANGED <<run, parts, receipts, msgs, faults>>

\* _mark_running reads the run first, and updates the row in a second call.
ReadRun(w) ==
    /\ workers[w].pc = "received"
    /\ IF run.status \in Accepting THEN Advance(w, "admitted") ELSE Ack(w)
    /\ WorkerOnly /\ UNCHANGED <<run, parts, receipts, receives, faults, duplicates>>

MarkRunning(w) ==
    /\ workers[w].pc = "admitted"
    /\ LET p == workers[w].part IN
         IF parts[p].status \notin FinishedPart
         THEN parts' = [parts EXCEPT ![p].status = "running"] /\ Advance(w, "running")
         ELSE Ack(w) /\ UNCHANGED parts
    /\ WorkerOnly /\ UNCHANGED <<run, receipts, receives, faults, duplicates>>

\* The three data objects are a function of the message; the receipt also carries
\* the duration of this execution, so each execution writes different bytes.
WritePartitionFiles(w) ==
    /\ workers[w].pc = "running"
    /\ receipts' = [receipts EXCEPT ![workers[w].part] = workers[w].rc]
    /\ Advance(w, "written")
    /\ WorkerOnly /\ UNCHANGED <<run, parts, receives, faults, duplicates>>

\* Mutants: a completed row may be written again; any run that is not terminal counts.
MutantPartOpen(p) == parts[p].status # "failed"
MutantRunOpen     == run.status \notin Terminal

\* The two conditions of the two-item transactions of _commit and _mark_partition_failed.
PartOpen(p) == parts[p].status \notin FinishedPart
RunOpen     == run.status \in Accepting
RunClosed   == run.status \in {"canceling"} \cup Terminal

\* quality.valid_records of the receipt.
Valid(p) == Rows[p] - Bad[p]

\* Both items are written or neither.  A cancellation that proves the row or the run
\* terminal is a duplicate; one that names both items is ambiguous and raises.
\* _record_duplicate's replay count is display evidence and is left out; its failure is
\* WorkerRaises.
Commit(w) ==
    /\ workers[w].pc = "written"
    /\ LET p == workers[w].part IN
         IF PartOpen(p) /\ RunOpen
         THEN /\ parts' = [parts EXCEPT ![p] =
                                 [@ EXCEPT !.status = "completed", !.sha = workers[w].rc]]
              /\ run' = [run EXCEPT !.completed = @ + 1,
                                    !.generated = @ + Rows[p],
                                    !.curated = @ + Valid(p),
                                    !.quarantined = @ + Bad[p]]
              /\ Ack(w)
         ELSE /\ IF (~PartOpen(p) /\ RunOpen) \/ (PartOpen(p) /\ RunClosed)
                 THEN Ack(w) ELSE HandlerError(w)
              /\ UNCHANGED <<run, parts>>
    /\ WorkerOnly /\ UNCHANGED <<receipts, receives, faults, duplicates>>

\* _mark_partition_failed.  When it returns False the message is dropped; when it
\* returns True or raises, the message goes back and is redriven to the DLQ.
MarkFailed(w) ==
    /\ workers[w].pc = "failing"
    /\ LET p == workers[w].part IN
         IF PartOpen(p) /\ RunOpen
         THEN /\ parts' = [parts EXCEPT ![p].status = "failed"]
              /\ run' = [run EXCEPT !.failed = @ + 1]
              /\ GiveUp(w)
         ELSE /\ IF \/ parts[p].status = "completed" /\ RunOpen
                    \/ PartOpen(p) /\ RunClosed
                 THEN Ack(w) ELSE GiveUp(w)
              /\ UNCHANGED <<run, parts>>
    /\ WorkerOnly /\ UNCHANGED <<receipts, receives, faults, duplicates>>

\* Reading, generating, uploading or committing raises.
WorkerRaises(w) ==
    /\ workers[w].pc \in {"received", "admitted", "running", "written"} /\ Fault
    /\ HandlerError(w)
    /\ WorkerOnly /\ UNCHANGED <<run, parts, receipts, receives, duplicates>>

\* The invocation is killed, or _mark_partition_failed itself cannot be written.
WorkerDies(w) ==
    /\ workers[w].pc # "idle" /\ Fault
    /\ GiveUp(w)
    /\ WorkerOnly /\ UNCHANGED <<run, parts, receipts, receives, duplicates>>

\* The visibility timeout (960 s) outlives any worker invocation (900 s).
Redeliver(p) ==
    /\ msgs[p] = "inflight"
    /\ \A w \in Workers : workers[w].part # p
    /\ msgs' = [msgs EXCEPT ![p] = IF receives[p] >= MaxReceive THEN "dlq" ELSE "visible"]
    /\ WorkerOnly /\ UNCHANGED <<run, parts, receipts, receives, workers, faults, duplicates>>

WorkerStep(w) == \/ ReadRun(w) \/ MarkRunning(w) \/ WritePartitionFiles(w)
                 \/ Commit(w) \/ MarkFailed(w)

-----------------------------------------------------------------------------
(* The analyst, the clock, Athena, and the DLQ of older runs.              *)

\* _cancel_run: conditional on the run not being terminal.
Cancel ==
    /\ run.status \notin Terminal \cup {"canceling"}
    /\ SetStatus("canceling")
    /\ UNCHANGED <<parts, lock, proof, objects, queue, workers, control, athena, late,
                   faults, duplicates>>

DeadlinePasses ==
    /\ ~late /\ late' = TRUE
    /\ UNCHANGED <<ledger, objects, queue, workers, control, athena, faults, duplicates>>

\* TimeoutSeconds of the state machine (4 h) is later than deadline_at (3 h).  Until the
\* partitions are done CheckPartitions polls every 5 s and ends the run at its deadline,
\* so that only the later tasks, which do not look at it, can still be running.
ExecutionTimesOut ==
    /\ ExecutionTimeout /\ late
    /\ wf \in {"StartAthenaConversion", "CheckAthena", "FinalizeRun"}
    /\ wf' = "TimedOut" /\ call' = Idle
    /\ UNCHANGED <<ledger, objects, queue, workers, creator, athena, late, faults, duplicates>>

AthenaSucceeds ==
    /\ athena = "running" /\ athena' = "succeeded"
    /\ UNCHANGED <<ledger, objects, queue, workers, control, late, faults, duplicates>>

AthenaFails ==
    /\ athena = "running" /\ athena' = "failed" /\ Fault
    /\ UNCHANGED <<ledger, objects, queue, workers, control, late, duplicates>>

\* A message an older run left in flight reaches the shared DLQ.
ForeignPoison ==
    /\ arrivals < MaxForeign
    /\ arrivals' = arrivals + 1 /\ foreign' = foreign + 1
    /\ UNCHANGED <<ledger, objects, msgs, receives, sends, workers, control, athena, late,
                   faults, duplicates>>

Next ==
    \/ CreatorStep \/ StartFails \/ CreatorDies
    \/ WorkflowStep \/ InvocationFails \/ ExecutionTimesOut
    \/ \E w \in Workers :
         \/ WorkerStep(w) \/ WorkerRaises(w) \/ WorkerDies(w)
         \/ \E p \in Partitions : Receive(w, p) \/ ReceiveDuplicate(w, p)
    \/ \E p \in Partitions : Redeliver(p)
    \/ Cancel \/ DeadlinePasses \/ AthenaSucceeds \/ AthenaFails \/ ForeignPoison

Spec == Init /\ [][Next]_vars

\* Lambda, Step Functions and SQS keep going; Athena and the clock do too.  Nothing
\* is assumed of the analyst, of faults, or of the DLQ of other runs.
Fairness ==
    /\ WF_vars(CreatorStep) /\ WF_vars(WorkflowStep)
    /\ \A w \in Workers : WF_vars(WorkerStep(w))
    /\ \A p \in Partitions : /\ WF_vars(\E w \in Workers : Receive(w, p))
                             /\ WF_vars(Redeliver(p))
    /\ WF_vars(AthenaSucceeds) /\ WF_vars(DeadlinePasses)

FairSpec == Spec /\ Fairness

-----------------------------------------------------------------------------
(* Properties.                                                             *)

RunRecord == [status : Statuses, total : Nat, completed : Nat, failed : Nat,
              generated : Nat, curated : Nat, quarantined : Nat,
              baseline : Nat \cup {NoBaseline}, queries : BOOLEAN]
RowRecord == [status : {"absent", "queued", "running"} \cup FinishedPart,
              dispatch : {"queued", "dispatching", "acknowledged"}, sha : Nat]
CallPcs   == {"idle", "init", "ledger", "mark", "send", "ack", "announce", "cancel", "fail",
              "aggregate", "store", "publish", "proof", "release_cancel", "release_fail",
              "release_done"}
CallRecord == [pc : CallPcs, dlq : Nat, todo : SUBSET Partitions,
               batch : SUBSET Partitions, sent : SUBSET Partitions, rejected : BOOLEAN]
WorkerRecord == [pc : {"idle", "received", "admitted", "running", "written", "failing"},
                 part : Partitions \cup {NoPartition}, rc : Nat]
WorkersType == /\ workers \in [Workers -> WorkerRecord]
               /\ \A w \in Workers : workers[w].pc # "idle" =>
                     workers[w].part \in Partitions /\ workers[w].rc > 0
QueueType == /\ msgs \in [Partitions -> {"unsent", "visible", "inflight", "deleted", "dlq"}]
             /\ receives \in [Partitions -> Nat] /\ sends \in [Partitions -> Nat]
             /\ foreign \in Nat /\ arrivals \in Nat
ObjectsType == /\ receipts \in [Partitions -> Nat] /\ manifest \in [Partitions -> Nat]
               /\ lock \in BOOLEAN /\ proof \in BOOLEAN
ControlType == /\ creator \in {"starting", "recording", "failing", "releasing", "answered"}
               /\ wf \in {"NotStarted"} \cup Tasks \cup Ends
EnvType     == /\ athena \in {"none", "running", "succeeded", "failed"}
               /\ late \in BOOLEAN /\ faults \in Nat /\ duplicates \in Nat

\* Every variable keeps its shape, and a worker that is not idle has a partition and a
\* positive receive count (the items, objects and queue of one run).
TypeOK ==
    /\ run \in RunRecord /\ parts \in [Partitions -> RowRecord] /\ call \in CallRecord
    /\ WorkersType /\ QueueType /\ ObjectsType /\ ControlType /\ EnvType

\* The counters of the run item are exactly what its partition rows say, whatever
\* the number of deliveries: the two-item transactions of _commit and
\* _mark_partition_failed count a row once, in the step that finishes it.
CountersMatchLedger ==
    /\ run.completed = Cardinality(CompletedSet)
    /\ run.failed = Cardinality(FailedSet)

\* Generated equals curated plus quarantined at every moment, not only at the end
\* (what _finalize checks before it publishes).
RecordsBalance == run.generated = run.curated + run.quarantined

\* The records that the partitions of a set have, by partition and number.
RecordsOf(set, count) == UNION {{p} \X (1..count[p]) : p \in set}

\* The totals of the run item count every record of its completed partitions once, and a
\* run is published with every partition of its plan (_commit, _finalize).
TotalsAreExact ==
    /\ run.generated = Cardinality(RecordsOf(CompletedSet, Rows))
    /\ run.quarantined = Cardinality(RecordsOf(CompletedSet, Bad))
    /\ run.status \in Done => CompletedSet = Partitions

\* "Retried workflow invocations must never reset or resend" a partition: however
\* often _dispatch dies and is invoked again, SQS accepts one message per partition.
SentAtMostOnce == \A p \in Partitions : sends[p] <= 1

\* A finished partition row is never reopened and keeps its receipt hash.
CompletedIsFinal ==
    [][\A p \in Partitions : parts[p].status \in FinishedPart =>
          parts'[p].status = parts[p].status /\ parts'[p].sha = parts[p].sha]_parts

\* Once the run no longer accepts work its totals are frozen: a late worker cannot
\* add to what _finalize read.
ClosedRunIsFrozen ==
    [][run.status \notin Accepting =>
          /\ run'.completed = run.completed /\ run'.failed = run.failed
          /\ run'.generated = run.generated /\ run'.curated = run.curated
          /\ run'.quarantined = run.quarantined]_run

\* A run fails only for a reason of its own: the deadline, a partition of its own that
\* exhausted its receives, or an error of its own.  Poison that older runs left in the
\* shared DLQ is not a reason.
FailureHasOwnCause ==
    run.status = "failed" =>
        \/ late \/ faults > 0
        \/ \E p \in Partitions : parts[p].status = "failed" \/ msgs[p] = "dlq"

\* Whatever its status has become since, a run that left a capacity proof (which unlocks
\* the 1m profile) completed every partition and left the manifest of what it committed.
ProofIsBacked ==
    proof => /\ run.status \in Done \cup {"failed"} /\ CompletedSet = Partitions
             /\ \A p \in Partitions : manifest[p] = parts[p].sha

\* "Cancellation is cooperative, durable": an accepted cancellation leads to canceled
\* (or failed), never back into the run.
CancellationIsDurable ==
    [][run.status = "canceling" => run'.status \in {"canceling", "canceled", "failed"}]_run

\* The receipt hash a published manifest names is that of the stored receipt.
ManifestHashesMatch ==
    run.status \in Done => \A p \in Partitions : manifest[p] = receipts[p]

\* Whatever single error strikes the workflow or a worker, the run reaches a terminal
\* status and stays there.
RunSettles == <>[](run.status \in Terminal)

\* ... and if no error ever strikes, its lock is released for good, so that another run
\* can start.
LockIsReleased == [](faults = 0) => <>[](~lock)

\* The refinement: what the run, its workers and its workflow do to the run item and
\* its rows is a behaviour of RunLedger.
Phase == CASE run.status \in Accepting     -> "open"
           [] run.status = "aggregating"   -> "sealed"
           [] run.status \in Done          -> "published"
           [] OTHER                        -> "closed"

Ledger == INSTANCE RunLedger WITH phase <- Phase, done <- CompletedSet, lost <- FailedSet

ImplementsRunLedger == Ledger!Spec
=============================================================================
