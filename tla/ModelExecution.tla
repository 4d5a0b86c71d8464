--------------------------- MODULE ModelExecution ---------------------------
(* The bounded SageMaker runs of functions/public_intelligence/model_execution.py.
   A start request creates a cleanup schedule, takes the S3 lock, seals its
   input, writes a receipt, and creates a temporary model and a transform job.
   Afterwards get_execution, called by readers and once a minute by the
   schedule, brings the receipt up to date with the job, deletes the model and
   releases the lock. No two of these calls exclude one another: the receipt is
   written on condition that its ETag is the one that was read, and the lock is
   an object that is put only where there is none. *)
EXTENDS Naturals

CONSTANTS
  Executions,       \* the start requests; each names an execution of its own
  Readers,          \* requests that run get_execution at once
  Invocations,      \* invocations by the schedules that run at once
  MaxFaults         \* bound on lost answers, dead invocations and AWS errors

ASSUME FaultAssumption == MaxFaults \in Nat

\* The calls of a reader, of a schedule and of a start request are different calls.
ASSUME CallerAssumption ==
  /\ Executions \cap (Readers \union Invocations) = {} /\ Readers \cap Invocations = {}
  /\ "none" \notin Executions

VARIABLES
  starter,          \* the start request of each execution
  lock,             \* the execution that control/active.json names
  schedule,         \* the executions whose cleanup schedule exists
  receipt,          \* the receipt of each execution
  model,            \* the executions whose temporary model exists
  job,              \* the transform job of each execution
  age,              \* 0: below 120 s; 1: above; 2: past its maximum runtime;
                    \* 3: its lock counts as stale
  evidence,         \* the terminal signals recorded for each execution
  call,             \* the calls of get_execution under way
  faults

vars == <<starter, lock, schedule, receipt, model, job, age, evidence, call, faults>>

Terminal == {"COMPLETED", "FAILED", "STOPPED"}
InProgress == {"running", "stopping"}

NoReceipt == [status |-> "none", cleanup |-> "PENDING"]
Submitted == [status |-> "SUBMITTED", cleanup |-> "PENDING"]
NobodyHolds == "none"

\* A start request that has not met a conflict may call get_execution for the
\* holder of a stale lock: it is a caller as well.
Callers == Readers \union Invocations \union Executions

\* "met" is the branch of get_execution that a call is in: the receipt was closed
\* before, the job is missing, is over, or still runs.
NoCall == [pc |-> "idle", of |-> "none", met |-> "none", fresh |-> FALSE,
           write |-> NoReceipt, result |-> NoReceipt]

Init ==
  /\ starter = [e \in Executions |-> [pc |-> "idle", fresh |-> FALSE]]
  /\ lock = NobodyHolds
  /\ schedule = {}
  /\ receipt = [e \in Executions |-> NoReceipt]
  /\ model = {}
  /\ job = [e \in Executions |-> "none"]
  /\ age = [e \in Executions |-> 0]
  /\ evidence = [e \in Executions |-> {}]
  /\ call = [c \in Callers |-> NoCall]
  /\ faults = 0

Fault == faults < MaxFaults /\ faults' = faults + 1

StarterAt(e, pc) == starter[e].pc = pc
StarterGoto(e, pc) == starter' = [starter EXCEPT ![e].pc = pc]

\* The starter runs. Lambda ends it after 45 seconds.
Started(e) == starter[e].pc \in {"ended", "disowned"}
Starting(e) == starter[e].pc # "idle" /\ ~Started(e)

\* A put of the receipt gives it a new ETag: nobody's earlier read matches it.
Outdated(s, e) == [s EXCEPT ![e].fresh = FALSE]

OutdatedCalls(e) ==
  [c \in Callers |-> IF call[c].of = e THEN [call[c] EXCEPT !.fresh = FALSE] ELSE call[c]]

\* _release_lock: the object goes only if it still names the execution.
Released(e) == IF lock = e THEN NobodyHolds ELSE lock

\* _record_terminal_evidence: whatever is not COMPLETED counts as a failure.
Signal(status) == IF status = "COMPLETED" THEN "completed" ELSE "failed"

MutantRecorded(e, own, result) ==  \* mutant: goes by what this call meant to write
  [evidence EXCEPT ![e] = @ \union {Signal(own.status)}]

\* The evidence is that of the receipt that came back from the write.
Recorded(e, own, result) == [evidence EXCEPT ![e] = @ \union {Signal(result.status)}]

-----------------------------------------------------------------------------
(* start_execution *)

\* _schedule_reconciliation comes first, so that whatever follows is cleaned up.
CreateSchedule(e) ==
  /\ StarterAt(e, "idle")
  /\ schedule' = schedule \union {e}
  /\ StarterGoto(e, "lock")
  /\ UNCHANGED <<lock, receipt, model, job, age, evidence, call, faults>>

MutantAcquireLock(e) ==  \* mutant: the lock is put over another
  /\ StarterAt(e, "lock")
  /\ lock' = e
  /\ StarterGoto(e, "seal")
  /\ UNCHANGED <<schedule, receipt, model, job, age, evidence, call, faults>>

\* _acquire_lock puts the lock where there is none.
AcquireLock(e) ==
  /\ StarterAt(e, "lock")
  /\ lock = NobodyHolds
  /\ lock' = e
  /\ StarterGoto(e, "seal")
  /\ UNCHANGED <<schedule, receipt, model, job, age, evidence, call, faults>>

\* The put takes effect and its answer is lost. The SDK repeats it, the repetition
\* meets the object of the first, and the request takes it for somebody else's.
AcquireUnawares(e) ==
  /\ StarterAt(e, "lock")
  /\ lock = NobodyHolds
  /\ Fault
  /\ lock' = e
  /\ StarterGoto(e, "unaware")
  /\ UNCHANGED <<schedule, receipt, model, job, age, evidence, call>>

JobIsOver(e) == job[e] \in {"completed", "failed", "stopped"}

StarterCalls(e, holder, after) ==
  /\ call' = [call EXCEPT ![e] = [NoCall EXCEPT !.pc = "read", !.of = holder]]
  /\ StarterGoto(e, after)

\* There is a lock. If it is stale and its receipt terminal the request calls
\* get_execution for its holder; a job that still runs it stops; a job that has
\* ended it reconciles and then gives up all the same.
MeetLock(e) ==
  LET holder == lock IN
  /\ StarterAt(e, "lock")
  /\ holder # NobodyHolds
  /\ IF age[holder] < 3 \/ receipt[holder] = NoReceipt
     THEN StarterGoto(e, "refused") /\ UNCHANGED <<job, call>>
     ELSE \/ /\ receipt[holder].status \in Terminal
             /\ StarterCalls(e, holder, "again")
             /\ UNCHANGED job
          \/ /\ receipt[holder].status \notin Terminal
             /\ JobIsOver(holder)
             /\ StarterCalls(e, holder, "give up")
             /\ UNCHANGED job
          \/ /\ receipt[holder].status \notin Terminal
             /\ ~JobIsOver(holder)
             /\ job' = [job EXCEPT ![holder] = IF @ = "running" THEN "stopping" ELSE @]
             /\ StarterGoto(e, "refused")
             /\ UNCHANGED call
  /\ UNCHANGED <<lock, schedule, receipt, model, age, evidence, faults>>

\* get_execution has returned to the starter: with the model of the holder
\* deleted it puts the lock once more; otherwise it asks again if the job is over,
\* and is refused.
AfterStaleCall(e) ==
  LET holder == call[e].of
      cleaned == call[e].result.cleanup = "DELETED" IN
  /\ starter[e].pc \in {"again", "give up"}
  /\ call[e].pc = "returned"
  /\ \/ /\ StarterAt(e, "again") /\ cleaned /\ lock = NobodyHolds
        /\ lock' = e
        /\ StarterGoto(e, "seal")
        /\ call' = [call EXCEPT ![e] = NoCall]
     \/ /\ StarterAt(e, "again") /\ ~cleaned /\ JobIsOver(holder)
        /\ StarterCalls(e, holder, "give up")
        /\ UNCHANGED lock
     \/ /\ StarterAt(e, "give up") \/ IF cleaned THEN lock # NobodyHolds ELSE ~JobIsOver(holder)
        /\ StarterGoto(e, "refused")
        /\ call' = [call EXCEPT ![e] = NoCall]
        /\ UNCHANGED lock
  /\ UNCHANGED <<schedule, receipt, model, job, age, evidence, faults>>

\* The request that did not get the lock deletes its schedule and answers 409.
Refuse(e) ==
  /\ starter[e].pc \in {"refused", "unaware"}
  /\ schedule' = schedule \ {e}
  /\ StarterGoto(e, IF StarterAt(e, "unaware") THEN "disowned" ELSE "ended")
  /\ UNCHANGED <<lock, receipt, model, job, age, evidence, call, faults>>

\* The pool and the package are accepted and the two objects sealed; then the
\* receipt is put, only where there is none, and its ETag read.
CreateReceipt(e) ==
  /\ StarterAt(e, "seal")
  /\ receipt' = [receipt EXCEPT ![e] = Submitted]
  /\ starter' = [starter EXCEPT ![e] = [pc |-> "model", fresh |-> TRUE]]
  /\ UNCHANGED <<lock, schedule, model, job, age, evidence, call, faults>>

CreateModel(e) ==
  /\ StarterAt(e, "model")
  /\ model' = model \union {e}
  /\ StarterGoto(e, "submit")
  /\ UNCHANGED <<lock, schedule, receipt, job, age, evidence, call, faults>>

\* From here on the request never cleans up: the job may exist although the call
\* raises, and the schedule is left to find out.
CreateJob(e) ==
  /\ StarterAt(e, "submit")
  /\ job' = [job EXCEPT ![e] = "running"]
  /\ \/ StarterGoto(e, "arn") /\ UNCHANGED faults
     \/ StarterGoto(e, "ended") /\ Fault
  /\ UNCHANGED <<lock, schedule, receipt, model, age, evidence, call>>

\* The receipt gets the ARN of the job, unless somebody has written it meanwhile.
WriteArn(e) ==
  /\ StarterAt(e, "arn")
  /\ StarterGoto(e, "ended")
  /\ call' = IF starter[e].fresh THEN OutdatedCalls(e) ELSE call
  /\ UNCHANGED <<lock, schedule, receipt, model, job, age, evidence, faults>>

\* The candidate pool or the model package is not what the request is bound to (its
\* digest, boundary, provenance, approval or artifact), or cannot be read: nothing
\* is written yet, so there is no receipt to close.
SealRefused(e) ==
  /\ StarterAt(e, "seal")
  /\ StarterGoto(e, "release")
  /\ UNCHANGED <<lock, schedule, receipt, model, job, age, evidence, call, faults>>

\* A later call before the submission raises, having taken effect or not. (A
\* refused submission raises too: the request just ends.)
StartFails(e) ==
  /\ Fault
  /\ \/ /\ StarterAt(e, "seal")
        /\ receipt' \in {receipt, [receipt EXCEPT ![e] = Submitted]}
        /\ starter' = [starter EXCEPT ![e] = [pc |-> "clean", fresh |-> TRUE]]
        /\ UNCHANGED model
     \/ /\ StarterAt(e, "model")
        /\ model' \in {model, model \union {e}}
        /\ StarterGoto(e, "clean")
        /\ UNCHANGED receipt
     \/ /\ StarterAt(e, "submit")
        /\ StarterGoto(e, "ended")
        /\ UNCHANGED <<receipt, model>>
  /\ UNCHANGED <<lock, schedule, job, age, evidence, call>>

\* The except branch deletes the model, closes the receipt if it is there, and
\* releases the lock only if the model is gone.
CleanUp(e) ==
  /\ StarterAt(e, "clean")
  /\ \/ model' = model \ {e} /\ StarterGoto(e, "close deleted") /\ UNCHANGED faults
     \/ model' = model /\ StarterGoto(e, "close pending") /\ Fault
  /\ UNCHANGED <<lock, schedule, receipt, job, age, evidence, call>>

CloseReceipt(e) ==
  LET deleted == StarterAt(e, "close deleted") IN
  /\ starter[e].pc \in {"close deleted", "close pending"}
  /\ IF receipt[e] # NoReceipt /\ starter[e].fresh
     THEN /\ receipt' = [receipt EXCEPT ![e] =
               [status |-> "FAILED", cleanup |-> IF deleted THEN "DELETED" ELSE "PENDING"]]
          /\ call' = OutdatedCalls(e)
     ELSE UNCHANGED <<receipt, call>>
  /\ evidence' = [evidence EXCEPT ![e] = @ \union {"failed"}]
  /\ StarterGoto(e, IF deleted THEN "release" ELSE "ended")
  /\ UNCHANGED <<lock, schedule, model, job, age, faults>>

ReleaseStarted(e) ==
  /\ StarterAt(e, "release")
  /\ lock' = Released(e)
  /\ StarterGoto(e, "refused")
  /\ UNCHANGED <<schedule, receipt, model, job, age, evidence, call, faults>>

StarterDies(e) ==
  /\ Starting(e)
  /\ Fault
  /\ StarterGoto(e, "ended")
  /\ call' = [call EXCEPT ![e] = NoCall]
  /\ UNCHANGED <<lock, schedule, receipt, model, job, age, evidence>>

-----------------------------------------------------------------------------
(* get_execution *)

CallGoto(c, pc) == call' = [call EXCEPT ![c].pc = pc]

\* What a call has left to do once get_execution has returned: a start request
\* looks at the receipt, and reconcile_active_execution deletes the schedule of a
\* receipt that is closed and clean.
Returned(c, result) ==
  IF c \in Executions THEN [NoCall EXCEPT !.pc = "returned", !.of = call[c].of, !.result = result]
  ELSE IF c \in Invocations /\ result.status \in Terminal /\ result.cleanup = "DELETED"
       THEN [NoCall EXCEPT !.pc = "unschedule", !.of = call[c].of]
       ELSE NoCall

Asks(c, e) ==
  /\ call[c].pc = "idle"
  /\ call' = [call EXCEPT ![c] = [NoCall EXCEPT !.pc = "read", !.of = e]]
  /\ UNCHANGED <<starter, lock, schedule, receipt, model, job, age, evidence, faults>>

\* A reader asks for an execution that the history lists.
Read(r, e) == receipt[e] # NoReceipt /\ Asks(r, e)

\* The schedule invokes reconcile_active_execution every minute, beginning five
\* minutes after the start.
Invoke(i, e) == e \in schedule /\ age[e] > 0 /\ Asks(i, e)

\* Read the receipt with its ETag.
ReadReceipt(c) ==
  LET seen == receipt[call[c].of] IN
  /\ call[c].pc = "read"
  /\ IF seen = NoReceipt
     THEN CallGoto(c, "missing")
     ELSE call' = [call EXCEPT ![c].fresh = TRUE, ![c].write = seen, ![c].met = "closed",
            ![c].pc = IF seen.status \notin Terminal THEN "describe"
                      ELSE IF seen.cleanup # "DELETED" THEN "delete" ELSE "release"]
  /\ UNCHANGED <<starter, lock, schedule, receipt, model, job, age, evidence, faults>>

MutantVerdict(e, unread) ==  \* mutant: a job that is stopping has stopped
  CASE job[e] = "none" -> "FAILED"
    [] job[e] = "running" -> "IN_PROGRESS"
    [] job[e] = "completed" -> IF unread THEN "FAILED" ELSE "COMPLETED"
    [] job[e] = "failed" -> "FAILED"
    [] job[e] \in {"stopping", "stopped"} -> "STOPPED"

\* What the receipt becomes by what SageMaker says of the job. A job that is not
\* found fails the receipt after 120 seconds and the call before. The output of
\* a completed job is read and validated: whatever goes wrong there, a lost read
\* included, fails the receipt.
Verdict(e, unread) ==
  CASE job[e] = "none" -> "FAILED"
    [] job[e] \in InProgress -> "IN_PROGRESS"
    [] job[e] = "completed" -> IF unread THEN "FAILED" ELSE "COMPLETED"
    [] job[e] = "failed" -> "FAILED"
    [] job[e] = "stopped" -> "STOPPED"

DescribeJob(c) ==
  LET e == call[c].of IN
  /\ call[c].pc = "describe"
  /\ IF job[e] = "none" /\ age[e] = 0
     THEN call' = [call EXCEPT ![c] = NoCall] /\ UNCHANGED <<job, faults>>
     ELSE \E unread \in BOOLEAN :
            /\ IF unread THEN Fault ELSE UNCHANGED faults
            /\ call' = [call EXCEPT ![c].write.status = Verdict(e, unread),
                 ![c].met = CASE job[e] = "none" -> "missing"
                              [] job[e] \in InProgress -> "running"
                              [] OTHER -> "over",
                 ![c].pc = IF Verdict(e, unread) \in Terminal THEN "delete" ELSE "write"]
            /\ job' = IF job[e] = "running" /\ age[e] > 1
                      THEN [job EXCEPT ![e] = "stopping"] ELSE job
  /\ UNCHANGED <<starter, lock, schedule, receipt, model, age, evidence>>

\* _delete_model: gone, or DELETE_PENDING if SageMaker refuses.
DeleteModel(c) ==
  /\ call[c].pc = "delete"
  /\ \/ /\ model' = model \ {call[c].of}
        /\ call' = [call EXCEPT ![c].pc = "write", ![c].write.cleanup = "DELETED"]
        /\ UNCHANGED faults
     \/ /\ Fault
        /\ CallGoto(c, "write")
        /\ UNCHANGED model
  /\ UNCHANGED <<starter, lock, schedule, receipt, job, age, evidence>>

\* _write_reconciled_receipt puts the new receipt or reads the one that won. The
\* terminal evidence is that of whichever came back; so is, for a missing job, the
\* cleanup that decides whether the lock is released. Elsewhere this call's own
\* cleanup decides.
WriteReceipt(c) ==
  LET e == call[c].of
      new == call[c].write
      result == IF call[c].fresh THEN new ELSE receipt[e]
      cleanup == IF call[c].met = "missing" THEN result.cleanup ELSE new.cleanup
      closes == call[c].met \in {"closed", "missing", "over"}
      others == IF call[c].fresh THEN OutdatedCalls(e) ELSE call IN
  /\ call[c].pc = "write"
  /\ receipt' = [receipt EXCEPT ![e] = result]
  /\ starter' = IF call[c].fresh THEN Outdated(starter, e) ELSE starter
  /\ call' = [others EXCEPT ![c] =
       IF closes /\ cleanup = "DELETED"
       THEN [call[c] EXCEPT !.pc = "release", !.write = result, !.fresh = FALSE]
       ELSE Returned(c, result)]
  /\ evidence' = IF closes /\ (call[c].met = "closed" => new.cleanup = "DELETED")
                 THEN Recorded(e, new, result)
                 ELSE evidence
  /\ UNCHANGED <<lock, schedule, model, job, age, faults>>

\* The lock is released, and the evidence of a receipt that was closed already
\* is recorded again.
ReleaseLock(c) ==
  LET e == call[c].of
      result == call[c].write IN
  /\ call[c].pc = "release"
  /\ lock' = Released(e)
  /\ evidence' = Recorded(e, result, result)
  /\ call' = [call EXCEPT ![c] = Returned(c, result)]
  /\ UNCHANGED <<starter, schedule, receipt, model, job, age, faults>>

\* A call of the schedule that finds no receipt releases the lock of a start
\* that never got that far; any other call just raises.
ReceiptMissing(c) ==
  /\ call[c].pc = "missing"
  /\ IF c \in Invocations
     THEN lock' = Released(call[c].of) /\ CallGoto(c, "unschedule")
     ELSE lock' = lock /\ call' = [call EXCEPT ![c] = Returned(c, NoReceipt)]
  /\ UNCHANGED <<starter, schedule, receipt, model, job, age, evidence, faults>>

DeleteSchedule(c) ==
  /\ call[c].pc = "unschedule"
  /\ schedule' = schedule \ {call[c].of}
  /\ call' = [call EXCEPT ![c] = NoCall]
  /\ UNCHANGED <<starter, lock, receipt, model, job, age, evidence, faults>>

\* An invocation dies, or one of its calls raises; a start request goes on from
\* there to its refusal.
CallDies(c) ==
  /\ call[c].pc # "idle"
  /\ Fault
  /\ call' = [call EXCEPT ![c] = NoCall]
  /\ IF c \in Executions THEN StarterGoto(c, "refused") ELSE UNCHANGED starter
  /\ UNCHANGED <<lock, schedule, receipt, model, job, age, evidence>>

-----------------------------------------------------------------------------
(* SageMaker and the clock *)

JobEnds(e) ==
  /\ job[e] \in InProgress
  /\ job' = [job EXCEPT ![e] =
       IF @ = "stopping" THEN "stopped" ELSE "completed"]
  /\ UNCHANGED <<starter, lock, schedule, receipt, model, age, evidence, call, faults>>

\* The job fails, or completes with an output that _parse_predictions rejects.
JobFails(e) ==
  /\ job[e] = "running"
  /\ job' = [job EXCEPT ![e] = "failed"]
  /\ UNCHANGED <<starter, lock, schedule, receipt, model, age, evidence, call, faults>>

\* A start request is over long before 120 seconds. The age beyond them counts
\* only for the execution that holds the lock.
TimePasses(e) ==
  /\ Started(e)
  /\ age[e] < IF lock = e THEN 3 ELSE 1
  /\ age' = [age EXCEPT ![e] = @ + 1]
  /\ UNCHANGED <<starter, lock, schedule, receipt, model, job, evidence, call, faults>>

-----------------------------------------------------------------------------
StartStep(e) ==
  \/ CreateSchedule(e) \/ AcquireLock(e) \/ AcquireUnawares(e) \/ MeetLock(e)
  \/ AfterStaleCall(e) \/ Refuse(e) \/ CreateReceipt(e) \/ CreateModel(e)
  \/ CreateJob(e) \/ WriteArn(e) \/ SealRefused(e) \/ StartFails(e) \/ CleanUp(e)
  \/ CloseReceipt(e) \/ ReleaseStarted(e) \/ StarterDies(e)

CallStep(c) ==
  \/ ReadReceipt(c) \/ DescribeJob(c) \/ DeleteModel(c) \/ WriteReceipt(c)
  \/ ReleaseLock(c) \/ ReceiptMissing(c) \/ DeleteSchedule(c)

Next ==
  \/ \E e \in Executions :
       \/ StartStep(e)
       \/ JobEnds(e)
       \/ JobFails(e)
       \/ TimePasses(e)
       \/ \E r \in Readers : Read(r, e)
       \/ \E i \in Invocations : Invoke(i, e)
  \/ \E c \in Callers : CallStep(c) \/ CallDies(c)

Spec == Init /\ [][Next]_vars

-----------------------------------------------------------------------------
(* Properties *)

TypeOK ==
  /\ \A e \in Executions : starter[e].fresh \in BOOLEAN
  /\ lock \in Executions \union {NobodyHolds}
  /\ schedule \subseteq Executions
  /\ model \subseteq Executions
  /\ \A e \in Executions :
       /\ receipt[e].status \in Terminal \union {"none", "SUBMITTED", "IN_PROGRESS"}
       /\ receipt[e].cleanup \in {"PENDING", "DELETED"}
       /\ evidence[e] \subseteq {"completed", "failed"}
       /\ age[e] \in 0 .. 3
       /\ job[e] # "none" => receipt[e] # NoReceipt
  /\ faults \in 0 .. MaxFaults

\* A job runs only for the execution that holds the lock, so that at most one
\* runs (docs/ARCHITECTURE.md: "An S3 lock limits execution to one active run").
JobHoldsLock ==
  \A e \in Executions : job[e] \in InProgress => lock = e

\* A terminal receipt is true for ever: its job is over and none can be submitted
\* any more, and only a completed job is reported as completed.
TerminalReceiptIsTrue ==
  \A e \in Executions :
    receipt[e].status \in Terminal =>
      /\ job[e] \notin InProgress
      /\ ~StarterAt(e, "submit")
      /\ receipt[e].status = "COMPLETED" => job[e] = "completed"
      /\ receipt[e].cleanup = "DELETED" => e \notin model

\* No call, however late its write, reopens or changes a terminal receipt.
TerminalIsFinal ==
  [][\A e \in Executions :
       receipt[e].status \in Terminal => receipt'[e].status = receipt[e].status]_vars

\* A run is announced as completed only when its receipt says so and its job did
\* complete, whichever of two racing calls recorded the evidence.
EvidenceIsTrue ==
  \A e \in Executions :
    "completed" \in evidence[e] => receipt[e].status = "COMPLETED" /\ job[e] = "completed"
=============================================================================
