----------------------------- MODULE ScaleExport -----------------------------
(***************************************************************************)
(* The governed export of a published Scale Run: the API request that      *)
(* creates an export item and queues it (_create_export of                 *)
(* functions/scale_runs/app.py), and the SQS worker that claims it under a *)
(* lease, hashes the Parquet objects, writes an immutable manifest and     *)
(* commits the receipt to the export item and to the run item              *)
(* (functions/scale_export/app.py).  Every call to DynamoDB, S3 or SQS is  *)
(* one step.                                                               *)
(*                                                                         *)
(* The export item lives a day (time to live of the table) and the         *)
(* manifest two (lifecycle rule of the bucket); when the item is gone the  *)
(* same request makes another.                                             *)
(***************************************************************************)
EXTENDS Integers

CONSTANTS
    Exports,        \* exports of the run, by their deterministic identifier
    Requests,       \* API requests
    Workers,        \* concurrent worker invocations
    NoExport,       \* the export of an idle worker or request
    Objects,        \* Parquet objects of the run
    MaxReceive,     \* redrive limit of the queue (3 in template.yaml)
    MaxFaults,      \* bound: crashes, errors and lost answers
    MaxDuplicates,  \* bound: extra deliveries by the at-least-once queue
    MaxLives,       \* bound: items made one after another for an export
    RequestsMayDie, \* whether a request may end between its two writes
    RunMayFail,     \* whether the published run may still be marked failed
    MayExpire       \* whether the lifecycle rule may delete Parquet objects

ASSUME ScaleExportAssumption ==
    /\ NoExport \notin Exports
    /\ Objects \in Nat \ {0} /\ MaxReceive \in Nat \ {0}
    /\ MaxFaults \in Nat /\ MaxDuplicates \in Nat /\ MaxLives \in Nat
    /\ RequestsMayDie \in BOOLEAN /\ RunMayFail \in BOOLEAN /\ MayExpire \in BOOLEAN

VARIABLES
    run,        \* status and export_receipt of RUN#<id>/META
    exports,    \* RUN#<id>/EXPORT#<e>
    lake,       \* how many of the run's Parquet objects are left
    lives,      \* which of its items each export has, or will have next
    manifests,  \* the manifest object of each export, by the objects it lists and its item
    msgs,       \* where the message of each export is
    receives,   \* deliveries of each message
    sends,      \* messages accepted for each item
    requests, workers,
    faults, duplicates

queue == <<msgs, receives, sends>>
vars  == <<run, exports, lives, lake, manifests, queue, requests, workers, faults, duplicates>>

NoOwner     == 0
NoSha       == 0
NoItem      == [status |-> "absent", owner |-> NoOwner, leased |-> FALSE, sha |-> NoSha,
                past |-> FALSE]
NoManifest  == [listed |-> 0, life |-> 0]
NoReceipt   == [export |-> NoExport, life |-> 0, status |-> "none"]
IdleRequest == [pc |-> "idle", export |-> NoExport]
IdleWorker  == [pc |-> "idle", export |-> NoExport, rid |-> 0, next |-> "list", listed |-> 0]

Exportable == run.status = "completed"

Init ==
    /\ run = [status |-> "completed", receipt |-> NoReceipt]
    /\ exports = [e \in Exports |-> NoItem] /\ lives = [e \in Exports |-> 1]
    /\ lake = Objects
    /\ manifests = [e \in Exports |-> NoManifest]
    /\ msgs = [e \in Exports |-> "unsent"]
    /\ receives = [e \in Exports |-> 0] /\ sends = [e \in Exports |-> 0]
    /\ requests = [r \in Requests |-> IdleRequest]
    /\ workers = [w \in Workers |-> IdleWorker]
    /\ faults = 0 /\ duplicates = 0

Fault == faults < MaxFaults /\ faults' = faults + 1

-----------------------------------------------------------------------------
(* _create_export                                                          *)

Proceed(r, pc) == requests' = [requests EXCEPT ![r].pc = pc]
RequestOnly    == UNCHANGED <<lives, lake, manifests, receives, workers, duplicates>>

\* Reads the run; a request for a run that is not completed is refused.
AskForExport(r, e) ==
    /\ requests[r].pc = "idle"
    /\ requests' = [requests EXCEPT ![r] =
                      [pc |-> IF Exportable THEN "lookup" ELSE "answered", export |-> e]]
    /\ RequestOnly /\ UNCHANGED <<run, exports, msgs, sends, faults>>

\* An item that exists already is the answer.
LookUpExport(r) ==
    /\ requests[r].pc = "lookup"
    /\ Proceed(r, IF exports[requests[r].export].status = "absent" THEN "put" ELSE "answered")
    /\ RequestOnly /\ UNCHANGED <<run, exports, msgs, sends, faults>>

\* put_item(attribute_not_exists): the loser of a race answers with an error.
PutItem(r) ==
    /\ requests[r].pc = "put"
    /\ LET e == requests[r].export IN
         IF exports[e].status = "absent"
         THEN exports' = [exports EXCEPT ![e].status = "queued"] /\ Proceed(r, "send")
         ELSE Proceed(r, "answered") /\ UNCHANGED exports
    /\ RequestOnly /\ UNCHANGED <<run, msgs, sends, faults>>

SendMessage(r) ==
    /\ requests[r].pc = "send"
    /\ msgs'  = [msgs EXCEPT ![requests[r].export] = "visible"]
    /\ sends' = [sends EXCEPT ![requests[r].export] = @ + 1]
    /\ Proceed(r, "answered")
    /\ RequestOnly /\ UNCHANGED <<run, exports, faults>>

\* The request is killed or one of its calls raises.
RequestDies(r) ==
    /\ RequestsMayDie /\ requests[r].pc \in {"lookup", "put", "send"} /\ Fault
    /\ Proceed(r, "answered")
    /\ RequestOnly /\ UNCHANGED <<run, exports, msgs, sends>>

RequestStep(r) == LookUpExport(r) \/ PutItem(r) \/ SendMessage(r)

-----------------------------------------------------------------------------
(* Delivery.                                                               *)

WorkerOnly == UNCHANGED <<lives, lake, sends, requests>>

Goto(w, pc) == workers' = [workers EXCEPT ![w].pc = pc] /\ UNCHANGED msgs

\* The handler returns no batch item failure and SQS deletes the message.
Ack(w) == /\ msgs' = [msgs EXCEPT ![workers[w].export] = "deleted"]
          /\ workers' = [workers EXCEPT ![w] = IdleWorker]

\* The message stays in flight until its visibility timeout.
GiveUp(w) == workers' = [workers EXCEPT ![w] = IdleWorker] /\ UNCHANGED msgs

\* Each invocation has a request identifier of its own: here its receive count.
Deliver(w, e) ==
    /\ workers[w].pc = "idle"
    /\ receives' = [receives EXCEPT ![e] = @ + 1]
    /\ workers' = [workers EXCEPT ![w] = [IdleWorker EXCEPT !.pc = "received", !.export = e,
                                                            !.rid = receives[e] + 1]]

Receive(w, e) ==
    /\ msgs[e] = "visible" /\ Deliver(w, e)
    /\ msgs' = [msgs EXCEPT ![e] = "inflight"]
    /\ WorkerOnly /\ UNCHANGED <<run, exports, manifests, faults, duplicates>>

ReceiveDuplicate(w, e) ==
    /\ msgs[e] \in {"inflight", "deleted"} /\ ~exports[e].past /\ Deliver(w, e)
    /\ duplicates < MaxDuplicates /\ duplicates' = duplicates + 1
    /\ WorkerOnly /\ UNCHANGED <<run, exports, manifests, msgs, faults>>

\* Whether an invocation that claimed the export is still running.
OwnerAlive(e) == \E w \in Workers : workers[w].export = e /\ workers[w].rid = exports[e].owner

\* A lease lasts 900 s from the claim, and no invocation runs longer than 900 s.
LeaseExpires(e) ==
    /\ exports[e].leased /\ ~OwnerAlive(e)
    /\ exports' = [exports EXCEPT ![e].leased = FALSE]
    /\ WorkerOnly /\ UNCHANGED <<run, manifests, msgs, receives, workers, faults, duplicates>>

\* The visibility timeout is 960 s: every invocation has ended, and a lease taken in
\* the first minute after delivery has expired.
Redeliver(e) ==
    /\ msgs[e] = "inflight" /\ ~exports[e].leased
    /\ \A w \in Workers : workers[w].export # e
    /\ msgs' = [msgs EXCEPT ![e] = IF receives[e] >= MaxReceive THEN "dlq" ELSE "visible"]
    /\ WorkerOnly
    /\ UNCHANGED <<run, exports, manifests, receives, workers, faults, duplicates>>

-----------------------------------------------------------------------------
(* _claim                                                                  *)

Raise(w) == Goto(w, "failing")
Owned(w) == /\ exports[workers[w].export].status = "building"
            /\ exports[workers[w].export].owner = workers[w].rid
Receipt(e, s) == [export |-> e, life |-> lives[e], status |-> s]

\* The run is read first, then the export.
ReadRun(w) ==
    /\ workers[w].pc = "received"
    /\ Goto(w, IF Exportable THEN "read_open" ELSE "read_closed")
    /\ WorkerOnly /\ UNCHANGED <<run, exports, manifests, receives, faults, duplicates>>

ReadExport(w) ==
    /\ workers[w].pc \in {"read_open", "read_closed"}
    /\ IF exports[workers[w].export].status \in {"ready", "cancelled"}
       THEN Ack(w)
       ELSE Goto(w, IF workers[w].pc = "read_open" THEN "claim" ELSE "cancel")
    /\ WorkerOnly /\ UNCHANGED <<run, exports, manifests, receives, faults, duplicates>>

\* Mutant: the lease of a dead owner is respected for ever.
MutantExpiredLease(e) == exports[e].status = "queued"

\* Queued, or building under an expired lease.
Claimable(e) == \/ exports[e].status = "queued"
                \/ exports[e].status = "building" /\ ~exports[e].leased

\* A transaction over the export and the run.
Claim(w) ==
    /\ workers[w].pc = "claim"
    /\ LET e == workers[w].export IN
         IF Claimable(e) /\ Exportable
         THEN /\ exports' = [exports EXCEPT ![e] = [@ EXCEPT !.status = "building",
                                 !.owner = workers[w].rid, !.leased = TRUE]]
              /\ run' = [run EXCEPT !.receipt = Receipt(e, "building")]
              /\ Goto(w, "assert")
         ELSE Goto(w, "conflict") /\ UNCHANGED <<run, exports>>
    /\ WorkerOnly /\ UNCHANGED <<manifests, receives, faults, duplicates>>

\* Mutant: an export that another worker builds is left to it.
MutantNothingToDo(e) == exports[e].status \in {"building", "ready"}

NothingToDo(e) == exports[e].status = "ready"

\* After a condition failed: a ready export is left alone, and a closed run cancels it.
\* Anything else means that another worker owns the export.
Conflict(w) ==
    /\ \/ /\ workers[w].pc = "conflict"
          /\ IF NothingToDo(workers[w].export) THEN Ack(w) ELSE Goto(w, "conflict_run")
       \/ /\ workers[w].pc = "conflict_run"
          /\ IF Exportable THEN Raise(w) ELSE Goto(w, "cancel")
    /\ WorkerOnly /\ UNCHANGED <<run, exports, manifests, receives, faults, duplicates>>

-----------------------------------------------------------------------------
(* _mark_canceled: two separate writes, each of which may fail.            *)

Cancelable(e) == exports[e].status # "ready"

\* Mutant: the rejected write is ignored.
MutantCancelRejected(w) == Goto(w, "cancel_receipt")

CancelRejected(w) == Raise(w)

CancelExport(w) ==
    /\ workers[w].pc = "cancel"
    /\ LET e == workers[w].export IN
         IF Cancelable(e)
         THEN /\ exports' = [exports EXCEPT ![e] = [@ EXCEPT !.status = "cancelled",
                                 !.owner = NoOwner, !.leased = FALSE, !.sha = NoSha]]
              /\ Goto(w, "cancel_receipt")
         ELSE CancelRejected(w) /\ UNCHANGED exports
    /\ WorkerOnly /\ UNCHANGED <<run, manifests, receives, faults, duplicates>>

\* ExportCanceled: the handler acknowledges the message.
CancelReceipt(w) ==
    /\ workers[w].pc = "cancel_receipt"
    /\ run' = [run EXCEPT !.receipt = Receipt(workers[w].export, "cancelled")]
    /\ Ack(w)
    /\ WorkerOnly /\ UNCHANGED <<exports, manifests, receives, faults, duplicates>>

-----------------------------------------------------------------------------
(* _build_artifact, with _assert_active before each of its parts           *)

AssertRun(w) ==
    /\ workers[w].pc = "assert"
    /\ Goto(w, IF Exportable THEN "assert_owner" ELSE "cancel")
    /\ WorkerOnly /\ UNCHANGED <<run, exports, manifests, receives, faults, duplicates>>

AssertOwner(w) ==
    /\ workers[w].pc = "assert_owner"
    /\ IF exports[workers[w].export].status = "cancelled" THEN Ack(w)
       ELSE IF Owned(w) THEN Goto(w, workers[w].next) ELSE Raise(w)
    /\ WorkerOnly /\ UNCHANGED <<run, exports, manifests, receives, faults, duplicates>>

\* The next part of the work, after another _assert_active.
Then(w, part, listed) ==
    /\ workers' = [workers EXCEPT ![w] = [@ EXCEPT !.pc = "assert", !.next = part,
                                                   !.listed = listed]]
    /\ UNCHANGED msgs

\* An empty listing raises.
ListSources(w) ==
    /\ workers[w].pc = "list"
    /\ IF lake = 0 THEN Raise(w) ELSE Then(w, "hash", lake)
    /\ WorkerOnly /\ UNCHANGED <<run, exports, manifests, receives, faults, duplicates>>

\* An object that expired since the listing cannot be read, unless it was hashed before.
HashSources(w) ==
    /\ workers[w].pc = "hash"
    /\ \/ Then(w, "put", workers[w].listed)
       \/ lake # workers[w].listed /\ Raise(w)
    /\ WorkerOnly /\ UNCHANGED <<run, exports, manifests, receives, faults, duplicates>>

\* Mutant: an existing manifest is taken for this one without comparing it.
MutantSameManifest(w) == TRUE

\* Everything else in the manifest is a function of the two items, the times in the
\* export item included.
Manifest(w) == [listed |-> workers[w].listed, life |-> lives[workers[w].export]]
SameManifest(w) == manifests[workers[w].export] = Manifest(w)

\* put_object(IfNoneMatch="*"): an existing manifest must have the same bytes.
PutManifest(w) ==
    /\ workers[w].pc = "put"
    /\ LET e == workers[w].export IN
         \/ /\ manifests[e] = NoManifest
            /\ manifests' = [manifests EXCEPT ![e] = Manifest(w)]
            /\ Then(w, "commit", workers[w].listed)
         \/ /\ manifests[e] # NoManifest /\ UNCHANGED manifests
            /\ IF SameManifest(w) THEN Then(w, "commit", workers[w].listed) ELSE Raise(w)
    /\ WorkerOnly /\ UNCHANGED <<run, exports, receives, faults, duplicates>>

-----------------------------------------------------------------------------
(* _commit and _reset_for_retry                                            *)

\* Mutant: the run is not a part of the transaction.
MutantCommittable(w) == Owned(w) /\ exports[workers[w].export].sha = NoSha

Committable(w) == Owned(w) /\ exports[workers[w].export].sha = NoSha /\ Exportable

\* The answer of the transaction may be lost.
Commit(w) ==
    /\ workers[w].pc = "commit"
    /\ LET e == workers[w].export IN
         IF Committable(w)
         THEN /\ exports' = [exports EXCEPT ![e] = [@ EXCEPT !.status = "ready",
                                 !.owner = NoOwner, !.leased = FALSE, !.sha = workers[w].listed]]
              /\ run' = [run EXCEPT !.receipt = Receipt(e, "ready")]
              /\ \/ Ack(w) /\ UNCHANGED faults
                 \/ Raise(w) /\ Fault
         ELSE Goto(w, "recheck") /\ UNCHANGED <<run, exports, faults>>
    /\ WorkerOnly /\ UNCHANGED <<manifests, receives, duplicates>>

\* A lost race is a success when the export is ready with the same manifest.
Recheck(w) ==
    /\ workers[w].pc = "recheck"
    /\ LET e == workers[w].export IN
         IF exports[e].status = "ready" /\ exports[e].sha = workers[w].listed
         THEN Ack(w) ELSE Raise(w)
    /\ WorkerOnly /\ UNCHANGED <<run, exports, manifests, receives, faults, duplicates>>

Resettable(w) == Owned(w)

\* The handler's except branch; a failed reset is only logged.
Reset(w) ==
    /\ workers[w].pc = "failing"
    /\ LET e == workers[w].export IN
         \/ /\ Resettable(w) /\ UNCHANGED faults
            /\ exports' = [exports EXCEPT ![e] = [@ EXCEPT !.status = "queued",
                               !.owner = NoOwner, !.leased = FALSE]]
         \/ ~Resettable(w) /\ UNCHANGED <<exports, faults>>
         \/ Resettable(w) /\ Fault /\ UNCHANGED exports
    /\ GiveUp(w)
    /\ WorkerOnly /\ UNCHANGED <<run, manifests, receives, duplicates>>

\* Any call raises, with or without having had its effect.
WorkerRaises(w) ==
    /\ workers[w].pc \notin {"idle", "failing"} /\ Fault
    /\ Raise(w)
    /\ WorkerOnly /\ UNCHANGED <<run, exports, manifests, receives, duplicates>>

\* The invocation is killed.
WorkerDies(w) ==
    /\ workers[w].pc # "idle" /\ Fault
    /\ GiveUp(w)
    /\ WorkerOnly /\ UNCHANGED <<run, exports, manifests, receives, duplicates>>

WorkerStep(w) ==
    \/ ReadRun(w) \/ ReadExport(w) \/ Claim(w) \/ Conflict(w)
    \/ CancelExport(w) \/ CancelReceipt(w) \/ AssertRun(w) \/ AssertOwner(w)
    \/ ListSources(w) \/ HashSources(w) \/ PutManifest(w)
    \/ Commit(w) \/ Recheck(w) \/ Reset(w)

-----------------------------------------------------------------------------
(* The run, the lifecycle rules and the time to live.                      *)

\* An error after publication marks the run failed (ScaleRun).
RunFails ==
    /\ RunMayFail /\ Exportable
    /\ run' = [run EXCEPT !.status = "failed"]
    /\ UNCHANGED <<exports, lives, lake, manifests, queue, requests, workers, faults, duplicates>>

ObjectExpires ==
    /\ MayExpire /\ lake > 0 /\ lake' = lake - 1
    /\ UNCHANGED <<run, exports, lives, manifests, queue, requests, workers, faults, duplicates>>

\* The 24 hours of an item are longer than its request and all receives of its message.
Quiet(e) ==
    /\ msgs[e] \notin {"visible", "inflight"}
    /\ \A w \in Workers : workers[w].export # e
    /\ \A r \in Requests : requests[r].export = e => requests[r].pc \notin {"put", "send"}

DayPasses(e) ==
    /\ exports[e].status # "absent" /\ ~exports[e].past /\ Quiet(e)
    /\ exports' = [exports EXCEPT ![e].past = TRUE]
    /\ UNCHANGED <<run, lives, lake, manifests, queue, requests, workers, faults, duplicates>>

\* DynamoDB deletes it some time later; the next item has a message of its own.
ItemExpires(e) ==
    /\ exports[e].past /\ lives[e] < MaxLives
    /\ exports' = [exports EXCEPT ![e] = NoItem] /\ lives' = [lives EXCEPT ![e] = @ + 1]
    /\ msgs' = [msgs EXCEPT ![e] = "unsent"]
    /\ receives' = [receives EXCEPT ![e] = 0] /\ sends' = [sends EXCEPT ![e] = 0]
    /\ UNCHANGED <<run, lake, manifests, requests, workers, faults, duplicates>>

\* The rule for exports/ deletes a manifest on the second day, whether its item is left or not.
ManifestExpires(e) ==
    /\ manifests[e] # NoManifest
    /\ manifests[e].life = lives[e] => exports[e].past
    /\ manifests' = [manifests EXCEPT ![e] = NoManifest]
    /\ UNCHANGED <<run, exports, lives, lake, queue, requests, workers, faults, duplicates>>

Next ==
    \/ \E r \in Requests : \/ RequestStep(r) \/ RequestDies(r)
                           \/ \E e \in Exports : AskForExport(r, e)
    \/ \E w \in Workers : \/ WorkerStep(w) \/ WorkerRaises(w) \/ WorkerDies(w)
                          \/ \E e \in Exports : Receive(w, e) \/ ReceiveDuplicate(w, e)
    \/ \E e \in Exports : LeaseExpires(e) \/ Redeliver(e)
    \/ \E e \in Exports : DayPasses(e) \/ ItemExpires(e) \/ ManifestExpires(e)
    \/ RunFails \/ ObjectExpires

Spec == Init /\ [][Next]_vars

\* A request that has started goes on, Lambda and SQS deliver, and leases expire.
Fairness ==
    /\ \A r \in Requests : WF_vars(RequestStep(r))
    /\ \A w \in Workers : WF_vars(WorkerStep(w))
    /\ \A e \in Exports : /\ WF_vars(\E w \in Workers : Receive(w, e))
                          /\ WF_vars(LeaseExpires(e)) /\ WF_vars(Redeliver(e))

FairSpec == Spec /\ Fairness

-----------------------------------------------------------------------------
(* Properties.                                                             *)

RunRecord == [status : {"completed", "failed"},
              receipt : [export : Exports \cup {NoExport}, life : Nat,
                         status : {"none", "building", "ready", "cancelled"}]]
ExportRecord == [status : {"absent", "queued", "building", "ready", "cancelled"},
                 owner : Nat, leased : BOOLEAN, sha : 0..Objects, past : BOOLEAN]
ManifestRecord == [listed : 0..Objects, life : Nat]
RequestRecord == [pc : {"idle", "lookup", "put", "send", "answered"},
                  export : Exports \cup {NoExport}]
Parts     == {"list", "hash", "put", "commit"}
WorkerPcs == {"idle", "received", "read_open", "read_closed", "claim", "conflict",
              "conflict_run", "cancel", "cancel_receipt", "assert", "assert_owner",
              "recheck", "failing"} \cup Parts
WorkerRecord == [pc : WorkerPcs, export : Exports \cup {NoExport}, rid : Nat,
                 next : Parts, listed : 0..Objects]
QueueType == /\ msgs \in [Exports -> {"unsent", "visible", "inflight", "deleted", "dlq"}]
             /\ receives \in [Exports -> Nat] /\ sends \in [Exports -> Nat]

\* Every variable keeps its shape, and a busy worker or request has an export (the items,
\* objects and queue of the exports of one run).
TypeOK ==
    /\ run \in RunRecord /\ exports \in [Exports -> ExportRecord]
    /\ lake \in 0..Objects /\ manifests \in [Exports -> ManifestRecord]
    /\ lives \in [Exports -> Nat \ {0}]
    /\ QueueType
    /\ requests \in [Requests -> RequestRecord] /\ workers \in [Workers -> WorkerRecord]
    /\ \A r \in Requests : requests[r].pc # "idle" => requests[r].export \in Exports
    /\ \A w \in Workers : workers[w].pc # "idle" =>
          workers[w].export \in Exports /\ workers[w].rid > 0
    /\ faults \in Nat /\ duplicates \in Nat

\* The hash a ready export reports is that of the manifest stored for its item, as long as
\* the item is valid, although the objects it lists may expire between two attempts and an
\* earlier item may have left its own (_put_manifest_immutable).
ReadyMatchesManifest ==
    \A e \in Exports : exports[e].status = "ready" /\ ~exports[e].past =>
        exports[e].sha > 0 /\ manifests[e] = [listed |-> exports[e].sha, life |-> lives[e]]

\* A worker lets SQS delete a message only when its export is ready or canceled, in
\* whatever order claims, conflicts, cancellations and retries interleave.
NoExportLost ==
    \A e \in Exports : msgs[e] = "deleted" => exports[e].status \in {"ready", "cancelled"}

\* However often a request is repeated, one message is queued for an item; the next one
\* can only be sent when the item is gone.
QueuedOncePerItem ==
    \A e \in Exports : sends[e] <= 1 /\ (sends[e] = 1 => exports[e].status # "absent")

\* The receipt the run item shows as final is that of an export in that state, unless the
\* item it was taken from is gone.
ReceiptIsTrue ==
    LET e == run.receipt.export
    IN  run.receipt.status \in {"ready", "cancelled"} /\ run.receipt.life = lives[e] =>
            exports[e].status = run.receipt.status

\* A run with a single export never hides that it is ready: the receipt in the run item
\* names it from the commit on ("commits the exact frontend export receipt into both the
\* export item and run ledger").
ReadyIsShown ==
    \A e \in Exports : exports[e].status = "ready" => run.receipt = Receipt(e, "ready")

\* Nobody takes a building export from an invocation that still runs: it stays the owner
\* until it ends or the export does.
OwnerKeepsExport ==
    [][\A w \in Workers :
          LET e == workers[w].export IN
            e # NoExport /\ Owned(w) /\ workers'[w].export = e =>
                \/ exports'[e].owner = exports[e].owner
                \/ exports'[e].status \in {"ready", "cancelled"}]_vars

\* The refinement: the export items and the status of the run behave as ExportJob.
JobState(e) == CASE exports[e].status = "absent" -> "none"
                 [] exports[e].status \in {"queued", "building"} -> "pending"
                 [] OTHER -> exports[e].status

Job == INSTANCE ExportJob WITH Contents <- 1..Objects, None <- NoSha, open <- Exportable,
         job <- [e \in Exports |-> JobState(e)], contents <- [e \in Exports |-> exports[e].sha]

ImplementsExportJob == Job!Spec

\* A queued export becomes ready or canceled, unless two faults or extra deliveries use up
\* the receives that the queue allows, the objects of the run expire or the manifest of an
\* earlier item is in the way.
ExportSettles ==
    \A e \in Exports :
        LET Lucky == /\ sends[e] > 0 /\ lake = Objects /\ faults + duplicates < 2
                     /\ manifests[e].life \in {0, lives[e]}
            Final == exports[e].status \in {"ready", "cancelled"}
        IN  Lucky /\ receives[e] = 0 ~> Final \/ ~Lucky
=============================================================================
