------------------------------ MODULE Documents ------------------------------
(* The document pipeline of functions/document_ml/app.py and
   statemachines/document_ml.asl.yaml, beside the registry whose champion it uses.
   A browser posts a document with a form that stays valid, so that it may post other
   bytes to the same key; every object created starts an Express execution, at least
   once, and each execution inspects the object as it finds it, writes bronze,
   evaluates the quality rules, and publishes silver and gold or retains the source in
   quarantine.  The stages of all executions share the record of the run, which
   merge_record reads and puts back without a condition. *)
EXTENDS ModelRegistry

CONSTANTS
  Docs,             \* run_id
  Executions,       \* executions that run at once
  MaxDuplicates     \* bound on events delivered once more

ASSUME DuplicateAssumption == MaxDuplicates \in Nat

VARIABLES
  kind,             \* what the document is whose digest was declared
  run,              \* the record of the run: its status, the model it names
  object,           \* the object that was posted
  events,           \* the <<document, posted bytes>> whose event is to be delivered
  bronze, quality,  \* what bronze was extracted from; the gate of the quality receipt
  silver, gold,     \* what silver is of; what gold is of and the model it names
  exec,             \* the executions
  unattributed,     \* documents of an execution whose failure or end reached no record,
                    \* or that went on beside an invocation nobody awaits
  duplicates

lake == <<object, events, bronze, quality, silver, gold, duplicates>>
documents == <<kind, run, lake, exec, unattributed>>
vars == <<registry, documents>>

\* A document passes, or has too little text, or is declared public and is not fit to.
Kinds == {"fit", "poor", "sensitive"}
Bytes == {"declared", "other"}
Nowhere == "none"

ASSUME DocumentAssumption == Nowhere \notin Docs

NoRun == [status |-> "none", model |-> NoModel]
NoGold == [of |-> Nowhere, model |-> NoModel]
NoExecution == [stage |-> "none", step |-> "work", doc |-> Nowhere, bytes |-> Nowhere,
                status |-> "none", model |-> NoModel, read |-> NoModel, awaited |-> TRUE]

Init ==
  /\ RegistryInit
  /\ kind \in [Docs -> Kinds]
  /\ run = [d \in Docs |-> NoRun]
  /\ object = [d \in Docs |-> Nowhere]
  /\ events = {}
  /\ bronze = [d \in Docs |-> Nowhere]
  /\ quality = [d \in Docs |-> Nowhere]
  /\ silver = [d \in Docs |-> Nowhere]
  /\ gold = [d \in Docs |-> NoGold]
  /\ exec = [e \in Executions |-> NoExecution]
  /\ unattributed = {}
  /\ duplicates = 0

At(e, stage, step) == exec[e].stage = stage /\ exec[e].step = step
Doc(e) == exec[e].doc

\* The stage has done its work and merges this patch into the record of the run.
Merges(e, status, named) ==
  exec' = [exec EXCEPT ![e].step = "get", ![e].status = status, ![e].model = named]

-----------------------------------------------------------------------------
(* The browser, S3 and EventBridge *)

\* request_upload
RequestUpload(d) ==
  /\ run[d].status = "none"
  /\ run' = [run EXCEPT ![d].status = "awaiting-upload"]
  /\ UNCHANGED <<registry, kind, lake, exec, unattributed>>

Post(d) ==
  /\ run[d].status # "none"
  /\ Input
  /\ \E bytes \in Bytes :
       /\ object' = [object EXCEPT ![d] = bytes]
       /\ events' = events \union {<<d, bytes>>}
  /\ UNCHANGED <<artifact, model, passed, deployments, alias, request, evidence, faults>>
  /\ UNCHANGED <<kind, run, bronze, quality, silver, gold, exec, unattributed, duplicates>>

Start(e, event) ==
  /\ exec[e] = NoExecution
  /\ event \in events
  /\ exec' = [exec EXCEPT ![e] =
       [NoExecution EXCEPT !.stage = "inspect", !.doc = event[1], !.bytes = event[2]]]
  /\ \/ events' = events \ {event} /\ UNCHANGED duplicates
     \/ duplicates < MaxDuplicates /\ duplicates' = duplicates + 1 /\ UNCHANGED events
  /\ UNCHANGED <<registry, kind, run, object, bronze, quality, silver, gold, unattributed>>

-----------------------------------------------------------------------------
(* The stages *)

\* The bytes have the declared digest, and a public document no sensitive pattern.
Verified(d) == object[d] = "declared" /\ kind[d] # "sensitive"

\* inspect_stage: the object is read as it is by now.
Inspect(e) ==
  LET d == Doc(e) IN
  /\ At(e, "inspect", "work")
  /\ \/ /\ Verified(d)
        /\ bronze' = [bronze EXCEPT ![d] = object[d]]
        /\ Merges(e, "running", NoModel)
     \/ /\ ~Verified(d) \/ exec[e].bytes # object[d]
        /\ UNCHANGED bronze
        /\ Merges(e, "quarantined", NoModel)
  /\ UNCHANGED <<registry, kind, run, object, events, quality, silver, gold, unattributed, duplicates>>

\* quality_stage: other bytes than the declared ones may pass too.
Passes(d) == IF bronze[d] = "declared" THEN {kind[d] = "fit"} ELSE BOOLEAN

Quality(e) ==
  LET d == Doc(e) IN
  /\ At(e, "quality", "work")
  /\ \E passes \in Passes(d) :
       /\ quality' = [quality EXCEPT ![d] = IF passes THEN "pass" ELSE "quarantine"]
       /\ Merges(e, IF passes THEN "running" ELSE "quarantined", NoModel)
  /\ UNCHANGED <<registry, kind, run, object, events, bronze, silver, gold, unattributed, duplicates>>

\* curate_stage: the champion is read and scores what is in bronze ...
Curate(e) ==
  /\ At(e, "curate", "work")
  /\ exec' = [exec EXCEPT ![e].step = "silver", ![e].model = Champion, ![e].bytes = bronze[Doc(e)]]
  /\ UNCHANGED <<registry, kind, run, lake, unattributed>>

\* ... silver is put, then gold, then the run is completed.
PutSilver(e) ==
  LET d == Doc(e) IN
  /\ At(e, "curate", "silver")
  /\ silver' = [silver EXCEPT ![d] = exec[e].bytes]
  /\ exec' = [exec EXCEPT ![e].step = "gold"]
  /\ UNCHANGED <<registry, kind, run, object, events, bronze, quality, gold, unattributed, duplicates>>

PutGold(e) ==
  LET d == Doc(e) IN
  /\ At(e, "curate", "gold")
  /\ gold' = [gold EXCEPT ![d] = [of |-> exec[e].bytes, model |-> exec[e].model]]
  /\ Merges(e, "completed", exec[e].model)
  /\ UNCHANGED <<registry, kind, run, object, events, bronze, quality, silver, unattributed, duplicates>>

\* quarantine_stage copies the object; workflow_failure_stage has nothing to write.
Quarantine(e) ==
  /\ At(e, "quarantine", "work")
  /\ Merges(e, "quarantined", NoModel)
  /\ UNCHANGED <<registry, kind, run, lake, unattributed>>

RecordFailure(e) ==
  /\ At(e, "failure", "work")
  /\ Merges(e, "failed", NoModel)
  /\ UNCHANGED <<registry, kind, run, lake, unattributed>>

\* merge_record reads the record ...
GetRun(e) ==
  /\ exec[e].step = "get"
  /\ exec' = [exec EXCEPT ![e].step = "put", ![e].read = run[Doc(e)].model]
  /\ UNCHANGED <<registry, kind, run, lake, unattributed>>

\* InspectionGate and QualityGate; the other stages are the last, and so is an
\* invocation whose answer nobody awaits.
NextStage(e) ==
  LET x == exec[e] IN
  CASE x.awaited /\ x.stage \in {"inspect", "quality"} /\ x.status = "quarantined" -> "quarantine"
    [] x.awaited /\ x.stage = "inspect" /\ x.status = "running" -> "quality"
    [] x.awaited /\ x.stage = "quality" /\ x.status = "running" -> "curate"
    [] OTHER -> "none"

\* The execution of e as it enters a stage; its input goes no further than Inspect.
Entry(e, stage) ==
  IF stage = "none" THEN NoExecution
  ELSE [NoExecution EXCEPT !.stage = stage, !.doc = Doc(e),
                           !.bytes = IF stage = "inspect" THEN exec[e].bytes ELSE Nowhere]

EntersStage(e, stage) == exec' = [exec EXCEPT ![e] = Entry(e, stage)]

MutantPutRun(e) ==  \* mutant: what was read wins over the patch
  /\ exec[e].step = "put"
  /\ run' = [run EXCEPT ![Doc(e)] = [status |-> exec[e].status, model |-> exec[e].read]]
  /\ EntersStage(e, NextStage(e))
  /\ UNCHANGED <<registry, kind, lake, unattributed>>

\* ... and puts it back with the patch, over what others have put meanwhile.
PutRun(e) ==
  /\ exec[e].step = "put"
  /\ run' = [run EXCEPT ![Doc(e)] =
       [status |-> exec[e].status,
        model |-> IF exec[e].model = NoModel THEN exec[e].read ELSE exec[e].model]]
  /\ EntersStage(e, NextStage(e))
  /\ UNCHANGED <<registry, kind, lake, unattributed>>

\* Catch: the input of Inspect names no run, so its failure is recorded under another
\* name, and nobody hears of the failure of an invocation that is not awaited.
Attributed(e) == exec[e].awaited /\ exec[e].stage \in {"quality", "curate", "quarantine"}
Caught(e) == IF Attributed(e) THEN "failure" ELSE "none"

\* Lambda fails a stage that has done all, some or none of its work: the stage is
\* invoked again.
Retried(e) ==
  /\ exec[e] # NoExecution /\ exec[e].awaited
  /\ Fault
  /\ EntersStage(e, exec[e].stage)
  /\ UNCHANGED <<artifact, model, passed, deployments, alias, request, evidence, inputs, kind, run, lake, unattributed>>

MutantRaises(e) ==  \* mutant: a Catch that leads past RecordFailure
  /\ exec[e] # NoExecution
  /\ Fault
  /\ EntersStage(e, "none")
  /\ UNCHANGED <<artifact, model, passed, deployments, alias, request, evidence, inputs, kind, run, lake, unattributed>>

\* A stage raises, or was invoked in vain too often.
Raises(e) ==
  /\ exec[e] # NoExecution
  /\ Fault
  /\ EntersStage(e, Caught(e))
  /\ unattributed' = IF Attributed(e) THEN unattributed ELSE unattributed \union {Doc(e)}
  /\ UNCHANGED <<artifact, model, passed, deployments, alias, request, evidence, inputs, kind, run, lake>>

\* The answer is lost while the invocation e works on (Lambda.SdkClientException): the
\* stage is invoked once more, or its failure caught, beside it.
LosesAnswer(e, f) ==
  /\ exec[e] # NoExecution /\ exec[e].awaited /\ exec[f] = NoExecution
  /\ Fault
  /\ \E stage \in {exec[e].stage, Caught(e)} :
       exec' = [exec EXCEPT ![e].awaited = FALSE, ![f] = Entry(e, stage)]
  /\ unattributed' = unattributed \union {Doc(e)}
  /\ UNCHANGED <<artifact, model, passed, deployments, alias, request, evidence, inputs, kind, run, lake>>

\* An Express execution ends after five minutes; what it had invoked may work on.
TimesOut(e) ==
  /\ exec[e] # NoExecution /\ exec[e].awaited
  /\ Fault
  /\ \/ exec' = [exec EXCEPT ![e] = NoExecution]
     \/ exec' = [exec EXCEPT ![e].awaited = FALSE]
  /\ unattributed' = unattributed \union {Doc(e)}
  /\ UNCHANGED <<artifact, model, passed, deployments, alias, request, evidence, inputs, kind, run, lake>>

-----------------------------------------------------------------------------
StageStep(e) ==
  \/ Inspect(e) \/ Quality(e) \/ Curate(e) \/ PutSilver(e) \/ PutGold(e)
  \/ Quarantine(e) \/ RecordFailure(e) \/ GetRun(e) \/ PutRun(e)

Next ==
  \/ RegistryNext /\ UNCHANGED documents
  \/ \E d \in Docs : RequestUpload(d) \/ Post(d)
  \/ \E e \in Executions :
       \/ \E event \in events : Start(e, event)
       \/ StageStep(e) \/ Retried(e) \/ Raises(e) \/ TimesOut(e)
       \/ \E f \in Executions : LosesAnswer(e, f)

Spec == Init /\ [][Next]_vars

-----------------------------------------------------------------------------
(* Properties *)

Stages == {"none", "inspect", "quality", "curate", "quarantine", "failure"}
Statuses == {"none", "awaiting-upload", "running", "quarantined", "completed", "failed"}
Content == Bytes \union {Nowhere}

TypeOK ==
  /\ RegistryTypeOK
  /\ kind \in [Docs -> Kinds]
  /\ run \in [Docs -> [status : Statuses, model : Version]]
  /\ object \in [Docs -> Content]
  /\ events \subseteq Docs \X Bytes
  /\ bronze \in [Docs -> Content] /\ silver \in [Docs -> Content]
  /\ quality \in [Docs -> {Nowhere, "pass", "quarantine"}]
  /\ gold \in [Docs -> [of : Content, model : Version]]
  /\ exec \in [Executions ->
       [stage : Stages, step : {"work", "silver", "gold", "get", "put"},
        doc : Docs \union {Nowhere}, bytes : Content,
        status : Statuses, model : Version, read : Version, awaited : BOOLEAN]]
  /\ unattributed \subseteq Docs
  /\ duplicates \in 0 .. MaxDuplicates

\* Silver and gold are of the bytes whose digest was declared, passed the quality
\* rules and were fit to be published, whatever was posted to the key before, between
\* or after, and the model that gold names was promoted ("No unverified Gold record
\* was published").
GoldIsVerified ==
  \A d \in Docs : gold[d] # NoGold =>
    /\ gold[d].of = "declared" /\ silver[d] = "declared"
    /\ quality[d] = "pass" /\ kind[d] = "fit"
    /\ gold[d].model \in Models => Governed(gold[d].model)

\* A completed run has its silver and gold and names a model, though other executions
\* of the same run put back what they read before.
CompletedRunHasGold ==
  \A d \in Docs : run[d].status = "completed" =>
    gold[d] # NoGold /\ silver[d] # Nowhere /\ run[d].model # NoModel

\* When its executions are over, a run that got a document has settled, unless one of
\* them failed or ended without a word to it, or lost sight of what it had invoked.
RunHasSettled ==
  \A d \in Docs :
    /\ run[d].status \in {"awaiting-upload", "running"} /\ object[d] # Nowhere
    /\ \A event \in events : event[1] # d
    /\ \A e \in Executions : Doc(e) # d
    => d \in unattributed
=============================================================================
