---------------------------- MODULE ModelRegistry ----------------------------
(* The model registry of functions/document_ml/app.py in its demonstration mode:
   train_model, deploy_model and those who read the champion.  A model's version is
   the digest of the samples that it was trained on, which leaves out the samples held
   back for its evaluation: training again may give a version that is there already
   with other metrics.  A deployment writes its receipt, the alias and the model's
   record one after the other.  Each request runs once, in an invocation that may die
   between any two of its writes. *)
EXTENDS Naturals, FiniteSets

CONSTANTS
  Models,           \* model_version
  Trainings,        \* POST /ml/train
  Promotions,       \* POST /ml/models/{model_version}/deploy
  Acquisitions,     \* acquisition runs that ask for their narratives to be classified
  Evaluations,      \* POST /ml/drift/evaluate
  MaxInputs,        \* bound on what users do, all requests and uploads together
  MaxFaults         \* bound on calls that fail and invocations that die

ASSUME BoundAssumption == MaxInputs \in Nat /\ MaxFaults \in Nat

VARIABLES
  artifact,         \* the versions whose model.json is there
  model,            \* the record of each version: its status, whether it passes the gate
  passed,           \* the versions that were ever recorded with metrics that pass
  deployments,      \* the versions that have a deployment receipt
  alias,            \* MODEL_ALIAS#champion
  request,          \* the requests
  evidence,         \* the object and the record of each use of the champion
  inputs, faults

registry == <<artifact, model, passed, deployments, alias, request, evidence, inputs, faults>>

Requests == Trainings \union Promotions \union Acquisitions \union Evaluations
Uses == Acquisitions \union Evaluations

NoModel == "none"
Baseline == "baseline"
Version == Models \union {NoModel, Baseline}

ASSUME VersionAssumption == NoModel \notin Models /\ Baseline \notin Models

Unregistered == [status |-> "none", passes |-> FALSE]
New == [pc |-> "new", version |-> NoModel, read |-> Unregistered]

RegistryInit ==
  /\ artifact = {} /\ passed = {} /\ deployments = {}
  /\ model = [v \in Models |-> Unregistered]
  /\ alias = NoModel
  /\ request = [q \in Requests |-> New]
  /\ evidence = [u \in Uses |-> [object |-> NoModel, record |-> NoModel]]
  /\ inputs = 0 /\ faults = 0

Input == inputs < MaxInputs /\ inputs' = inputs + 1
Fault == faults < MaxFaults /\ faults' = faults + 1
RequestAt(q, pc) == request[q].pc = pc
RequestGoto(q, pc) == request' = [request EXCEPT ![q].pc = pc]
RequestEnds(q) == request' = [request EXCEPT ![q] = [New EXCEPT !.pc = "done"]]

-----------------------------------------------------------------------------
(* train_model *)

\* The training set and the model are put; the metrics go into the record.
PutArtifact(t) ==
  /\ RequestAt(t, "new")
  /\ Input
  /\ \E v \in Models, passes \in BOOLEAN :
       /\ artifact' = artifact \union {v}
       /\ request' = [request EXCEPT ![t] =
            [pc |-> "register", version |-> v, read |-> [status |-> "registered", passes |-> passes]]]
  /\ UNCHANGED <<model, passed, deployments, alias, evidence, faults>>

\* put_record, whatever was there.
Register(t) ==
  LET v == request[t].version IN
  /\ RequestAt(t, "register")
  /\ model' = [model EXCEPT ![v] = request[t].read]
  /\ passed' = IF request[t].read.passes THEN passed \union {v} ELSE passed
  /\ RequestEnds(t)
  /\ UNCHANGED <<artifact, deployments, alias, evidence, inputs, faults>>

-----------------------------------------------------------------------------
(* deploy_model *)

MutantPromotionGate(p) ==  \* mutant: the metrics are not looked at
  /\ RequestAt(p, "new")
  /\ Input
  /\ \E v \in Models :
       IF model[v].status # "none"
       THEN request' = [request EXCEPT ![p].pc = "receipt", ![p].version = v]
       ELSE RequestEnds(p)
  /\ UNCHANGED <<artifact, model, passed, deployments, alias, evidence, faults>>

\* The version must be registered, and its metrics must pass.
PromotionGate(p) ==
  /\ RequestAt(p, "new")
  /\ Input
  /\ \E v \in Models :
       IF model[v].passes
       THEN request' = [request EXCEPT ![p].pc = "receipt", ![p].version = v]
       ELSE RequestEnds(p)
  /\ UNCHANGED <<artifact, model, passed, deployments, alias, evidence, faults>>

PutReceipt(p) ==
  /\ RequestAt(p, "receipt")
  /\ deployments' = deployments \union {request[p].version}
  /\ RequestGoto(p, "alias")
  /\ UNCHANGED <<artifact, model, passed, alias, evidence, inputs, faults>>

PutAlias(p) ==
  /\ RequestAt(p, "alias")
  /\ alias' = request[p].version
  /\ RequestGoto(p, "get")
  /\ UNCHANGED <<artifact, model, passed, deployments, evidence, inputs, faults>>

\* merge_record reads the record of the model ...
GetModel(p) ==
  /\ RequestAt(p, "get")
  /\ request' = [request EXCEPT ![p].pc = "put", ![p].read = model[request[p].version]]
  /\ UNCHANGED <<artifact, model, passed, deployments, alias, evidence, inputs, faults>>

\* ... and puts it back as deployed, over what was trained in between.
PutModel(p) ==
  /\ RequestAt(p, "put")
  /\ model' = [model EXCEPT ![request[p].version] = [request[p].read EXCEPT !.status = "deployed"]]
  /\ RequestEnds(p)
  /\ UNCHANGED <<artifact, passed, deployments, alias, evidence, inputs, faults>>

-----------------------------------------------------------------------------
(* classify_public_records and evaluate_drift *)

\* _champion_or_baseline
Champion == IF alias = NoModel THEN Baseline ELSE alias

\* A classification falls back on the baseline, an evaluation of drift is refused.
Score(u) ==
  /\ RequestAt(u, "new")
  /\ Input
  /\ u \in Evaluations => alias # NoModel
  /\ request' = [request EXCEPT ![u].pc = "object", ![u].version = Champion]
  /\ UNCHANGED <<artifact, model, passed, deployments, alias, evidence, faults>>

PutObject(u) ==
  /\ RequestAt(u, "object")
  /\ evidence' = [evidence EXCEPT ![u].object = request[u].version]
  /\ RequestGoto(u, "record")
  /\ UNCHANGED <<artifact, model, passed, deployments, alias, inputs, faults>>

PutRecord(u) ==
  /\ RequestAt(u, "record")
  /\ evidence' = [evidence EXCEPT ![u].record = request[u].version]
  /\ RequestEnds(u)
  /\ UNCHANGED <<artifact, model, passed, deployments, alias, inputs, faults>>

\* A call raises or Lambda ends the invocation: what was written stays.
RequestDies(q) ==
  /\ request[q].pc \notin {"new", "done"}
  /\ Fault
  /\ RequestEnds(q)
  /\ UNCHANGED <<artifact, model, passed, deployments, alias, evidence, inputs>>

-----------------------------------------------------------------------------
RegistryNext ==
  \/ \E t \in Trainings : PutArtifact(t) \/ Register(t)
  \/ \E p \in Promotions :
       PromotionGate(p) \/ PutReceipt(p) \/ PutAlias(p) \/ GetModel(p) \/ PutModel(p)
  \/ \E u \in Uses : Score(u) \/ PutObject(u) \/ PutRecord(u)
  \/ \E q \in Requests : RequestDies(q)

-----------------------------------------------------------------------------
(* Properties *)

Registration == [status : {"none", "registered", "deployed"}, passes : BOOLEAN]

RegistryTypeOK ==
  /\ {artifact, passed, deployments} \subseteq SUBSET Models
  /\ model \in [Models -> Registration]
  /\ alias \in Models \union {NoModel}
  /\ request \in [Requests ->
       [pc : {"new", "register", "receipt", "alias", "get", "put", "object", "record", "done"},
        version : Version, read : Registration]]
  /\ evidence \in [Uses -> [object : Version, record : Version]]
  /\ inputs \in 0 .. MaxInputs /\ faults \in 0 .. MaxFaults

\* A version that may decide on documents: its model can be loaded, it is registered,
\* it was recorded with metrics that pass the gate, and a receipt says who deployed it.
Governed(v) == v \in artifact \intersect passed \intersect deployments /\ model[v].status # "none"

\* The champion is governed, wherever a deployment died and whatever was trained
\* again meanwhile ("the registered package", "promoted through the explicit human
\* control"), and so is every model that evidence names, the built-in baseline aside.
ChampionIsGoverned == alias # NoModel => Governed(alias)

EvidenceIsGoverned ==
  \A u \in Uses :
    /\ evidence[u].record # NoModel => evidence[u].object = evidence[u].record
    /\ evidence[u].object \in Models => Governed(evidence[u].object)
=============================================================================
