-------------------------------- MODULE IngestProofs ---------------------------------
(* Theorems about the two ways in which what users drop is taken in: Documents with its
   ModelRegistry, for any models, requests, documents and executions; and Intake with its
   QualityRules, for any batches, files, executions, threshold and number of invocations
   that are lost.
   Of the registry, whatever says that a model may be used only grows, so that a model that
   was fit to be used stays fit; and every execution that curates a document has the
   declared bytes in bronze and a quality receipt that passed. Of the intake, every raw row
   that lacks its verdict, its batch status or its place among the curated has an execution
   that still owes it; and while a file is all that was dropped under its key, the first
   copies of its records stand in the table as the records do in the file. *)
EXTENDS Documents, Intake, FiniteSetTheorems, SequenceTheorems, WellFoundedInduction, TLAPS

-----------------------------------------------------------------------------
(* DOCUMENTS                                                               *)

RequestRecord ==
  [pc : {"new", "register", "receipt", "alias", "get", "put", "object", "record", "done"},
   version : Version, read : Registration]

-----------------------------------------------------------------------------
(* The registry *)

\* A version that passed the gate once, with its model and its record.
Candidate(v) == v \in artifact \intersect passed /\ model[v].status # "none"
Usable(v) == v # NoModel /\ (v \in Models => Governed(v))

ModelOK(v) == model[v].passes => Candidate(v)

RequestOK(q) ==
  /\ RequestAt(q, "register") =>
       request[q].version \in artifact /\ request[q].read.status = "registered"
  /\ RequestAt(q, "receipt") => request[q].version \in Models /\ Candidate(request[q].version)
  /\ request[q].pc \in {"alias", "get", "put"} =>
       request[q].version \in Models /\ Governed(request[q].version)

\* A use has no record before it ends, and its object is of the version it scored with.
UseOK(u) ==
  /\ request[u].pc \in {"object", "record"} => Usable(request[u].version)
  /\ ~RequestAt(u, "done") => evidence[u].record = NoModel
  /\ RequestAt(u, "record") => evidence[u].object = request[u].version

EvidenceOK(u) ==
  /\ evidence[u].record # NoModel => evidence[u].object = evidence[u].record
  /\ evidence[u].object \in Models => Governed(evidence[u].object)

RegistryInv ==
  /\ RegistryTypeOK
  /\ \A v \in Models : ModelOK(v)
  /\ \A q \in Requests : RequestOK(q)
  /\ \A u \in Uses : UseOK(u) /\ EvidenceOK(u)
  /\ ChampionIsGoverned

\* What a step of the registry never takes back.
Grows ==
  /\ artifact \subseteq artifact' /\ passed \subseteq passed' /\ deployments \subseteq deployments'
  /\ \A v \in Models : model[v].status # "none" => model'[v].status # "none"

LEMMA GovernedStays ==
  ASSUME Grows
  PROVE  /\ \A v \in Models : Candidate(v) => Candidate(v)'
         /\ \A v \in Models : Governed(v) => Governed(v)'
         /\ \A v : Usable(v) => Usable(v)'
<1>1. \A v \in Models : Candidate(v) => Candidate(v)'
  BY DEF Grows, Candidate
<1>2. \A v \in Models : Governed(v) => Governed(v)'
  BY DEF Grows, Governed
<1>3. \A v : Usable(v) => Usable(v)'
  BY <1>2 DEF Usable
<1>4. QED
  BY <1>1, <1>2, <1>3

\* A step of one request leaves what holds of the others.
LEMMA OtherRequests ==
  ASSUME RegistryInv, Grows, RegistryTypeOK', NEW q \in Requests,
         \A j \in Requests \ {q} : request'[j] = request[j],
         \A u \in Uses \ {q} : evidence'[u] = evidence[u],
         \A v \in Models : ModelOK(v)',
         RequestOK(q)', q \in Uses => UseOK(q)' /\ EvidenceOK(q)',
         ChampionIsGoverned'
  PROVE  RegistryInv'
<1>1. \A j \in Requests \ {q} : RequestOK(j)'
  <2> SUFFICES ASSUME NEW j \in Requests \ {q} PROVE RequestOK(j)'
    OBVIOUS
  <2>1. RequestOK(j) /\ request'[j] = request[j]
    BY DEF RegistryInv
  <2>2. artifact \subseteq artifact'
    BY DEF Grows
  <2>3. QED
    BY <2>1, <2>2, GovernedStays DEF RequestOK, RequestAt
<1>2. \A u \in Uses \ {q} : UseOK(u)' /\ EvidenceOK(u)'
  <2> SUFFICES ASSUME NEW u \in Uses \ {q} PROVE UseOK(u)' /\ EvidenceOK(u)'
    OBVIOUS
  <2>1. UseOK(u) /\ EvidenceOK(u) /\ request'[u] = request[u] /\ evidence'[u] = evidence[u]
    BY DEF RegistryInv, Requests, Uses
  <2>2. QED
    BY <2>1, GovernedStays DEF UseOK, EvidenceOK, RequestAt
<1>3. QED
  BY <1>1, <1>2 DEF RegistryInv

LEMMA SameRegistry ==
  ASSUME RegistryInv, RegistryTypeOK',
         UNCHANGED <<artifact, model, passed, deployments, alias, request, evidence>>
  PROVE  RegistryInv'
BY DEF RegistryInv, ModelOK, Candidate, RequestOK, UseOK, EvidenceOK, Usable, RequestAt,
   ChampionIsGoverned, Governed

LEMMA NewRequest == New \in RequestRecord /\ New.pc = "new"
BY DEF New, RequestRecord, Unregistered, Registration, Version

\* The request of an action, field by field.
LEMMA RequestGoes ==
  ASSUME RegistryTypeOK, NEW q \in Requests, NEW pc, RequestGoto(q, pc)
  PROVE  /\ request'[q].pc = pc /\ request'[q].version = request[q].version
         /\ request'[q].read = request[q].read
         /\ \A j \in Requests \ {q} : request'[j] = request[j]
         /\ pc \in {"alias", "get", "put", "record", "done"} => request' \in [Requests -> RequestRecord]
BY DEF RegistryTypeOK, RequestGoto, RequestRecord

LEMMA RequestDone ==
  ASSUME RegistryTypeOK, NEW q \in Requests, RequestEnds(q)
  PROVE  /\ request'[q].pc = "done"
         /\ \A j \in Requests \ {q} : request'[j] = request[j]
         /\ request' \in [Requests -> RequestRecord]
<1>1. [New EXCEPT !.pc = "done"] \in RequestRecord /\ [New EXCEPT !.pc = "done"].pc = "done"
  BY NewRequest DEF RequestRecord
<1>2. QED
  BY <1>1 DEF RegistryTypeOK, RequestEnds, RequestRecord

\* An action that ends a request and changes nothing that a request relies on.
LEMMA EndedRequest ==
  ASSUME RegistryInv, NEW q \in Requests, RequestEnds(q), RegistryTypeOK', Grows,
         UNCHANGED evidence, \A v \in Models : ModelOK(v)', ChampionIsGoverned'
  PROVE  RegistryInv'
<1>0. RegistryTypeOK
  BY DEF RegistryInv
<1>1. request'[q].pc = "done" /\ \A j \in Requests \ {q} : request'[j] = request[j]
  BY <1>0, RequestDone
<1>2. RequestOK(q)'
  BY <1>1 DEF RequestOK, RequestAt
<1>3. q \in Uses => UseOK(q)' /\ EvidenceOK(q)'
  BY <1>1, GovernedStays DEF RegistryInv, UseOK, EvidenceOK, RequestAt
<1>4. QED
  BY <1>1, <1>2, <1>3, OtherRequests

-----------------------------------------------------------------------------
(* The steps of the registry *)

LEMMA Bounds ==
  ASSUME RegistryTypeOK
  PROVE  /\ Input => inputs' \in 0 .. MaxInputs
         /\ Fault => faults' \in 0 .. MaxFaults
BY BoundAssumption DEF RegistryTypeOK, Input, Fault

LEMMA PutArtifactInv ==
  ASSUME RegistryInv, NEW t \in Trainings, PutArtifact(t) PROVE RegistryInv'
<1>0. RegistryTypeOK /\ t \in Requests
  BY DEF RegistryInv, Requests
<1>1. PICK v \in Models, passes \in BOOLEAN :
         /\ artifact' = artifact \union {v}
         /\ request' = [request EXCEPT ![t] =
              [pc |-> "register", version |-> v,
               read |-> [status |-> "registered", passes |-> passes]]]
  BY DEF PutArtifact
<1>2. request' \in [Requests -> RequestRecord]
  BY <1>0, <1>1 DEF RegistryTypeOK, RequestRecord, Registration, Version
<1>3. RegistryTypeOK'
  BY <1>0, <1>1, <1>2, Bounds DEF PutArtifact, RegistryTypeOK, RequestRecord
<1>4. Grows
  BY <1>1 DEF PutArtifact, Grows
<1>5. /\ request'[t].pc = "register" /\ request'[t].version = v
      /\ request'[t].read.status = "registered"
      /\ \A j \in Requests \ {t} : request'[j] = request[j]
  BY <1>0, <1>1 DEF RegistryTypeOK
<1>6. RequestOK(t)'
  BY <1>1, <1>5 DEF RequestOK, RequestAt
<1>7. t \in Uses => UseOK(t)' /\ EvidenceOK(t)'
  BY <1>4, <1>5, GovernedStays DEF RegistryInv, UseOK, EvidenceOK, RequestAt, PutArtifact
<1>8. (\A v_1 \in Models : ModelOK(v_1)') /\ ChampionIsGoverned'
  BY <1>0, <1>4, GovernedStays
  DEF RegistryInv, ModelOK, ChampionIsGoverned, PutArtifact, RegistryTypeOK
<1>9. QED
  BY <1>0, <1>3, <1>4, <1>5, <1>6, <1>7, <1>8, OtherRequests DEF PutArtifact

LEMMA RegisterInv ==
  ASSUME RegistryInv, NEW t \in Trainings, Register(t) PROVE RegistryInv'
<1>0. RegistryTypeOK /\ t \in Requests
  BY DEF RegistryInv, Requests
<1>p. PICK v, read : v = request[t].version /\ read = request[t].read
  OBVIOUS
<1>1. /\ v \in artifact /\ v \in Models /\ read.status = "registered" /\ read \in Registration
      /\ RequestEnds(t)
  BY <1>p, <1>0 DEF RegistryInv, RequestOK, Register, RegistryTypeOK
<1>2. /\ model' = [model EXCEPT ![v] = read]
      /\ passed' = IF read.passes THEN passed \union {v} ELSE passed
      /\ UNCHANGED <<artifact, deployments, alias, evidence, inputs, faults>>
  BY <1>p DEF Register
<1>3. RegistryTypeOK'
  BY <1>0, <1>1, <1>2, RequestDone DEF RegistryTypeOK, RequestRecord
<1>4. model'[v] = read /\ \A w \in Models \ {v} : model'[w] = model[w]
  BY <1>0, <1>1, <1>2 DEF RegistryTypeOK
<1>5. Grows
  BY <1>1, <1>2, <1>4 DEF Grows
<1>6. \A w \in Models : ModelOK(w)'
  <2>1. ModelOK(v)'
    BY <1>1, <1>2, <1>4 DEF ModelOK, Candidate
  <2>2. ASSUME NEW w \in Models \ {v} PROVE ModelOK(w)'
    <3>1. ModelOK(w) /\ model'[w] = model[w]
      BY <1>4 DEF RegistryInv
    <3>2. QED
      BY <1>5, <3>1, GovernedStays DEF ModelOK
  <2>3. QED
    BY <2>1, <2>2
<1>7. ChampionIsGoverned'
  BY <1>0, <1>2, <1>5, GovernedStays DEF RegistryInv, ChampionIsGoverned, RegistryTypeOK
<1>8. QED
  BY <1>0, <1>1, <1>2, <1>3, <1>5, <1>6, <1>7, EndedRequest

LEMMA PromotionGateInv ==
  ASSUME RegistryInv, NEW p \in Promotions, PromotionGate(p) PROVE RegistryInv'
<1>0. RegistryTypeOK /\ p \in Requests
  BY DEF RegistryInv, Requests
<1>1. PICK v \in Models :
         IF model[v].passes
         THEN request' = [request EXCEPT ![p].pc = "receipt", ![p].version = v]
         ELSE RequestEnds(p)
  BY DEF PromotionGate
<1>2. UNCHANGED <<artifact, model, passed, deployments, alias, evidence, faults>>
      /\ inputs' \in 0 .. MaxInputs
  BY <1>0, Bounds DEF PromotionGate
<1>3. Grows /\ (\A w \in Models : ModelOK(w)') /\ ChampionIsGoverned'
  BY <1>2 DEF Grows, RegistryInv, ModelOK, Candidate, ChampionIsGoverned, Governed
<1>4. CASE model[v].passes
  <2>1. /\ request'[p].pc = "receipt" /\ request'[p].version = v
        /\ \A j \in Requests \ {p} : request'[j] = request[j]
        /\ request' \in [Requests -> RequestRecord]
    BY <1>0, <1>1, <1>4 DEF RegistryTypeOK, RequestRecord, Version
  <2>2. RegistryTypeOK'
    BY <1>0, <1>2, <2>1 DEF RegistryTypeOK, RequestRecord
  <2>3. Candidate(v)'
    BY <1>3, <1>4, GovernedStays DEF RegistryInv, ModelOK
  <2>4. RequestOK(p)'
    BY <2>1, <2>3 DEF RequestOK, RequestAt
  <2>5. p \in Uses => UseOK(p)' /\ EvidenceOK(p)'
    BY <1>2, <1>3, <2>1, GovernedStays DEF RegistryInv, UseOK, EvidenceOK, RequestAt, PromotionGate
  <2>6. QED
    BY <1>0, <1>2, <1>3, <2>1, <2>2, <2>4, <2>5, OtherRequests
<1>5. CASE ~model[v].passes
  <2>1. RequestEnds(p)
    BY <1>1, <1>5
  <2>2. RegistryTypeOK'
    BY <1>0, <1>2, <2>1, RequestDone DEF RegistryTypeOK, RequestRecord
  <2>3. QED
    BY <1>0, <1>2, <1>3, <2>1, <2>2, EndedRequest
<1>6. QED
  BY <1>4, <1>5

\* The receipt and the alias: the request moves on, and its version stays governed.
LEMMA PromotingInv ==
  ASSUME RegistryInv, NEW p \in Promotions, PutReceipt(p) \/ PutAlias(p) PROVE RegistryInv'
<1>0. RegistryTypeOK /\ p \in Requests /\ RequestOK(p)
  BY DEF RegistryInv, Requests
<1>p. PICK v : v = request[p].version
  OBVIOUS
<1>1. PICK pc \in {"alias", "get"} : RequestGoto(p, pc)
  BY DEF PutReceipt, PutAlias
<1>2. /\ request'[p].pc \in {"alias", "get"} /\ request'[p].version = v
      /\ \A j \in Requests \ {p} : request'[j] = request[j]
      /\ request' \in [Requests -> RequestRecord]
  BY <1>p, <1>0, <1>1, RequestGoes
<1>3. /\ v \in Models /\ Candidate(v) /\ ~RequestAt(p, "done")
      /\ \/ deployments' = deployments \union {v} /\ alias' = alias
         \/ Governed(v) /\ alias' = v /\ deployments' = deployments
  BY <1>p, <1>0 DEF PutReceipt, PutAlias, RequestOK, RequestAt, Candidate, Governed
<1>4. UNCHANGED <<artifact, model, passed, evidence, inputs, faults>>
  BY DEF PutReceipt, PutAlias
<1>5. RegistryTypeOK'
  BY <1>0, <1>2, <1>3, <1>4 DEF RegistryTypeOK, RequestRecord
<1>6. Grows
  BY <1>3, <1>4 DEF Grows
<1>7. Governed(v)'
  BY <1>3, <1>4 DEF Governed, Candidate
<1>8. \A w \in Models : ModelOK(w)'
  BY <1>4 DEF RegistryInv, ModelOK, Candidate
<1>9. ChampionIsGoverned'
  BY <1>0, <1>3, <1>6, <1>7, GovernedStays DEF RegistryInv, ChampionIsGoverned, RegistryTypeOK
<1>10. RequestOK(p)'
  BY <1>2, <1>3, <1>7 DEF RequestOK, RequestAt
<1>11. p \in Uses => UseOK(p)' /\ EvidenceOK(p)'
  BY <1>2, <1>3, <1>4, <1>6, GovernedStays DEF RegistryInv, UseOK, EvidenceOK, RequestAt
<1>12. QED
  BY <1>0, <1>2, <1>4, <1>5, <1>6, <1>8, <1>9, <1>10, <1>11, OtherRequests

LEMMA GetModelInv ==
  ASSUME RegistryInv, NEW p \in Promotions, GetModel(p) PROVE RegistryInv'
<1>0. RegistryTypeOK /\ p \in Requests /\ RequestOK(p)
  BY DEF RegistryInv, Requests
<1>p. PICK v : v = request[p].version
  OBVIOUS
<1>1. v \in Models /\ Governed(v) /\ ~RequestAt(p, "done") /\ model[v] \in Registration
  BY <1>p, <1>0 DEF GetModel, RequestOK, RequestAt, RegistryTypeOK
<1>2. /\ request'[p].pc = "put" /\ request'[p].version = v
      /\ \A j \in Requests \ {p} : request'[j] = request[j]
      /\ request' \in [Requests -> RequestRecord]
  BY <1>p, <1>0, <1>1 DEF GetModel, RegistryTypeOK, RequestRecord
<1>3. UNCHANGED <<artifact, model, passed, deployments, alias, evidence, inputs, faults>>
  BY DEF GetModel
<1>4. RegistryTypeOK'
  BY <1>0, <1>2, <1>3 DEF RegistryTypeOK, RequestRecord
<1>5. Grows /\ (\A w \in Models : ModelOK(w)') /\ ChampionIsGoverned'
  BY <1>3 DEF Grows, RegistryInv, ModelOK, Candidate, ChampionIsGoverned, Governed
<1>6. RequestOK(p)'
  BY <1>1, <1>2, <1>5, GovernedStays DEF RequestOK, RequestAt
<1>7. p \in Uses => UseOK(p)' /\ EvidenceOK(p)'
  BY <1>1, <1>2, <1>3, <1>5, GovernedStays DEF RegistryInv, UseOK, EvidenceOK, RequestAt
<1>8. QED
  BY <1>0, <1>2, <1>3, <1>4, <1>5, <1>6, <1>7, OtherRequests

\* What was read of the model goes back with the status of a deployment.
LEMMA PutModelInv ==
  ASSUME RegistryInv, NEW p \in Promotions, PutModel(p) PROVE RegistryInv'
<1>0. RegistryTypeOK /\ p \in Requests /\ RequestOK(p)
  BY DEF RegistryInv, Requests
<1>p. PICK v, written : /\ v = request[p].version
                        /\ written = [request[p].read EXCEPT !.status = "deployed"]
  OBVIOUS
<1>1. v \in Models /\ Governed(v) /\ RequestEnds(p)
  BY <1>p, <1>0 DEF PutModel, RequestOK, RequestAt
<1>2. written \in Registration /\ written.status = "deployed"
  BY <1>p, <1>0 DEF RegistryTypeOK, Registration
<1>3. model' = [model EXCEPT ![v] = written]
      /\ UNCHANGED <<artifact, passed, deployments, alias, evidence, inputs, faults>>
  BY <1>p DEF PutModel
<1>4. model'[v] = written /\ \A w \in Models \ {v} : model'[w] = model[w]
  BY <1>0, <1>1, <1>3 DEF RegistryTypeOK
<1>5. RegistryTypeOK'
  BY <1>0, <1>1, <1>2, <1>3, RequestDone DEF RegistryTypeOK, RequestRecord
<1>6. Grows
  BY <1>2, <1>3, <1>4 DEF Grows
<1>7. \A w \in Models : ModelOK(w)'
  <2>1. ModelOK(v)'
    BY <1>1, <1>2, <1>3, <1>4 DEF ModelOK, Candidate, Governed
  <2>2. ASSUME NEW w \in Models \ {v} PROVE ModelOK(w)'
    <3>1. ModelOK(w) /\ model'[w] = model[w]
      BY <1>4 DEF RegistryInv
    <3>2. QED
      BY <1>6, <3>1, GovernedStays DEF ModelOK
  <2>3. QED
    BY <2>1, <2>2
<1>8. ChampionIsGoverned'
  BY <1>0, <1>3, <1>6, GovernedStays DEF RegistryInv, ChampionIsGoverned, RegistryTypeOK
<1>9. QED
  BY <1>0, <1>1, <1>3, <1>5, <1>6, <1>7, <1>8, EndedRequest

LEMMA ChampionUsable ==
  ASSUME RegistryInv PROVE Champion \in Version /\ Usable(Champion)
BY VersionAssumption
DEF RegistryInv, RegistryTypeOK, Champion, Usable, ChampionIsGoverned, Version, NoModel, Baseline

LEMMA ScoreInv ==
  ASSUME RegistryInv, NEW u \in Uses, Score(u) PROVE RegistryInv'
<1>0. RegistryTypeOK /\ u \in Requests /\ UseOK(u) /\ EvidenceOK(u)
  BY DEF RegistryInv, Requests, Uses
<1>1. Champion \in Version /\ Usable(Champion)
  BY ChampionUsable
<1>2. /\ request'[u].pc = "object" /\ request'[u].version = Champion
      /\ \A j \in Requests \ {u} : request'[j] = request[j]
      /\ request' \in [Requests -> RequestRecord]
  BY <1>0, <1>1 DEF Score, RegistryTypeOK, RequestRecord
<1>3. UNCHANGED <<artifact, model, passed, deployments, alias, evidence, faults>>
      /\ inputs' \in 0 .. MaxInputs /\ ~RequestAt(u, "done")
  BY <1>0, Bounds DEF Score, RequestAt
<1>4. RegistryTypeOK'
  BY <1>0, <1>2, <1>3 DEF RegistryTypeOK, RequestRecord
<1>5. Grows /\ (\A w \in Models : ModelOK(w)') /\ ChampionIsGoverned'
  BY <1>3 DEF Grows, RegistryInv, ModelOK, Candidate, ChampionIsGoverned, Governed
<1>6. RequestOK(u)'
  BY <1>2 DEF RequestOK, RequestAt
<1>7. \A v : Usable(v) => Usable(v)'
  BY <1>5, GovernedStays
<1>8. UseOK(u)' /\ EvidenceOK(u)'
  BY <1>0, <1>1, <1>2, <1>3, <1>5, <1>7, GovernedStays DEF UseOK, EvidenceOK, RequestAt
<1>9. QED
  BY <1>0, <1>2, <1>3, <1>4, <1>5, <1>6, <1>8, OtherRequests

LEMMA PutObjectInv ==
  ASSUME RegistryInv, NEW u \in Uses, PutObject(u) PROVE RegistryInv'
<1>0. RegistryTypeOK /\ u \in Requests /\ UseOK(u) /\ EvidenceOK(u)
  BY DEF RegistryInv, Requests, Uses
<1>p. PICK v : v = request[u].version
  OBVIOUS
<1>1. /\ request'[u].pc = "record" /\ request'[u].version = v
      /\ \A j \in Requests \ {u} : request'[j] = request[j]
      /\ request' \in [Requests -> RequestRecord]
  BY <1>p, <1>0, RequestGoes DEF PutObject
<1>2. Usable(v) /\ v \in Version /\ evidence[u].record = NoModel
  BY <1>p, <1>0 DEF PutObject, UseOK, RequestAt, RegistryTypeOK
<1>3. evidence' = [evidence EXCEPT ![u].object = v]
      /\ UNCHANGED <<artifact, model, passed, deployments, alias, inputs, faults>>
  BY <1>p DEF PutObject
<1>4. /\ evidence'[u].object = v /\ evidence'[u].record = NoModel
      /\ \A w \in Uses \ {u} : evidence'[w] = evidence[w]
  BY <1>0, <1>2, <1>3 DEF RegistryTypeOK
<1>5. RegistryTypeOK'
  BY <1>0, <1>1, <1>2, <1>3 DEF RegistryTypeOK, RequestRecord
<1>6. Grows /\ (\A w \in Models : ModelOK(w)') /\ ChampionIsGoverned'
  BY <1>3 DEF Grows, RegistryInv, ModelOK, Candidate, ChampionIsGoverned, Governed
<1>7. RequestOK(u)'
  BY <1>1 DEF RequestOK, RequestAt
<1>8. Usable(v)'
  BY <1>2, <1>6, GovernedStays
<1>9. UseOK(u)' /\ EvidenceOK(u)'
  BY <1>1, <1>4, <1>8 DEF UseOK, EvidenceOK, RequestAt, Usable
<1>10. QED
  BY <1>0, <1>1, <1>4, <1>5, <1>6, <1>7, <1>9, OtherRequests

LEMMA PutRecordInv ==
  ASSUME RegistryInv, NEW u \in Uses, PutRecord(u) PROVE RegistryInv'
<1>0. RegistryTypeOK /\ u \in Requests /\ UseOK(u) /\ EvidenceOK(u)
  BY DEF RegistryInv, Requests, Uses
<1>p. PICK v : v = request[u].version
  OBVIOUS
<1>1. /\ request'[u].pc = "done"
      /\ \A j \in Requests \ {u} : request'[j] = request[j]
      /\ request' \in [Requests -> RequestRecord]
  BY <1>0, RequestDone DEF PutRecord
<1>2. v \in Version /\ evidence[u].object = v
  BY <1>p, <1>0 DEF PutRecord, UseOK, RequestAt, RegistryTypeOK
<1>3. evidence' = [evidence EXCEPT ![u].record = v]
      /\ UNCHANGED <<artifact, model, passed, deployments, alias, inputs, faults>>
  BY <1>p DEF PutRecord
<1>4. /\ evidence'[u].object = v /\ evidence'[u].record = v
      /\ \A w \in Uses \ {u} : evidence'[w] = evidence[w]
  BY <1>0, <1>2, <1>3 DEF RegistryTypeOK
<1>5. RegistryTypeOK'
  BY <1>0, <1>1, <1>2, <1>3 DEF RegistryTypeOK, RequestRecord
<1>6. Grows /\ (\A w \in Models : ModelOK(w)') /\ ChampionIsGoverned'
  BY <1>3 DEF Grows, RegistryInv, ModelOK, Candidate, ChampionIsGoverned, Governed
<1>7. RequestOK(u)' /\ UseOK(u)'
  BY <1>1 DEF RequestOK, UseOK, RequestAt
<1>8. EvidenceOK(u)'
  BY <1>0, <1>2, <1>4, <1>6, GovernedStays DEF EvidenceOK
<1>9. QED
  BY <1>0, <1>1, <1>4, <1>5, <1>6, <1>7, <1>8, OtherRequests

LEMMA RequestDiesInv ==
  ASSUME RegistryInv, NEW q \in Requests, RequestDies(q) PROVE RegistryInv'
<1>0. RegistryTypeOK
  BY DEF RegistryInv
<1>1. UNCHANGED <<artifact, model, passed, deployments, alias, evidence, inputs>>
      /\ faults' \in 0 .. MaxFaults /\ RequestEnds(q)
  BY <1>0, Bounds DEF RequestDies
<1>2. RegistryTypeOK'
  BY <1>0, <1>1, RequestDone DEF RegistryTypeOK, RequestRecord
<1>3. Grows /\ (\A w \in Models : ModelOK(w)') /\ ChampionIsGoverned'
  BY <1>1 DEF Grows, RegistryInv, ModelOK, Candidate, ChampionIsGoverned, Governed
<1>4. QED
  BY <1>1, <1>2, <1>3, EndedRequest

LEMMA RegistryStep == RegistryInv /\ RegistryNext => RegistryInv' /\ Grows
<1> SUFFICES ASSUME RegistryInv, RegistryNext PROVE RegistryInv' /\ Grows
  OBVIOUS
<1>1. RegistryInv'
  BY PutArtifactInv, RegisterInv, PromotionGateInv, PromotingInv, GetModelInv, PutModelInv,
     ScoreInv, PutObjectInv, PutRecordInv, RequestDiesInv
  DEF RegistryNext
<1>2. Grows
  <2>1. \A t \in Trainings : Register(t) => Grows
    BY DEF Register, Grows, RegistryInv, RequestOK, RegistryTypeOK, Requests
  <2>2. \A p \in Promotions : PutModel(p) => Grows
    BY DEF PutModel, Grows, RegistryInv, RegistryTypeOK, Requests, Registration
  <2>3. QED
    BY <2>1, <2>2 DEF RegistryNext, PutArtifact, PromotionGate, PutReceipt, PutAlias, GetModel,
       Score, PutObject, PutRecord, RequestDies, Grows
<1>3. QED
  BY <1>1, <1>2
-----------------------------------------------------------------------------
(* The documents *)

ExecRecord ==
  [stage : Stages, step : {"work", "silver", "gold", "get", "put"},
   doc : Docs \union {Nowhere}, bytes : Content,
   status : Statuses, model : Version, read : Version, awaited : BOOLEAN]

\* What an execution has behind it, stage by stage; it is known which of them lost sight
\* of what they had invoked.
Active(e) ==
  LET x == exec[e] IN
  /\ x.stage # "none" /\ x.doc \in Docs
  /\ x.stage \in {"quality", "curate"} => bronze[x.doc] = "declared"
  /\ x.stage = "curate" => quality[x.doc] = "pass"
  /\ x.step \in {"silver", "gold"} =>
       x.stage = "curate" /\ x.bytes = "declared" /\ Usable(x.model)
  /\ x.step = "gold" => silver[x.doc] = "declared"
  /\ x.step \in {"get", "put"} =>
       /\ x.stage = "inspect" =>
            \/ x.status = "quarantined"
            \/ x.status = "running" /\ bronze[x.doc] = "declared"
       /\ x.stage = "quality" =>
            \/ x.status = "quarantined"
            \/ x.status = "running" /\ quality[x.doc] = "pass"
       /\ x.stage = "curate" =>
            x.status = "completed" /\ gold[x.doc] # NoGold /\ x.model # NoModel
       /\ x.stage = "quarantine" => x.status = "quarantined"
       /\ x.stage = "failure" => x.status = "failed"
  /\ ~x.awaited => x.doc \in unattributed

\* What lies in the lake of a document.
LakeOK(d) ==
  /\ bronze[d] \in {Nowhere, "declared"}
  /\ quality[d] = "pass" => bronze[d] = "declared" /\ kind[d] = "fit"
  /\ silver[d] # Nowhere => silver[d] = "declared" /\ quality[d] = "pass"
  /\ gold[d] # NoGold =>
       gold[d].of = "declared" /\ silver[d] = "declared" /\ Usable(gold[d].model)

CompletedOK(d) ==
  run[d].status = "completed" => gold[d] # NoGold /\ run[d].model # NoModel

\* Somebody still works for a document that has not settled.
SettledOK(d) ==
  /\ object[d] # Nowhere => run[d].status # "none"
  /\ run[d].status \in {"awaiting-upload", "running"} /\ object[d] # Nowhere =>
       \/ \E event \in events : event[1] = d
       \/ \E e \in Executions : Doc(e) = d
       \/ d \in unattributed

DocumentInv ==
  /\ TypeOK
  /\ \A e \in Executions : exec[e] = NoExecution \/ Active(e)
  /\ \A d \in Docs : LakeOK(d) /\ CompletedOK(d) /\ SettledOK(d)

IInv == RegistryInv /\ DocumentInv
-----------------------------------------------------------------------------
(* Executions *)

LEMMA Resting ==
  /\ NoExecution \in ExecRecord /\ NoExecution.stage = "none" /\ NoExecution.step = "work"
  /\ NoExecution.doc = Nowhere /\ NoExecution.bytes = Nowhere /\ NoExecution.awaited
BY DEF NoExecution, ExecRecord, Stages, Statuses, Content, Version

\* The registry stays as it is, or only its counters move.
LEMMA RegistryKept ==
  ASSUME RegistryInv,
         UNCHANGED <<artifact, model, passed, deployments, alias, request, evidence>>,
         \/ UNCHANGED <<inputs, faults>>
         \/ Input /\ UNCHANGED faults
         \/ Fault /\ UNCHANGED inputs
  PROVE  RegistryInv' /\ Grows
<1>1. RegistryTypeOK
  BY DEF RegistryInv
<1>2. RegistryTypeOK'
  BY <1>1, Bounds DEF RegistryTypeOK
<1>3. QED
  BY <1>2, SameRegistry DEF Grows

\* A stage has done its work.
LEMMA Merged ==
  ASSUME TypeOK, NEW e \in Executions, NEW status \in Statuses, NEW named \in Version,
         Merges(e, status, named)
  PROVE  /\ exec' \in [Executions -> ExecRecord]
         /\ \A f \in Executions \ {e} : exec'[f] = exec[f]
         /\ exec'[e].step = "get" /\ exec'[e].status = status /\ exec'[e].model = named
         /\ exec'[e].stage = exec[e].stage /\ exec'[e].doc = exec[e].doc
         /\ exec'[e].awaited = exec[e].awaited
<1> DEFINE x == [exec[e] EXCEPT !.step = "get", !.status = status, !.model = named]
<1>1. exec \in [Executions -> ExecRecord] /\ exec[e] \in ExecRecord
  BY DEF TypeOK, ExecRecord
<1>2. /\ x \in ExecRecord /\ x.step = "get" /\ x.status = status /\ x.model = named
      /\ x.stage = exec[e].stage /\ x.doc = exec[e].doc /\ x.awaited = exec[e].awaited
  BY <1>1 DEF ExecRecord
<1>3. exec' = [exec EXCEPT ![e] = x]
  BY <1>1 DEF Merges, ExecRecord
<1> HIDE DEF x
<1>4. QED
  BY <1>1, <1>2, <1>3

\* An execution enters a stage, or ends.
LEMMA EntryIs ==
  ASSUME TypeOK, NEW e \in Executions, NEW stage \in Stages
  PROVE  /\ Entry(e, stage) \in ExecRecord /\ Entry(e, stage).awaited
         /\ Entry(e, stage).step = "work"
         /\ stage = "none" => Entry(e, stage) = NoExecution
         /\ stage # "none" => Entry(e, stage).stage = stage /\ Entry(e, stage).doc = exec[e].doc
<1>1. exec[e] \in ExecRecord
  BY DEF TypeOK, ExecRecord
<1>2. CASE stage = "none"
  BY <1>2, Resting DEF Entry
<1>3. CASE stage # "none"
  <2> DEFINE b == IF stage = "inspect" THEN exec[e].bytes ELSE Nowhere
             x == [NoExecution EXCEPT !.stage = stage, !.doc = exec[e].doc, !.bytes = b]
  <2>1. b \in Content
    BY <1>1 DEF ExecRecord, Content
  <2>2. Entry(e, stage) = x
    BY <1>3 DEF Entry, Doc
  <2> HIDE DEF b
  <2>3. /\ x \in ExecRecord /\ x.stage = stage /\ x.step = "work" /\ x.doc = exec[e].doc
        /\ x.awaited
    BY <1>1, <2>1, Resting DEF ExecRecord
  <2> HIDE DEF x
  <2>4. QED
    BY <1>3, <2>2, <2>3
<1>4. QED
  BY <1>2, <1>3

LEMMA Entered ==
  ASSUME TypeOK, NEW e \in Executions, NEW stage \in Stages, EntersStage(e, stage)
  PROVE  /\ exec' \in [Executions -> ExecRecord]
         /\ \A f \in Executions \ {e} : exec'[f] = exec[f]
         /\ stage = "none" => exec'[e] = NoExecution
         /\ stage # "none" => exec'[e].stage = stage /\ exec'[e].step = "work"
                              /\ exec'[e].doc = exec[e].doc /\ exec'[e].awaited
<1>1. exec \in [Executions -> ExecRecord]
  BY DEF TypeOK, ExecRecord
<1>2. exec' = [exec EXCEPT ![e] = Entry(e, stage)]
  BY DEF EntersStage
<1>3. QED
  BY <1>1, <1>2, EntryIs

\* What the lake never takes back.
LakeGrows ==
  /\ \A d \in Docs :
       /\ bronze[d] = "declared" => bronze'[d] = "declared"
       /\ quality[d] = "pass" => quality'[d] = "pass"
       /\ silver[d] = "declared" => silver'[d] = "declared"
       /\ gold[d] # NoGold => gold'[d] # NoGold
  /\ unattributed \subseteq unattributed'

LEMMA OtherExecutions ==
  ASSUME IInv, RegistryInv', Grows, TypeOK', LakeGrows, NEW E \in SUBSET Executions,
         \A f \in Executions \ E : exec'[f] = exec[f],
         \A f \in E : exec'[f] = NoExecution \/ Active(f)',
         \A d \in Docs : LakeOK(d)' /\ CompletedOK(d)' /\ SettledOK(d)'
  PROVE  IInv'
<1>1. \A f \in Executions \ E : exec'[f] = NoExecution \/ Active(f)'
  <2> SUFFICES ASSUME NEW f \in Executions \ E, exec[f] # NoExecution PROVE Active(f)'
    OBVIOUS
  <2>1. Active(f) /\ exec'[f] = exec[f]
    BY DEF IInv, DocumentInv
  <2>2. \A v : Usable(v) => Usable(v)'
    BY GovernedStays
  <2>3. QED
    BY <2>1, <2>2 DEF Active, LakeGrows
<1>2. QED
  BY <1>1 DEF IInv, DocumentInv

LEMMA OneExecution ==
  ASSUME IInv, RegistryInv', Grows, TypeOK', LakeGrows, NEW e \in Executions,
         \A f \in Executions \ {e} : exec'[f] = exec[f],
         exec'[e] = NoExecution \/ Active(e)',
         \A d \in Docs : LakeOK(d)' /\ CompletedOK(d)' /\ SettledOK(d)'
  PROVE  IInv'
<1>1. {e} \in SUBSET Executions
  OBVIOUS
<1>2. QED
  BY <1>1, OtherExecutions

\* The lake stays as it is.
LEMMA SameLake ==
  ASSUME IInv, Grows, UNCHANGED <<kind, bronze, quality, silver, gold>>,
         unattributed \subseteq unattributed'
  PROVE  LakeGrows /\ \A d \in Docs : LakeOK(d)'
<1>1. LakeGrows
  BY DEF LakeGrows
<1>2. ASSUME NEW d \in Docs PROVE LakeOK(d)'
  <2>1. LakeOK(d)
    BY DEF IInv, DocumentInv
  <2>2. \A v : Usable(v) => Usable(v)'
    BY GovernedStays
  <2>3. QED
    BY <2>1, <2>2 DEF LakeOK
<1>3. QED
  BY <1>1, <1>2

\* Nobody who works for a document leaves it unsettled.
Settled == {"quarantined", "completed", "failed"}

LEMMA Settling ==
  ASSUME \A d \in Docs : SettledOK(d),
         UNCHANGED <<object, events>>, unattributed \subseteq unattributed',
         \A d \in Docs : \/ run'[d].status = run[d].status
                         \/ run'[d].status \in Settled
                         \/ run'[d].status = "running" /\ \E f \in Executions : exec'[f].doc = d
                         \/ d \in unattributed' /\ run'[d].status # "none",
         \A f \in Executions : exec[f].doc \in Docs =>
            \/ exec'[f].doc = exec[f].doc
            \/ exec[f].doc \in unattributed'
            \/ run'[exec[f].doc].status \in Settled
  PROVE  \A d \in Docs : SettledOK(d)'
<1> SUFFICES ASSUME NEW d \in Docs PROVE SettledOK(d)'
  OBVIOUS
<1>1. CASE run'[d].status \in Settled
  BY <1>1 DEF Settled, SettledOK
<1>2. CASE run'[d].status = "running" /\ \E f \in Executions : exec'[f].doc = d
  BY <1>2 DEF SettledOK, Doc
<1>3. CASE run'[d].status = run[d].status /\ run[d].status \notin Settled
  <2>1. SettledOK(d)
    OBVIOUS
  <2>2. QED
    BY <1>3, <2>1 DEF SettledOK, Doc
<1>4. CASE d \in unattributed' /\ run'[d].status # "none"
  BY <1>4 DEF SettledOK
<1>5. QED
  BY <1>1, <1>2, <1>3, <1>4

LEMMA SameRuns ==
  ASSUME IInv, UNCHANGED run, LakeGrows
  PROVE  \A d \in Docs : CompletedOK(d)'
BY DEF IInv, DocumentInv, CompletedOK, LakeGrows

\* A step that leaves the document of every execution alone, and the runs too.
LEMMA StillSettled ==
  ASSUME IInv, UNCHANGED <<run, object, events, unattributed>>,
         NEW e \in Executions, \A f \in Executions \ {e} : exec'[f] = exec[f],
         exec'[e].doc = exec[e].doc
  PROVE  \A d \in Docs : SettledOK(d)'
<1>1. \A f \in Executions : exec'[f].doc = exec[f].doc
  OBVIOUS
<1>2. \A d \in Docs : SettledOK(d)
  BY DEF IInv, DocumentInv
<1>3. QED
  BY <1>1, <1>2, Settling

-----------------------------------------------------------------------------
(* The steps beside the stages *)

LEMMA InitInv == Init => IInv
<1> SUFFICES ASSUME Init PROVE IInv
  OBVIOUS
<1>1. RegistryTypeOK
  <2>1. Unregistered \in Registration
    BY DEF Unregistered, Registration
  <2>2. QED
    BY <2>1, NewRequest, BoundAssumption
    DEF Init, RegistryInit, RegistryTypeOK, Version, RequestRecord
<1>2. RegistryInv
  BY <1>1, NewRequest, VersionAssumption
  DEF Init, RegistryInit, RegistryInv, ModelOK, Unregistered, RequestOK, RequestAt, UseOK,
      EvidenceOK, ChampionIsGoverned, Requests, Uses, NoModel
<1>3. TypeOK
  <2>1. exec \in [Executions -> ExecRecord]
    BY Resting DEF Init
  <2>2. run \in [Docs -> [status : Statuses, model : Version]]
    BY DEF Init, NoRun, Statuses, Version
  <2>3. gold \in [Docs -> [of : Content, model : Version]]
    BY DEF Init, NoGold, Content, Version
  <2>4. QED
    BY <1>1, <2>1, <2>2, <2>3, DuplicateAssumption DEF Init, TypeOK, Content, ExecRecord
<1>4. \A d \in Docs : LakeOK(d) /\ CompletedOK(d) /\ SettledOK(d)
  BY DEF Init, LakeOK, CompletedOK, SettledOK, NoRun, Nowhere
<1>5. QED
  BY <1>2, <1>3, <1>4 DEF Init, IInv, DocumentInv

\* A step that no execution takes.
LEMMA NoExecutionStep ==
  ASSUME IInv, RegistryInv', Grows, UNCHANGED <<kind, bronze, quality, silver, gold, exec>>,
         unattributed \subseteq unattributed', TypeOK', \A d \in Docs : CompletedOK(d)' /\ SettledOK(d)'
  PROVE  IInv'
<1>1. LakeGrows /\ \A d \in Docs : LakeOK(d)'
  BY SameLake
<1>2. \A v : Usable(v) => Usable(v)'
  BY GovernedStays
<1>3. ASSUME NEW f \in Executions PROVE exec'[f] = NoExecution \/ Active(f)'
  <2>1. exec[f] = NoExecution \/ Active(f)
    BY DEF IInv, DocumentInv
  <2>2. QED
    BY <1>2, <2>1 DEF Active
<1>4. QED
  BY <1>1, <1>3 DEF IInv, DocumentInv

LEMMA RegistryInvStep ==
  ASSUME IInv, RegistryNext \/ UNCHANGED registry, UNCHANGED documents PROVE IInv'
<1>1. RegistryInv' /\ Grows
  <2>1. CASE RegistryNext
    BY <2>1, RegistryStep DEF IInv
  <2>2. CASE UNCHANGED registry
    BY <2>2, RegistryKept DEF IInv, registry
  <2>3. QED
    BY <2>1, <2>2
<1>2. TypeOK'
  BY <1>1 DEF IInv, DocumentInv, RegistryInv, TypeOK, documents, lake
<1>3. \A d \in Docs : CompletedOK(d)' /\ SettledOK(d)'
  BY DEF IInv, DocumentInv, CompletedOK, SettledOK, documents, lake, Doc
<1>4. QED
  BY <1>1, <1>2, <1>3, NoExecutionStep DEF documents, lake

LEMMA RequestUploadInv ==
  ASSUME IInv, NEW d \in Docs, RequestUpload(d) PROVE IInv'
<1>0. TypeOK /\ RegistryInv /\ CompletedOK(d) /\ SettledOK(d)
  BY DEF IInv, DocumentInv
<1>1. RegistryInv' /\ Grows
  BY <1>0, RegistryKept DEF RequestUpload, registry
<1>2. /\ run'[d].status = "awaiting-upload" /\ run'[d].model = run[d].model
      /\ \A c \in Docs \ {d} : run'[c] = run[c]
      /\ run' \in [Docs -> [status : Statuses, model : Version]]
  BY <1>0 DEF RequestUpload, TypeOK, Statuses
<1>3. UNCHANGED <<kind, lake, exec, unattributed>> /\ run[d].status = "none"
  BY DEF RequestUpload
<1>4. TypeOK'
  BY <1>0, <1>1, <1>2, <1>3 DEF TypeOK, RegistryInv, lake
<1>5. CompletedOK(d)' /\ SettledOK(d)'
  BY <1>0, <1>2, <1>3 DEF CompletedOK, SettledOK, lake
<1>6. ASSUME NEW c \in Docs \ {d} PROVE CompletedOK(c)' /\ SettledOK(c)'
  <2>1. CompletedOK(c) /\ SettledOK(c) /\ run'[c] = run[c]
    BY <1>2 DEF IInv, DocumentInv
  <2>2. QED
    BY <1>3, <2>1 DEF CompletedOK, SettledOK, lake, Doc
<1>7. QED
  BY <1>1, <1>3, <1>4, <1>5, <1>6, NoExecutionStep DEF lake

LEMMA PostInv ==
  ASSUME IInv, NEW d \in Docs, Post(d) PROVE IInv'
<1>0. TypeOK /\ RegistryInv /\ CompletedOK(d) /\ SettledOK(d)
  BY DEF IInv, DocumentInv
<1>1. RegistryInv' /\ Grows
  BY <1>0, RegistryKept DEF Post
<1>2. PICK bytes \in Bytes : /\ object' = [object EXCEPT ![d] = bytes]
                             /\ events' = events \union {<<d, bytes>>}
  BY DEF Post
<1>3. UNCHANGED <<kind, run, bronze, quality, silver, gold, exec, unattributed, duplicates>>
      /\ run[d].status # "none"
  BY DEF Post
<1>4. TypeOK'
  BY <1>0, <1>1, <1>2, <1>3 DEF TypeOK, RegistryInv, Content
<1>5. SettledOK(d)'
  <2>1. <<d, bytes>> \in events' /\ <<d, bytes>>[1] = d
    BY <1>2
  <2>2. QED
    BY <1>3, <2>1 DEF SettledOK
<1>6. ASSUME NEW c \in Docs \ {d} PROVE SettledOK(c)'
  <2>1. SettledOK(c) /\ object'[c] = object[c] /\ events \subseteq events'
    BY <1>0, <1>2 DEF IInv, DocumentInv, TypeOK
  <2>2. QED
    BY <1>3, <2>1 DEF SettledOK, Doc
<1>7. \A c \in Docs : CompletedOK(c)'
  BY <1>3 DEF IInv, DocumentInv, CompletedOK
<1>8. QED
  BY <1>1, <1>3, <1>4, <1>5, <1>6, <1>7, NoExecutionStep

LEMMA StartInv ==
  ASSUME IInv, NEW e \in Executions, NEW event \in events, Start(e, event) PROVE IInv'
<1>0. TypeOK /\ RegistryInv
  BY DEF IInv, DocumentInv
<1>1. RegistryInv' /\ Grows
  BY <1>0, RegistryKept DEF Start, registry
<1>2. event \in Docs \X Bytes /\ event[1] \in Docs /\ event[2] \in Content
  BY <1>0 DEF TypeOK, Content
<1> DEFINE x == [NoExecution EXCEPT !.stage = "inspect", !.doc = event[1], !.bytes = event[2]]
<1>3. x \in ExecRecord /\ x.stage = "inspect" /\ x.step = "work" /\ x.doc = event[1]
      /\ x.awaited
  BY <1>2, Resting DEF ExecRecord, Stages
<1>4. exec' = [exec EXCEPT ![e] = x]
  BY DEF Start
<1> HIDE DEF x
<1>5. /\ exec' \in [Executions -> ExecRecord] /\ exec'[e] = x
      /\ \A f \in Executions \ {e} : exec'[f] = exec[f]
  BY <1>0, <1>3, <1>4 DEF TypeOK, ExecRecord
<1>6. /\ UNCHANGED <<kind, run, object, bronze, quality, silver, gold, unattributed>>
      /\ events' = events \ {event} \/ events' = events
      /\ duplicates' \in 0 .. MaxDuplicates /\ exec[e] = NoExecution
  BY <1>0, DuplicateAssumption DEF Start, TypeOK
<1>7. TypeOK'
  BY <1>0, <1>1, <1>5, <1>6 DEF TypeOK, RegistryInv, ExecRecord
<1>8. Active(e)'
  BY <1>2, <1>3, <1>5 DEF Active
<1>9. ASSUME NEW d \in Docs PROVE SettledOK(d)'
  <2>1. SettledOK(d) /\ Doc(e) # d
    BY <1>6, Resting, DocumentAssumption DEF IInv, DocumentInv, Doc
  <2>2. CASE d = event[1]
    <3>1. exec'[e].doc = d
      BY <1>3, <1>5, <2>2
    <3>2. QED
      BY <1>6, <2>1, <3>1 DEF SettledOK, Doc
  <2>3. CASE d # event[1]
    BY <1>5, <1>6, <2>1, <2>3 DEF SettledOK, Doc
  <2>4. QED
    BY <2>2, <2>3
<1>10. LakeGrows /\ \A d \in Docs : LakeOK(d)' /\ CompletedOK(d)'
  BY <1>1, <1>6, SameLake, SameRuns
<1>11. QED
  BY <1>1, <1>5, <1>7, <1>8, <1>9, <1>10, OneExecution
-----------------------------------------------------------------------------
(* The stages *)

LEMMA AtWork ==
  ASSUME IInv, NEW e \in Executions, exec[e].stage # "none" \/ exec[e].step # "work"
  PROVE  /\ TypeOK /\ RegistryInv /\ exec[e] \in ExecRecord /\ Active(e) /\ Doc(e) \in Docs
         /\ \A d \in Docs : LakeOK(d) /\ CompletedOK(d) /\ SettledOK(d)
BY Resting DEF IInv, DocumentInv, TypeOK, ExecRecord, Active, Doc

LEMMA InspectInv ==
  ASSUME IInv, NEW e \in Executions, Inspect(e) PROVE IInv'
<1>0. /\ TypeOK /\ RegistryInv /\ Active(e) /\ Doc(e) \in Docs /\ exec[e].stage = "inspect"
      /\ \A c \in Docs : LakeOK(c) /\ CompletedOK(c)
  BY AtWork DEF Inspect, At
<1>1. RegistryInv' /\ Grows
  BY <1>0, RegistryKept DEF Inspect, registry
<1>2. PICK d \in Docs, status \in {"running", "quarantined"} :
         /\ d = exec[e].doc /\ Merges(e, status, NoModel)
         /\ \/ bronze' = [bronze EXCEPT ![d] = "declared"]
            \/ status = "quarantined" /\ bronze' = bronze
  BY <1>0 DEF Inspect, Verified, Doc
<1>3. UNCHANGED <<kind, run, object, events, quality, silver, gold, unattributed, duplicates>>
  BY DEF Inspect
<1>4. /\ exec' \in [Executions -> ExecRecord] /\ exec'[e].step = "get"
      /\ exec'[e].status = status /\ exec'[e].stage = "inspect" /\ exec'[e].doc = d
      /\ exec'[e].awaited = exec[e].awaited
      /\ \A f \in Executions \ {e} : exec'[f] = exec[f]
  BY <1>0, <1>2, Merged DEF Statuses, Version
<1>5. \A c \in Docs : bronze'[c] = bronze[c] \/ bronze'[c] = "declared"
  BY <1>0, <1>2 DEF TypeOK
<1>6. status = "running" => bronze'[d] = "declared"
  BY <1>0, <1>2 DEF TypeOK
<1>7. TypeOK'
  BY <1>0, <1>1, <1>2, <1>3, <1>4 DEF TypeOK, RegistryInv, ExecRecord, Content, Bytes
<1>8. LakeGrows
  BY <1>3, <1>5 DEF LakeGrows
<1>9. \A c \in Docs : LakeOK(c)'
  BY <1>0, <1>1, <1>3, <1>5, GovernedStays DEF LakeOK
<1>10. Active(e)'
  BY <1>0, <1>2, <1>3, <1>4, <1>6 DEF Active
<1>11. \A c \in Docs : CompletedOK(c)' /\ SettledOK(c)'
  BY <1>2, <1>3, <1>4, <1>8, SameRuns, StillSettled
<1>12. QED
  BY <1>1, <1>4, <1>7, <1>8, <1>9, <1>10, <1>11, OneExecution

LEMMA QualityInv ==
  ASSUME IInv, NEW e \in Executions, Quality(e) PROVE IInv'
<1>0. /\ TypeOK /\ RegistryInv /\ Active(e) /\ Doc(e) \in Docs /\ exec[e].stage = "quality"
      /\ \A c \in Docs : LakeOK(c) /\ CompletedOK(c)
  BY AtWork DEF Quality, At
<1>1. RegistryInv' /\ Grows
  BY <1>0, RegistryKept DEF Quality, registry
<1>2. bronze[exec[e].doc] = "declared"
  BY <1>0 DEF Active
<1>3. PICK d \in Docs, passes \in BOOLEAN :
         /\ d = exec[e].doc /\ (passes <=> kind[d] = "fit")
         /\ quality' = [quality EXCEPT ![d] = IF passes THEN "pass" ELSE "quarantine"]
         /\ Merges(e, IF passes THEN "running" ELSE "quarantined", NoModel)
  BY <1>0, <1>2 DEF Quality, Passes, Doc
<1>4. UNCHANGED <<kind, run, object, events, bronze, silver, gold, unattributed, duplicates>>
  BY DEF Quality
<1>5. /\ exec' \in [Executions -> ExecRecord] /\ exec'[e].step = "get"
      /\ exec'[e].stage = "quality" /\ exec'[e].doc = d
      /\ exec'[e].awaited = exec[e].awaited
      /\ exec'[e].status = IF passes THEN "running" ELSE "quarantined"
      /\ \A f \in Executions \ {e} : exec'[f] = exec[f]
  BY <1>0, <1>3, Merged DEF Statuses, Version
<1>6. /\ quality'[d] = IF passes THEN "pass" ELSE "quarantine"
      /\ \A c \in Docs \ {d} : quality'[c] = quality[c]
  BY <1>0, <1>3 DEF TypeOK
<1>7. TypeOK'
  BY <1>0, <1>1, <1>3, <1>4, <1>5 DEF TypeOK, RegistryInv, ExecRecord
<1>8. quality[d] = "pass" => passes
  BY <1>0, <1>3 DEF LakeOK
<1>9. LakeGrows
  BY <1>4, <1>6, <1>8 DEF LakeGrows
<1>10. \A c \in Docs : LakeOK(c)'
  <2>1. LakeOK(d)'
    BY <1>0, <1>1, <1>2, <1>3, <1>4, <1>6, <1>8, GovernedStays DEF LakeOK
  <2>2. \A c \in Docs \ {d} : LakeOK(c)'
    BY <1>0, <1>1, <1>4, <1>6, GovernedStays DEF LakeOK
  <2>3. QED
    BY <2>1, <2>2
<1>11. Active(e)'
  BY <1>0, <1>2, <1>3, <1>4, <1>5, <1>6 DEF Active
<1>12. \A c \in Docs : CompletedOK(c)' /\ SettledOK(c)'
  BY <1>3, <1>4, <1>5, <1>9, SameRuns, StillSettled
<1>13. QED
  BY <1>1, <1>5, <1>7, <1>9, <1>10, <1>11, <1>12, OneExecution

LEMMA CurateInv ==
  ASSUME IInv, NEW e \in Executions, Curate(e) PROVE IInv'
<1>0. /\ TypeOK /\ RegistryInv /\ Active(e) /\ exec[e].stage = "curate" /\ exec[e].step = "work"
      /\ exec[e] \in ExecRecord /\ exec[e].doc \in Docs
  BY AtWork DEF Curate, At, Doc
<1>1. RegistryInv' /\ Grows
  BY <1>0, RegistryKept DEF Curate, registry
<1>2. Champion \in Version /\ Usable(Champion)
  BY <1>0, ChampionUsable
<1>3. PICK champion : champion = Champion
  OBVIOUS
<1> DEFINE x == [exec[e] EXCEPT !.step = "silver", !.model = champion, !.bytes = "declared"]
<1>4. /\ x \in ExecRecord /\ x.stage = "curate" /\ x.step = "silver" /\ x.model = champion
      /\ x.bytes = "declared" /\ x.doc = exec[e].doc /\ x.awaited = exec[e].awaited
  BY <1>0, <1>2, <1>3 DEF ExecRecord, Content, Bytes
<1>5. exec' = [exec EXCEPT ![e] = x]
  BY <1>0, <1>3 DEF Curate, Active, Doc, TypeOK, ExecRecord
<1> HIDE DEF x
<1>6. UNCHANGED <<kind, run, object, events, bronze, quality, silver, gold, unattributed, duplicates>>
  BY DEF Curate, lake
<1>7. /\ exec' \in [Executions -> ExecRecord] /\ exec'[e] = x
      /\ \A f \in Executions \ {e} : exec'[f] = exec[f]
  BY <1>0, <1>4, <1>5 DEF TypeOK, ExecRecord
<1>8. TypeOK'
  BY <1>0, <1>1, <1>6, <1>7 DEF TypeOK, RegistryInv, ExecRecord
<1>9. LakeGrows /\ \A c \in Docs : LakeOK(c)' /\ CompletedOK(c)'
  BY <1>1, <1>6, SameLake, SameRuns
<1>10. Usable(champion)'
  BY <1>1, <1>2, <1>3, GovernedStays
<1>11. Active(e)'
  BY <1>0, <1>4, <1>6, <1>7, <1>10 DEF Active
<1>12. \A c \in Docs : SettledOK(c)'
  BY <1>4, <1>6, <1>7, StillSettled
<1>13. QED
  BY <1>1, <1>7, <1>8, <1>9, <1>11, <1>12, OneExecution

LEMMA PutSilverInv ==
  ASSUME IInv, NEW e \in Executions, PutSilver(e) PROVE IInv'
<1>0. /\ TypeOK /\ RegistryInv /\ Active(e) /\ exec[e].stage = "curate" /\ exec[e].step = "silver"
      /\ exec[e] \in ExecRecord /\ Doc(e) \in Docs /\ \A c \in Docs : LakeOK(c)
  BY AtWork DEF PutSilver, At
<1>1. RegistryInv' /\ Grows
  BY <1>0, RegistryKept DEF PutSilver, registry
<1>2. PICK d \in Docs : /\ d = exec[e].doc /\ silver' = [silver EXCEPT ![d] = "declared"]
                        /\ quality[d] = "pass"
  BY <1>0 DEF PutSilver, Active, Doc
<1>3. UNCHANGED <<kind, run, object, events, bronze, quality, gold, unattributed, duplicates>>
      /\ exec' = [exec EXCEPT ![e].step = "gold"]
  BY DEF PutSilver
<1>4. /\ exec' \in [Executions -> ExecRecord] /\ exec'[e].step = "gold"
      /\ exec'[e].stage = "curate" /\ exec'[e].doc = d /\ exec'[e].bytes = exec[e].bytes
      /\ exec'[e].model = exec[e].model /\ exec'[e].awaited = exec[e].awaited
      /\ \A f \in Executions \ {e} : exec'[f] = exec[f]
  BY <1>0, <1>2, <1>3 DEF TypeOK, ExecRecord
<1>5. silver'[d] = "declared" /\ \A c \in Docs \ {d} : silver'[c] = silver[c]
  BY <1>0, <1>2 DEF TypeOK
<1>6. TypeOK'
  BY <1>0, <1>1, <1>2, <1>3, <1>4 DEF TypeOK, RegistryInv, ExecRecord, Content, Bytes
<1>7. LakeGrows
  BY <1>3, <1>5 DEF LakeGrows
<1>8. \A c \in Docs : LakeOK(c)'
  BY <1>0, <1>1, <1>2, <1>3, <1>5, GovernedStays DEF LakeOK
<1>9. Active(e)'
  BY <1>0, <1>1, <1>2, <1>3, <1>4, <1>5, GovernedStays DEF Active
<1>10. \A c \in Docs : CompletedOK(c)' /\ SettledOK(c)'
  BY <1>2, <1>3, <1>4, <1>7, SameRuns, StillSettled
<1>11. QED
  BY <1>1, <1>4, <1>6, <1>7, <1>8, <1>9, <1>10, OneExecution

LEMMA PutGoldInv ==
  ASSUME IInv, NEW e \in Executions, PutGold(e) PROVE IInv'
<1>0. /\ TypeOK /\ RegistryInv /\ Active(e) /\ exec[e].stage = "curate" /\ exec[e].step = "gold"
      /\ exec[e] \in ExecRecord /\ Doc(e) \in Docs /\ \A c \in Docs : LakeOK(c)
  BY AtWork DEF PutGold, At
<1>1. RegistryInv' /\ Grows
  BY <1>0, RegistryKept DEF PutGold, registry
<1>2. PICK d \in Docs, m \in Version :
         /\ d = exec[e].doc /\ m = exec[e].model /\ Usable(m)
         /\ gold' = [gold EXCEPT ![d] = [of |-> "declared", model |-> m]]
         /\ Merges(e, "completed", m)
         /\ bronze[d] = "declared" /\ quality[d] = "pass" /\ silver[d] = "declared"
  BY <1>0 DEF PutGold, Active, Doc, ExecRecord
<1>3. UNCHANGED <<kind, run, object, events, bronze, quality, silver, unattributed, duplicates>>
  BY DEF PutGold
<1>4. /\ exec' \in [Executions -> ExecRecord] /\ exec'[e].step = "get"
      /\ exec'[e].stage = "curate" /\ exec'[e].doc = d
      /\ exec'[e].status = "completed" /\ exec'[e].model = m
      /\ exec'[e].awaited = exec[e].awaited
      /\ \A f \in Executions \ {e} : exec'[f] = exec[f]
  BY <1>0, <1>2, Merged DEF Statuses
<1>5. /\ gold'[d] = [of |-> "declared", model |-> m] /\ gold'[d] # NoGold
      /\ \A c \in Docs \ {d} : gold'[c] = gold[c]
  BY <1>0, <1>2 DEF TypeOK, NoGold, Nowhere
<1>6. TypeOK'
  BY <1>0, <1>1, <1>2, <1>3, <1>4 DEF TypeOK, RegistryInv, ExecRecord, Content, Bytes
<1>7. LakeGrows
  BY <1>3, <1>5 DEF LakeGrows
<1>8. Usable(m)' /\ m # NoModel
  BY <1>1, <1>2, GovernedStays DEF Usable
<1>9. \A c \in Docs : LakeOK(c)'
  BY <1>0, <1>1, <1>2, <1>3, <1>5, <1>8, GovernedStays DEF LakeOK
<1>10. Active(e)'
  BY <1>0, <1>2, <1>3, <1>4, <1>5, <1>8 DEF Active
<1>11. \A c \in Docs : CompletedOK(c)' /\ SettledOK(c)'
  BY <1>2, <1>3, <1>4, <1>7, SameRuns, StillSettled
<1>12. QED
  BY <1>1, <1>4, <1>6, <1>7, <1>9, <1>10, <1>11, OneExecution

\* The stages that only merge, and the read of the record.
LEMMA MergingInv ==
  ASSUME IInv, NEW e \in Executions, Quarantine(e) \/ RecordFailure(e) \/ GetRun(e) PROVE IInv'
<1>0. /\ TypeOK /\ RegistryInv /\ Active(e) /\ exec[e] \in ExecRecord /\ Doc(e) \in Docs
  BY AtWork DEF Quarantine, RecordFailure, GetRun, At
<1>1. RegistryInv' /\ Grows
  BY <1>0, RegistryKept DEF Quarantine, RecordFailure, GetRun, registry
<1>2. UNCHANGED <<kind, run, object, events, bronze, quality, silver, gold, unattributed, duplicates>>
  BY DEF Quarantine, RecordFailure, GetRun, lake
<1>3. /\ exec' \in [Executions -> ExecRecord] /\ exec'[e].doc = exec[e].doc
      /\ \A f \in Executions \ {e} : exec'[f] = exec[f]
      /\ Active(e)'
  <2>1. CASE Quarantine(e)
    <3>1. Merges(e, "quarantined", NoModel) /\ exec[e].stage = "quarantine"
      BY <2>1 DEF Quarantine, At
    <3>2. /\ exec' \in [Executions -> ExecRecord] /\ exec'[e].doc = exec[e].doc
          /\ \A f \in Executions \ {e} : exec'[f] = exec[f]
          /\ exec'[e].stage = "quarantine" /\ exec'[e].step = "get"
          /\ exec'[e].status = "quarantined" /\ exec'[e].awaited = exec[e].awaited
      BY <1>0, <3>1, Merged DEF Statuses, Version
    <3>3. QED
      BY <1>0, <1>2, <3>2 DEF Active
  <2>2. CASE RecordFailure(e)
    <3>1. Merges(e, "failed", NoModel) /\ exec[e].stage = "failure"
      BY <2>2 DEF RecordFailure, At
    <3>2. /\ exec' \in [Executions -> ExecRecord] /\ exec'[e].doc = exec[e].doc
          /\ \A f \in Executions \ {e} : exec'[f] = exec[f]
          /\ exec'[e].stage = "failure" /\ exec'[e].step = "get"
          /\ exec'[e].status = "failed" /\ exec'[e].awaited = exec[e].awaited
      BY <1>0, <3>1, Merged DEF Statuses, Version
    <3>3. QED
      BY <1>0, <1>2, <3>2 DEF Active
  <2>3. CASE GetRun(e)
    <3> DEFINE x == [exec[e] EXCEPT !.step = "put", !.read = run[Doc(e)].model]
    <3>1. /\ x \in ExecRecord /\ x.stage = exec[e].stage /\ x.doc = exec[e].doc
          /\ x.status = exec[e].status /\ x.model = exec[e].model /\ x.step = "put"
          /\ x.awaited = exec[e].awaited
      BY <1>0 DEF ExecRecord, TypeOK
    <3>2. exec' = [exec EXCEPT ![e] = x] /\ exec[e].step = "get"
      BY <1>0, <2>3 DEF GetRun, TypeOK, ExecRecord
    <3> HIDE DEF x
    <3>3. exec' \in [Executions -> ExecRecord] /\ exec'[e] = x
          /\ \A f \in Executions \ {e} : exec'[f] = exec[f]
      BY <1>0, <3>1, <3>2 DEF TypeOK, ExecRecord
    <3>4. Active(e)'
      BY <1>0, <1>2, <3>1, <3>2, <3>3 DEF Active
    <3>5. QED
      BY <3>1, <3>3, <3>4
  <2>4. QED
    BY <2>1, <2>2, <2>3
<1>4. TypeOK'
  BY <1>0, <1>1, <1>2, <1>3 DEF TypeOK, RegistryInv, ExecRecord
<1>5. LakeGrows /\ \A c \in Docs : LakeOK(c)' /\ CompletedOK(c)'
  BY <1>1, <1>2, SameLake, SameRuns
<1>6. \A c \in Docs : SettledOK(c)'
  BY <1>2, <1>3, StillSettled
<1>7. QED
  BY <1>1, <1>3, <1>4, <1>5, <1>6, OneExecution

LEMMA PutRunInv ==
  ASSUME IInv, NEW e \in Executions, PutRun(e) PROVE IInv'
<1>0. /\ TypeOK /\ RegistryInv /\ Active(e) /\ exec[e].step = "put"
      /\ exec[e] \in ExecRecord /\ exec[e].doc \in Docs
      /\ \A c \in Docs : LakeOK(c) /\ CompletedOK(c) /\ SettledOK(c)
  BY AtWork DEF PutRun, Doc
<1>1. RegistryInv' /\ Grows
  BY <1>0, RegistryKept DEF PutRun, registry
<1>2. UNCHANGED <<kind, object, events, bronze, quality, silver, gold, unattributed, duplicates>>
  BY DEF PutRun, lake
<1>3. PICK d \in Docs, status \in Statuses, m \in Version :
         /\ d = exec[e].doc /\ status = exec[e].status
         /\ exec[e].model # NoModel => m = exec[e].model
         /\ run' = [run EXCEPT ![d] = [status |-> status, model |-> m]]
  BY <1>0 DEF PutRun, Doc, ExecRecord
<1>4. /\ run'[d].status = status /\ run'[d].model = m
      /\ \A c \in Docs \ {d} : run'[c] = run[c]
      /\ run' \in [Docs -> [status : Statuses, model : Version]]
  BY <1>0, <1>3 DEF TypeOK
<1>5. PICK stage \in Stages :
         /\ EntersStage(e, stage)
         /\ \/ stage = "none" /\ status \in Settled
            \/ stage = "quarantine" /\ status \in Settled
            \/ stage = "quality" /\ status = "running" /\ bronze[d] = "declared"
            \/ stage = "curate" /\ status = "running" /\ bronze[d] = "declared"
                                /\ quality[d] = "pass"
            \/ stage = "none" /\ status = "running" /\ d \in unattributed
  <2> DEFINE stage == NextStage(e)
  <2>1. EntersStage(e, stage)
    BY DEF PutRun
  <2>2. CASE exec[e].stage = "inspect"
    <3>1. \/ status = "quarantined" /\ stage = "quarantine"
          \/ status = "running" /\ bronze[d] = "declared" /\ stage = "quality"
          \/ status \in {"quarantined", "running"} /\ stage = "none" /\ d \in unattributed
      BY <1>0, <1>3, <2>2 DEF Active, NextStage
    <3>2. QED
      BY <2>1, <3>1 DEF Stages, Settled
  <2>3. CASE exec[e].stage = "quality"
    <3>1. \/ status = "quarantined" /\ stage = "quarantine"
          \/ status = "running" /\ bronze[d] = "declared" /\ quality[d] = "pass" /\ stage = "curate"
          \/ status \in {"quarantined", "running"} /\ stage = "none" /\ d \in unattributed
      BY <1>0, <1>3, <2>3 DEF Active, NextStage
    <3>2. QED
      BY <2>1, <3>1 DEF Stages, Settled
  <2>4. CASE exec[e].stage \in {"curate", "quarantine", "failure"}
    <3>1. status \in Settled /\ stage = "none"
      BY <1>0, <1>3, <2>4 DEF Active, NextStage, Settled
    <3>2. QED
      BY <2>1, <3>1 DEF Stages
  <2>5. exec[e].stage \in {"inspect", "quality", "curate", "quarantine", "failure"}
    BY <1>0 DEF Active, ExecRecord, Stages
  <2>6. QED
    BY <2>2, <2>3, <2>4, <2>5
<1>6. /\ exec' \in [Executions -> ExecRecord]
      /\ \A f \in Executions \ {e} : exec'[f] = exec[f]
      /\ stage = "none" => exec'[e] = NoExecution
      /\ stage # "none" => exec'[e].stage = stage /\ exec'[e].step = "work" /\ exec'[e].doc = d
                           /\ exec'[e].awaited
  BY <1>0, <1>3, <1>5, Entered
<1>7. TypeOK'
  BY <1>0, <1>1, <1>2, <1>4, <1>6 DEF TypeOK, RegistryInv, ExecRecord
<1>8. exec'[e] = NoExecution \/ Active(e)'
  BY <1>2, <1>5, <1>6 DEF Active
<1>9. LakeGrows /\ \A c \in Docs : LakeOK(c)'
  BY <1>1, <1>2, SameLake
<1>10. \A c \in Docs : CompletedOK(c)'
  <2>1. status = "completed" => gold[d] # NoGold /\ m # NoModel
    BY <1>0, <1>3 DEF Active, ExecRecord, Stages
  <2>2. QED
    BY <1>0, <1>2, <1>4, <2>1 DEF CompletedOK
<1>11. \A c \in Docs : SettledOK(c)'
  <2>1. \A f \in Executions : exec[f].doc \in Docs =>
           \/ exec'[f].doc = exec[f].doc \/ exec[f].doc \in unattributed'
           \/ run'[exec[f].doc].status \in Settled
    BY <1>2, <1>3, <1>4, <1>5, <1>6
  <2>2. \A c \in Docs : \/ run'[c].status = run[c].status
                        \/ run'[c].status \in Settled
                        \/ run'[c].status = "running" /\ \E f \in Executions : exec'[f].doc = c
                        \/ c \in unattributed' /\ run'[c].status # "none"
    BY <1>2, <1>4, <1>5, <1>6
  <2>3. QED
    BY <1>0, <1>2, <2>1, <2>2, Settling
<1>12. QED
  BY <1>1, <1>6, <1>7, <1>8, <1>9, <1>10, <1>11, OneExecution

\* A stage is invoked again, or gives up.
LEMMA FailingInv ==
  ASSUME IInv, NEW e \in Executions, Retried(e) \/ Raises(e) PROVE IInv'
<1>0. /\ TypeOK /\ RegistryInv /\ Active(e)
      /\ exec[e] \in ExecRecord /\ exec[e].doc \in Docs
      /\ \A c \in Docs : LakeOK(c) /\ CompletedOK(c) /\ SettledOK(c)
  <2>1. Active(e) /\ exec[e].stage # "none"
    BY DEF IInv, DocumentInv, Retried, Raises, Active
  <2>2. QED
    BY <2>1, AtWork DEF Doc
<1>1. RegistryInv' /\ Grows
  BY <1>0, RegistryKept DEF Retried, Raises
<1>2. UNCHANGED <<kind, run, object, events, bronze, quality, silver, gold, duplicates>>
  BY DEF Retried, Raises, lake
<1>3. PICK stage \in Stages :
         /\ EntersStage(e, stage)
         /\ stage \in {exec[e].stage, "failure", "none"}
         /\ \/ unattributed' = unattributed /\ stage # "none"
            \/ unattributed' = unattributed \union {exec[e].doc}
  <2>1. CASE Retried(e)
    BY <1>0, <2>1 DEF Retried, Active, ExecRecord
  <2>2. CASE Raises(e)
    BY <2>2 DEF Raises, Caught, Attributed, Doc, Stages
  <2>3. QED
    BY <2>1, <2>2
<1>4. /\ exec' \in [Executions -> ExecRecord]
      /\ \A f \in Executions \ {e} : exec'[f] = exec[f]
      /\ stage = "none" => exec'[e] = NoExecution
      /\ stage # "none" => /\ exec'[e].stage = stage /\ exec'[e].step = "work"
                           /\ exec'[e].doc = exec[e].doc /\ exec'[e].awaited
  BY <1>0, <1>3, Entered
<1>5. TypeOK'
  BY <1>0, <1>1, <1>2, <1>3, <1>4 DEF TypeOK, RegistryInv, ExecRecord
<1>6. exec'[e] = NoExecution \/ Active(e)'
  BY <1>0, <1>2, <1>3, <1>4 DEF Active
<1>7. LakeGrows /\ \A c \in Docs : LakeOK(c)' /\ CompletedOK(c)'
  BY <1>1, <1>2, <1>3, SameLake, SameRuns
<1>8. \A c \in Docs : SettledOK(c)'
  BY <1>0, <1>2, <1>3, <1>4, Settling
<1>9. QED
  BY <1>1, <1>4, <1>5, <1>6, <1>7, <1>8, OneExecution

\* An execution loses sight of what it had invoked.
LEMMA LosingInv ==
  ASSUME IInv, NEW e \in Executions,
         TimesOut(e) \/ \E f \in Executions : LosesAnswer(e, f)
  PROVE  IInv'
<1>0. /\ TypeOK /\ RegistryInv /\ Active(e) /\ exec \in [Executions -> ExecRecord]
      /\ exec[e] \in ExecRecord /\ exec[e].doc \in Docs
      /\ \A c \in Docs : LakeOK(c) /\ CompletedOK(c) /\ SettledOK(c)
  <2>1. Active(e) /\ exec[e].stage # "none"
    BY DEF IInv, DocumentInv, TimesOut, LosesAnswer, Active
  <2>2. QED
    BY <2>1, AtWork DEF Doc, TypeOK, ExecRecord
<1>1. RegistryInv' /\ Grows
  BY <1>0, RegistryKept DEF TimesOut, LosesAnswer
<1>2. /\ UNCHANGED <<kind, run, object, events, bronze, quality, silver, gold, duplicates>>
      /\ unattributed' = unattributed \union {exec[e].doc}
  BY DEF TimesOut, LosesAnswer, lake, Doc
<1> DEFINE x == [exec[e] EXCEPT !.awaited = FALSE]
<1>3. /\ x \in ExecRecord /\ x.doc = exec[e].doc
      /\ x.stage = exec[e].stage /\ x.step = exec[e].step /\ x.bytes = exec[e].bytes
      /\ x.status = exec[e].status /\ x.model = exec[e].model
  BY <1>0 DEF ExecRecord
<1>4. PICK f \in Executions, y \in {x, NoExecution}, z \in ExecRecord :
         /\ exec' = [exec EXCEPT ![e] = y, ![f] = z]
         /\ f # e => exec[f] = NoExecution
         /\ f = e => z = y
         /\ f # e => \/ z = NoExecution
                     \/ /\ z.stage \in {exec[e].stage, "failure"} /\ z.step = "work"
                        /\ z.doc = exec[e].doc /\ z.awaited
  <2>1. CASE TimesOut(e)
    <3>1. PICK y \in {x, NoExecution} : exec' = [exec EXCEPT ![e] = y]
      BY <1>0, <2>1 DEF TimesOut
    <3>2. y \in ExecRecord /\ exec' = [exec EXCEPT ![e] = y, ![e] = y]
      BY <1>0, <1>3, <3>1, Resting
    <3>3. QED
      BY <3>2
  <2>2. CASE \E f \in Executions : LosesAnswer(e, f)
    <3>1. PICK f \in Executions : LosesAnswer(e, f)
      BY <2>2
    <3>2. PICK stage \in Stages : /\ exec' = [exec EXCEPT ![e] = x, ![f] = Entry(e, stage)]
                                  /\ stage \in {exec[e].stage, "failure", "none"}
      BY <1>0, <3>1 DEF LosesAnswer, Caught, Stages, ExecRecord
    <3>3. f # e /\ exec[f] = NoExecution
      BY <3>1 DEF LosesAnswer
    <3>4. QED
      BY <1>0, <3>2, <3>3, EntryIs
  <2>3. QED
    BY <2>1, <2>2
<1> HIDE DEF x
<1>5. /\ exec' \in [Executions -> ExecRecord] /\ exec'[e] = y
      /\ f # e => exec'[f] = z
      /\ \A g \in Executions \ {e, f} : exec'[g] = exec[g]
  BY <1>0, <1>3, <1>4, Resting
<1>6. TypeOK'
  BY <1>0, <1>1, <1>2, <1>5 DEF TypeOK, RegistryInv, ExecRecord
<1>7. LakeGrows /\ \A c \in Docs : LakeOK(c)' /\ CompletedOK(c)'
  BY <1>1, <1>2, SameLake, SameRuns
<1>8. \A v : Usable(v) => Usable(v)'
  BY <1>1, GovernedStays
<1>9. exec'[e] = NoExecution \/ Active(e)'
  <2>1. CASE y = x
    BY <1>0, <1>2, <1>3, <1>5, <1>8, <2>1 DEF Active
  <2>2. QED
    BY <1>4, <1>5, <2>1
<1>10. f # e => exec'[f] = NoExecution \/ Active(f)'
  BY <1>0, <1>2, <1>4, <1>5 DEF Active
<1>11. \A c \in Docs : SettledOK(c)'
  <2>1. \A g \in Executions : exec[g].doc \in Docs =>
           exec'[g].doc = exec[g].doc \/ exec[g].doc \in unattributed'
    BY <1>2, <1>4, <1>5, Resting, DocumentAssumption
  <2>2. QED
    BY <1>0, <1>2, <2>1, Settling
<1>12. QED
  <2>1. {e, f} \in SUBSET Executions
    OBVIOUS
  <2>2. \A g \in {e, f} : exec'[g] = NoExecution \/ Active(g)'
    BY <1>9, <1>10
  <2>3. QED
    BY <1>1, <1>5, <1>6, <1>7, <1>11, <2>1, <2>2, OtherExecutions

LEMMA NextInv == IInv /\ [Next]_vars => IInv'
<1> SUFFICES ASSUME IInv, [Next]_vars PROVE IInv'
  OBVIOUS
<1>1. CASE RegistryNext /\ UNCHANGED documents
  BY <1>1, RegistryInvStep
<1>2. ASSUME NEW d \in Docs, RequestUpload(d) \/ Post(d) PROVE IInv'
  BY <1>2, RequestUploadInv, PostInv
<1>3. ASSUME NEW e \in Executions, \E event \in events : Start(e, event) PROVE IInv'
  BY <1>3, StartInv
<1>4. ASSUME NEW e \in Executions,
             \/ StageStep(e) \/ Retried(e) \/ Raises(e) \/ TimesOut(e)
             \/ \E f \in Executions : LosesAnswer(e, f)
      PROVE  IInv'
  BY <1>4, InspectInv, QualityInv, CurateInv, PutSilverInv, PutGoldInv, MergingInv, PutRunInv,
     FailingInv, LosingInv
  DEF StageStep
<1>5. CASE UNCHANGED vars
  BY <1>5, RegistryInvStep DEF vars
<1>6. QED
  BY <1>1, <1>2, <1>3, <1>4, <1>5 DEF Next

-----------------------------------------------------------------------------
(* The theorems. *)

\* The invariant holds: nothing that a champion, an evidence or an execution relies on
\* is taken back, and every execution has the stages before its own behind it.
THEOREM Invariance == Spec => []IInv
BY InitInv, NextInv, PTL DEF Spec

\* Every variable keeps its type.
THEOREM TypeCorrect == Spec => []TypeOK
<1>1. IInv => TypeOK
  BY DEF IInv, DocumentInv
<1>2. QED
  BY Invariance, <1>1, PTL

\* The champion always passed the gate once, and a receipt says that it was deployed.
THEOREM GovernedChampion == Spec => []ChampionIsGoverned
<1>1. IInv => ChampionIsGoverned
  BY DEF IInv, RegistryInv
<1>2. QED
  BY Invariance, <1>1, PTL

\* So did every model that the evidence of a use names.
THEOREM GovernedEvidence == Spec => []EvidenceIsGoverned
<1>1. IInv => EvidenceIsGoverned
  BY DEF IInv, RegistryInv, EvidenceOK, EvidenceIsGoverned
<1>2. QED
  BY Invariance, <1>1, PTL

\* However often a document is posted and whatever is posted, gold is of the declared
\* bytes, which passed the quality rules, and names a model that was promoted.
THEOREM VerifiedGold == Spec => []GoldIsVerified
<1>1. IInv => GoldIsVerified
  <2> SUFFICES ASSUME IInv, NEW d \in Docs, gold[d] # NoGold
               PROVE  /\ gold[d].of = "declared" /\ silver[d] = "declared"
                      /\ quality[d] = "pass" /\ kind[d] = "fit"
                      /\ gold[d].model \in Models => Governed(gold[d].model)
    BY DEF GoldIsVerified
  <2>1. LakeOK(d)
    BY DEF IInv, DocumentInv
  <2>2. QED
    BY <2>1 DEF LakeOK, Usable, Nowhere
<1>2. QED
  BY Invariance, <1>1, PTL

\* A completed run has its gold, whatever other executions put back over its record.
THEOREM CompletedWithGold == Spec => []CompletedRunHasGold
<1>1. IInv => CompletedRunHasGold
  <2> SUFFICES ASSUME IInv, NEW d \in Docs, run[d].status = "completed"
               PROVE  gold[d] # NoGold /\ silver[d] # Nowhere /\ run[d].model # NoModel
    BY DEF CompletedRunHasGold
  <2>1. LakeOK(d) /\ CompletedOK(d)
    BY DEF IInv, DocumentInv
  <2>2. QED
    BY <2>1 DEF LakeOK, CompletedOK, Nowhere
<1>2. QED
  BY Invariance, <1>1, PTL

\* A run whose executions are over has settled, unless one of them failed or ended without
\* a word to it, or lost sight of what it had invoked.
THEOREM SettledRuns == Spec => []RunHasSettled
<1>1. IInv => RunHasSettled
  BY DEF IInv, DocumentInv, SettledOK, RunHasSettled
<1>2. QED
  BY Invariance, <1>1, PTL

-----------------------------------------------------------------------------
(* INTAKE                                                                  *)

-----------------------------------------------------------------------------
(* The inductive invariant.                                                *)

StagePcs == {"idle", "skipped", "fetch", "rows", "validate", "evaluate", "stamp", "persist", "curate",
             "curated", "quarantine", "quarantined", "failed"}
Verdicts == {"passed", "quarantined"}
Readings == UNION {[S -> Record \union Verdicts] : S \in SUBSET Nat}

RawRows ==
  [batch : Batches, row_index : Nat \ {0}, record : Record,
   verdict : {"none", "passed", "quarantined"},
   batch_status : {"none", "curated", "quarantined"}, curated : GrantNos \union {NoLink}]
CuratedRows == [batch : Batches, record : Record]
IntakeRecord ==
  [pc : StagePcs, batch : Batches \union {"none"}, file : Seq(Record),
   inserts : SUBSET (Nat \ {0}), updates : SUBSET Nat, next : Nat \ {0},
   read : Readings, gate : BOOLEAN]

IntakeTyped ==
  /\ objects \in [Batches -> Seq(Record)]
  /\ dropped \in [Batches -> SUBSET Seq(Record)]
  /\ raw \in Seq(RawRows)
  /\ DOMAIN curated \subseteq GrantNos /\ curated \in [DOMAIN curated -> CuratedRows]
  /\ intake \in [Intakes -> IntakeRecord]
  /\ losses \in 0 .. MaxLosses

\* What has been dropped lies there, and what is in the table was dropped.
Landed ==
  /\ \A b \in Batches : dropped[b] # {} => objects[b] \in dropped[b]
  /\ \A id \in DOMAIN raw : dropped[raw[id].batch] # {}

\* What an execution holds is of its own batch, and an open Fetch has updated or will
\* insert each record that it has gone through.
Sound(x) ==
  /\ x.pc \notin {"idle", "skipped"} => x.batch \in Batches /\ dropped[x.batch] # {}
  /\ x.pc = "rows" =>
       /\ x.file \in dropped[x.batch] /\ x.updates \subseteq RowsOf(x.batch)
       /\ x.next <= Len(x.file) + 1
       /\ 1 .. x.next - 1 = x.inserts \union {raw[id].row_index : id \in x.updates}
  /\ x.pc \in {"evaluate", "stamp", "curate"} => DOMAIN x.read \subseteq RowsOf(x.batch)
  /\ x.pc = "stamp"  => x.read \in [DOMAIN x.read -> Verdicts]
  /\ x.pc \in {"evaluate", "curate"} => x.read \in [DOMAIN x.read -> Record]

\* The rules that look at one record only.
Obeys(record) ==
  /\ \A field \in RequiredFields : record[field] # "missing"
  /\ record.fiscal_year \notin {"invalid_type", "outside_window"}
  /\ record.amount_usd \notin {"invalid_type", "not_positive", "above_cap"}
  /\ record.org_unit # "unknown"

\* While the file F is all that was dropped under b, the rows are copies of its records.
Copies(b, F) ==
  \A id \in RowsOf(b) :
    /\ raw[id].row_index \in DOMAIN F /\ raw[id].record = F[raw[id].row_index]
    /\ raw[id].verdict = "passed" => Obeys(raw[id].record)

\* The first Fetch that committed inserted each record once and in order, so that the
\* first copies of the records stand as the records do in the file.
First(b, F) ==
  RowsOf(b) # {} =>
    \E f \in [DOMAIN F -> RowsOf(b)] :
      /\ \A i, j \in DOMAIN F : i < j => f[i] < f[j]
      /\ \A k \in DOMAIN F : raw[f[k]].row_index = k
      /\ \A id \in RowsOf(b) : f[raw[id].row_index] <= id

\* What an execution has read passes the gate if the file does, whatever is curated.
Weighs(x, F) ==
  /\ \A id \in DOMAIN x.read : x.read[id] = raw[id].record
  /\ IsNumbered(F) =>
       \A existing \in SUBSET GrantNos : GatePasses(x.read, existing) => GatePasses(F, {})

\* What an execution has read obeys the rules, and its gate is that of the file.
Vets(x, F) ==
  /\ x.pc = "evaluate" => Weighs(x, F)
  /\ x.pc = "stamp" => \A id \in DOMAIN x.read : x.read[id] = "passed" => Obeys(raw[id].record)
  /\ x.pc = "curate" => \A id \in DOMAIN x.read :
                           Obeys(x.read[id]) /\ \E k \in DOMAIN F : F[k] = x.read[id]
  /\ x.pc \in {"persist", "curate"} \/ (x.pc = "stamp" /\ x.gate) =>
       (IsNumbered(F) => GatePasses(F, {}))

OneFile ==
  \A b \in Batches : SameFile(b) => \A F \in dropped[b] :
    /\ Copies(b, F) /\ First(b, F)
    /\ \A e \in Intakes : intake[e].batch = b => Vets(intake[e], F)

\* Who still owes a row its verdict, its batch status, or its place among the curated.
Stamps(x, id) ==
  /\ x.batch = raw[id].batch
  /\ \/ x.pc \in {"fetch", "rows", "validate", "failed"}
     \/ x.pc \in {"evaluate", "stamp"} /\ id \in DOMAIN x.read
Marks(x, id) ==
  x.batch = raw[id].batch /\ x.pc \notin {"idle", "skipped", "curated", "quarantined"}
Carries(x, id) ==
  /\ x.batch = raw[id].batch
  /\ \/ x.pc \in {"fetch", "rows", "validate", "evaluate", "stamp", "persist", "quarantine",
                 "quarantined", "failed"}
     \/ x.pc = "curate" /\ id \in DOMAIN x.read /\ x.read[id] = raw[id].record
Missing(id) == raw[id].verdict = "passed" /\ raw[id].record.grant_no \notin DOMAIN curated

OwedTo(id) ==
  /\ raw[id].verdict = "none"      => \E e \in Intakes : Stamps(intake[e], id)
  /\ raw[id].batch_status = "none" => \E e \in Intakes : Marks(intake[e], id)
  /\ Missing(id)                   => \E e \in Intakes : Carries(intake[e], id)
Owed == \A id \in DOMAIN raw : OwedTo(id)

IntakeInv ==
  /\ IntakeTyped /\ Landed
  /\ \A e \in Intakes : Sound(intake[e])
  /\ OneFile /\ CuratedIsClean /\ Owed

-----------------------------------------------------------------------------
(* Facts about the operators.                                              *)

LEMMA LeastNatural ==
  ASSUME NEW T, T \subseteq Nat, T # {}
  PROVE  \E least \in T : \A n \in T : least <= n
<1>1. PICK least \in T : \A n \in T : <<n, least>> \notin OpToRel(<, Nat)
  BY WFMin, NatLessThanWellFounded
<1>2. ASSUME NEW n \in T PROVE ~(n < least)
  BY <1>1, Zenon DEF OpToRel
<1>3. QED
  BY <1>2

LEMMA EmptyReading == NoFile \in Readings /\ NoFile \in Seq(Record) /\ DOMAIN NoFile = {}
<1>1. NoFile \in Seq(Record) /\ DOMAIN NoFile = {}
  BY EmptySeq, LenProperties DEF NoFile
<1>2. NoFile \in [{} -> Record \union Verdicts]
  BY DEF NoFile
<1>3. QED
  BY <1>1, <1>2 DEF Readings

LEMMA RowsAre ==
  ASSUME IntakeTyped
  PROVE  /\ Len(raw) \in Nat /\ DOMAIN raw = 1 .. Len(raw)
         /\ \A id \in DOMAIN raw : raw[id] \in RawRows /\ raw[id].batch \in Batches
         /\ \A id \in DOMAIN raw : raw[id].row_index \in Nat \ {0} /\ raw[id].record \in Record
<1>1. raw \in Seq(RawRows)
  BY DEF IntakeTyped
<1>2. Len(raw) \in Nat /\ DOMAIN raw = 1 .. Len(raw) /\ \A id \in DOMAIN raw : raw[id] \in RawRows
  BY <1>1, LenProperties, ElementOfSeq
<1>3. QED
  BY <1>2 DEF RawRows

LEMMA IdleIs ==
  /\ Idle \in IntakeRecord
  /\ Idle.pc = "idle" /\ Idle.batch = "none" /\ Idle.file = NoFile /\ Idle.inserts = {}
  /\ Idle.updates = {} /\ Idle.next = 1 /\ Idle.read = NoFile /\ Idle.gate = FALSE
BY EmptyReading DEF Idle, IntakeRecord, StagePcs

LEMMA StageIs ==
  ASSUME IntakeTyped, NEW e \in Intakes, NEW pc \in StagePcs
  PROVE  /\ Stage(e, pc) \in IntakeRecord
         /\ Stage(e, pc).pc = pc /\ Stage(e, pc).batch = intake[e].batch
         /\ Stage(e, pc).inserts = {} /\ Stage(e, pc).updates = {} /\ Stage(e, pc).next = 1
<1>1. intake[e].batch \in Batches \union {"none"}
  BY DEF IntakeTyped, IntakeRecord
<1>2. QED
  BY <1>1, IdleIs DEF Stage, IntakeRecord

LEMMA IntakeStarts == IntakeInit => IntakeInv
<1> SUFFICES ASSUME IntakeInit PROVE IntakeInv
  OBVIOUS
<1>1. DOMAIN raw = {} /\ raw \in Seq(RawRows) /\ DOMAIN curated = {}
  BY EmptySeq, LenProperties DEF IntakeInit
<1>2. Idle \in IntakeRecord /\ Idle.pc = "idle"
  BY EmptyReading DEF Idle, IntakeRecord, StagePcs
<1>3. IntakeTyped
  <2>1. objects \in [Batches -> Seq(Record)] /\ dropped \in [Batches -> SUBSET Seq(Record)]
    BY EmptyReading DEF IntakeInit
  <2>2. intake \in [Intakes -> IntakeRecord]
    BY <1>2 DEF IntakeInit
  <2>3. curated \in [DOMAIN curated -> CuratedRows]
    BY <1>1 DEF IntakeInit
  <2>4. QED
    BY <1>1, <2>1, <2>2, <2>3, LossAssumption DEF IntakeTyped, IntakeInit
<1>4. \A e \in Intakes : Sound(intake[e])
  BY <1>2 DEF IntakeInit, Sound
<1>5. \A b \in Batches : dropped[b] = {}
  BY DEF IntakeInit
<1>6. Landed /\ OneFile /\ CuratedIsClean /\ Owed
  BY <1>1, <1>5 DEF Landed, OneFile, CuratedIsClean, Owed
<1>7. QED
  BY <1>3, <1>4, <1>6 DEF IntakeInv

-----------------------------------------------------------------------------
(* A step of one execution.                                                *)

\* What the step of e may make of it, when nobody else sees anything of the step.
MayBecome(e, x) ==
  /\ x \in IntakeRecord /\ Sound(x)
  /\ x.batch \in Batches /\ SameFile(x.batch) => \A F \in dropped[x.batch] : Vets(x, F)
  /\ \A id \in DOMAIN raw :
       /\ Stamps(intake[e], id) => Stamps(x, id)
       /\ Marks(intake[e], id) => Marks(x, id)
       /\ Missing(id) /\ Carries(intake[e], id) => Carries(x, id)

LEMMA Turn ==
  ASSUME IntakeInv, NEW e \in Intakes, NEW x, MayBecome(e, x),
         intake' = [intake EXCEPT ![e] = x],
         UNCHANGED <<objects, dropped, raw, curated>>, losses' \in 0 .. MaxLosses
  PROVE  IntakeInv'
<1> USE DEF MayBecome
<1>1. /\ intake'[e] = x /\ \A f \in Intakes \ {e} : intake'[f] = intake[f]
      /\ intake' \in [Intakes -> IntakeRecord]
  BY DEF IntakeInv, IntakeTyped
<1>2. IntakeTyped' /\ Landed' /\ CuratedIsClean'
  <2>1. IntakeTyped'
    BY <1>1 DEF IntakeInv, IntakeTyped
  <2>2. Landed'
    BY DEF IntakeInv, Landed
  <2>3. CuratedIsClean'
    BY DEF IntakeInv, CuratedIsClean, SameFile
  <2>4. QED
    BY <2>1, <2>2, <2>3
<1>3. ASSUME NEW f \in Intakes PROVE Sound(intake[f])'
  <2>1. PICK y : y = intake'[f]
    OBVIOUS
  <2>2. Sound(y)
    BY <1>1, <2>1 DEF IntakeInv
  <2>3. QED
    BY <2>1, <2>2 DEF Sound, RowsOf
<1>4. OneFile'
  <2> SUFFICES ASSUME NEW b \in Batches, SameFile(b)', NEW F \in dropped'[b]
               PROVE  /\ Copies(b, F)' /\ First(b, F)'
                      /\ \A f \in Intakes : intake'[f].batch = b => Vets(intake[f], F)'
    BY DEF OneFile
  <2>1. SameFile(b) /\ F \in dropped[b]
    BY DEF SameFile
  <2>2. Copies(b, F)' /\ First(b, F)'
    BY <2>1 DEF IntakeInv, OneFile, Copies, First, RowsOf
  <2>3. ASSUME NEW f \in Intakes, intake'[f].batch = b PROVE Vets(intake[f], F)'
    <3>1. PICK y : y = intake'[f]
      OBVIOUS
    <3>2. Vets(y, F)
      BY <1>1, <2>1, <2>3, <3>1 DEF IntakeInv, OneFile
    <3>3. QED
      BY <3>1, <3>2 DEF Vets, Weighs
  <2>4. QED
    BY <2>2, <2>3
<1>5. Owed'
  <2> SUFFICES ASSUME NEW id \in DOMAIN raw
               PROVE  /\ raw[id].verdict = "none"      => \E f \in Intakes : Stamps(intake[f], id)'
                      /\ raw[id].batch_status = "none" => \E f \in Intakes : Marks(intake[f], id)'
                      /\ Missing(id)                   => \E f \in Intakes : Carries(intake[f], id)'
    BY DEF Owed, OwedTo, Missing
  <2>1. ASSUME NEW f \in Intakes, Stamps(intake[f], id) PROVE Stamps(intake[f], id)'
    <3>1. PICK y : y = intake'[f]
      OBVIOUS
    <3>2. Stamps(y, id)
      BY <1>1, <2>1, <3>1
    <3>3. QED
      BY <3>1, <3>2 DEF Stamps
  <2>2. ASSUME NEW f \in Intakes, Marks(intake[f], id) PROVE Marks(intake[f], id)'
    <3>1. PICK y : y = intake'[f]
      OBVIOUS
    <3>2. Marks(y, id)
      BY <1>1, <2>2, <3>1
    <3>3. QED
      BY <3>1, <3>2 DEF Marks
  <2>3. ASSUME NEW f \in Intakes, Missing(id), Carries(intake[f], id) PROVE Carries(intake[f], id)'
    <3>1. PICK y : y = intake'[f]
      OBVIOUS
    <3>2. Carries(y, id)
      BY <1>1, <2>3, <3>1
    <3>3. QED
      BY <3>1, <3>2 DEF Carries
  <2>4. QED
    BY <2>1, <2>2, <2>3 DEF IntakeInv, Owed, OwedTo
<1>6. QED
  BY <1>2, <1>3, <1>4, <1>5 DEF IntakeInv

LEMMA MovesOn ==
  ASSUME IntakeInv, NEW e \in Intakes, NEW pc \in StagePcs,
         \/ intake[e].pc = "idle" /\ pc = "skipped"
         \/ intake[e].pc = "rows" /\ pc = "fetch"
         \/ intake[e].pc \in {"evaluate", "stamp"} /\ pc = "validate"
         \/ intake[e].pc = "curate" /\ pc = "persist"
         \/ intake[e].pc \notin Ended /\ pc = "failed"
  PROVE  MayBecome(e, Stage(e, pc))
<1> DEFINE x == Stage(e, pc)
<1>1. x \in IntakeRecord /\ x.pc = pc /\ x.batch = intake[e].batch
  BY StageIs DEF IntakeInv
<1> HIDE DEF x
<1>2. Sound(intake[e])
  BY DEF IntakeInv
<1>3. Sound(x)
  BY <1>1, <1>2 DEF Sound, Ended
<1>4. ASSUME x.batch \in Batches, SameFile(x.batch), NEW F \in dropped[x.batch] PROVE Vets(x, F)
  <2>1. Vets(intake[e], F)
    BY <1>1, <1>4 DEF IntakeInv, OneFile
  <2>2. QED
    BY <1>1, <2>1 DEF Vets
<1>5. ASSUME NEW id \in DOMAIN raw
      PROVE  /\ Stamps(intake[e], id) => Stamps(x, id)
             /\ Marks(intake[e], id) => Marks(x, id)
             /\ Carries(intake[e], id) => Carries(x, id)
  BY <1>1 DEF Stamps, Marks, Carries, Ended
<1>6. QED
  BY <1>1, <1>3, <1>4, <1>5 DEF MayBecome, x

LEMMA GotoTurn ==
  ASSUME IntakeInv, NEW e \in Intakes, NEW pc \in StagePcs, MayBecome(e, Stage(e, pc)), Goto(e, pc),
         UNCHANGED <<objects, dropped, raw, curated>>, losses' \in 0 .. MaxLosses
  PROVE  IntakeInv'
BY Turn DEF Goto

LEMMA SkipStep == ASSUME IntakeInv, NEW e \in Intakes, Skip(e) PROVE IntakeInv'
<1>1. MayBecome(e, Stage(e, "skipped"))
  BY MovesOn DEF Skip, StagePcs
<1>2. losses' \in 0 .. MaxLosses
  BY DEF Skip, IntakeInv, IntakeTyped
<1>3. QED
  BY <1>1, <1>2, GotoTurn DEF Skip, StagePcs

LEMMA DieStep == ASSUME IntakeInv, NEW e \in Intakes, Die(e) PROVE IntakeInv'
<1>1. losses' \in 0 .. MaxLosses
  BY LossAssumption DEF Die, IntakeInv, IntakeTyped
<1>2. PICK pc \in StagePcs : MayBecome(e, Stage(e, pc)) /\ Goto(e, pc)
  <2>1. CASE intake[e].pc \in DOMAIN StageStart /\ Goto(e, StageStart[intake[e].pc])
    <3>1. PICK pc \in StagePcs : /\ pc = StageStart[intake[e].pc]
                                 /\ \/ intake[e].pc = "rows" /\ pc = "fetch"
                                    \/ intake[e].pc \in {"evaluate", "stamp"} /\ pc = "validate"
                                    \/ intake[e].pc = "curate" /\ pc = "persist"
      BY <2>1 DEF StageStart, StagePcs
    <3>2. QED
      BY <2>1, <3>1, MovesOn
  <2>2. CASE Goto(e, "failed")
    <3>1. MayBecome(e, Stage(e, "failed"))
      BY MovesOn DEF Die, StagePcs
    <3>2. QED
      BY <2>2, <3>1 DEF StagePcs
  <2>3. QED
    BY <2>1, <2>2 DEF Die
<1>3. QED
  BY <1>1, <1>2, GotoTurn DEF Die

LEMMA ReadObjectStep == ASSUME IntakeInv, NEW e \in Intakes, ReadObject(e) PROVE IntakeInv'
<1> DEFINE file == objects[intake[e].batch]
           y == Stage(e, "rows")
           x == [y EXCEPT !.file = file]
<1>1. intake[e].batch \in Batches /\ dropped[intake[e].batch] # {}
  BY DEF IntakeInv, Sound, ReadObject
<1>2. file \in dropped[intake[e].batch] /\ file \in Seq(Record)
  BY <1>1 DEF IntakeInv, IntakeTyped, Landed
<1>3. /\ y \in IntakeRecord /\ y.pc = "rows" /\ y.batch = intake[e].batch
      /\ y.inserts = {} /\ y.updates = {} /\ y.next = 1
  BY StageIs DEF IntakeInv, StagePcs
<1>4. intake' = [intake EXCEPT ![e] = x]
  BY DEF ReadObject
<1> HIDE DEF file, y
<1>5. /\ x \in IntakeRecord /\ x.pc = "rows" /\ x.batch = intake[e].batch /\ x.file = file
      /\ x.inserts = {} /\ x.updates = {} /\ x.next = 1
  BY <1>2, <1>3 DEF IntakeRecord
<1> HIDE DEF x
<1>6. Sound(x)
  <2>1. Len(file) \in Nat
    BY <1>2, LenProperties
  <2>2. 1 .. x.next - 1 = {} /\ {raw[id].row_index : id \in x.updates} = {}
    BY <1>5
  <2>3. QED
    BY <1>1, <1>2, <1>5, <2>1, <2>2 DEF Sound
<1>7. MayBecome(e, x)
  BY <1>5, <1>6 DEF MayBecome, Vets, Stamps, Marks, Carries, ReadObject
<1>8. losses' \in 0 .. MaxLosses
  BY DEF ReadObject, IntakeInv, IntakeTyped
<1>9. QED
  BY <1>4, <1>7, <1>8, Turn DEF ReadObject

-----------------------------------------------------------------------------
(* The rules and the gate.                                               *)

LEMMA DivBound ==
  ASSUME NEW a \in Nat, NEW d \in Nat \ {0}, NEW T \in Nat
  PROVE  a \div d >= T <=> a >= T * d
<1>1. PICK q : q = a \div d
  OBVIOUS
<1>2. q \in Nat /\ q * d <= a /\ a < (q + 1) * d
  BY <1>1
<1>3. ASSUME q >= T PROVE a >= T * d
  <2>1. q * d >= T * d
    BY <1>2, <1>3
  <2>2. QED
    BY <1>2, <2>1
<1>4. ASSUME a >= T * d, q < T PROVE FALSE
  <2>1. (q + 1) * d <= T * d
    BY <1>2, <1>4
  <2>2. QED
    BY <1>2, <1>4, <2>1
<1>5. QED
  BY <1>1, <1>2, <1>3, <1>4

LEMMA ScoreRises ==
  ASSUME NEW p \in Nat, NEW t \in Nat, NEW q \in Nat, NEW s \in Nat, p <= q, s <= t,
         ScoreOf(p, t - p) >= PassThreshold
  PROVE  ScoreOf(q, s - q) >= PassThreshold
<1> DEFINE T == PassThreshold
<1>1. T \in Nat /\ T <= 10000
  BY ThresholdAssumption
<1>2. CASE s = 0
  BY <1>1, <1>2 DEF ScoreOf
<1>3. CASE s # 0
  <2>1. t # 0 /\ p + (t - p) = t /\ q + (s - q) = s
    BY <1>3
  <2>2. (20000 * p + t) \div (2 * t) >= T
    BY <2>1 DEF ScoreOf
  <2>3. 20000 * p + t >= T * (2 * t)
    BY <1>1, <2>1, <2>2, DivBound
  <2>4. 20000 * q + s >= T * (2 * s)
    <3>1. CASE T = 0
      BY <3>1
    <3>2. CASE T # 0
      <4>1. PICK m \in Nat : m = 2 * T - 1
        BY <1>1, <3>2
      <4>2. T * (2 * t) = m * t + t /\ T * (2 * s) = m * s + s
        BY <1>1, <4>1
      <4>3. m * s <= m * t
        BY <4>1
      <4>4. m * t \in Nat /\ m * s \in Nat
        BY <4>1
      <4>5. QED
        BY <2>3, <4>2, <4>3, <4>4
    <3>3. QED
      BY <3>1, <3>2
  <2>5. (20000 * q + s) \div (2 * s) >= T
    BY <1>1, <1>3, <2>4, DivBound
  <2>6. QED
    BY <1>3, <2>1, <2>5 DEF ScoreOf
<1>4. QED
  BY <1>2, <1>3

\* A row passes when it obeys the rules that look at it alone, and is no duplicate.
LEMMA PassingIs ==
  ASSUME NEW rows, NEW existing, NEW i
  PROVE  i \in PassingRows(rows, existing) <=>
           i \in DOMAIN rows /\ Obeys(rows[i]) /\ ~Duplicates(rows, i, existing)
<1>1. ASSUME NEW rule \in RuleNames
      PROVE  /\ rule = "not_null_required_fields" =>
                  (Violates(rule, rows, i, existing) <=>
                     \E field \in RequiredFields : rows[i][field] = "missing")
             /\ rule = "valid_fiscal_year_range" =>
                  (Violates(rule, rows, i, existing) <=>
                     rows[i].fiscal_year \in {"invalid_type", "outside_window"})
             /\ rule = "amount_usd_within_bounds" =>
                  (Violates(rule, rows, i, existing) <=>
                     rows[i].amount_usd \in {"invalid_type", "not_positive", "above_cap"})
             /\ rule = "org_unit_recognized" =>
                  (Violates(rule, rows, i, existing) <=> rows[i].org_unit = "unknown")
             /\ rule = "grant_no_unique" =>
                  (Violates(rule, rows, i, existing) <=> Duplicates(rows, i, existing))
  BY DEF Violates
<1>2. /\ \A rule \in RuleNames : rule \in {"not_null_required_fields", "valid_fiscal_year_range",
           "amount_usd_within_bounds", "org_unit_recognized", "grant_no_unique"}
      /\ "not_null_required_fields" \in RuleNames /\ "valid_fiscal_year_range" \in RuleNames
      /\ "amount_usd_within_bounds" \in RuleNames /\ "org_unit_recognized" \in RuleNames
      /\ "grant_no_unique" \in RuleNames
  BY DEF RuleNames
<1>3. QED
  BY <1>1, <1>2 DEF PassingRows, Obeys

\* The gate of the table is not looser than that of the file, when the numbers tell the
\* copies of its records apart.
LEMMA TableGate ==
  ASSUME IntakeTyped, NEW b \in Batches, NEW F \in Seq(Record), NEW existing,
         RowsOf(b) # {}, Copies(b, F), First(b, F), IsNumbered(F),
         GatePasses([id \in RowsOf(b) |-> raw[id].record], existing)
  PROVE  GatePasses(F, {})
<1> DEFINE rows == [id \in RowsOf(b) |-> raw[id].record]
           P == PassingRows(rows, existing)
           Q == PassingRows(F, {})
<1>1. Len(F) \in Nat /\ DOMAIN F = 1 .. Len(F) /\ \A k \in DOMAIN F : F[k] \in Record
  BY LenProperties, ElementOfSeq
<1>2. Len(raw) \in Nat /\ RowsOf(b) \subseteq 1 .. Len(raw)
  BY LenProperties DEF IntakeTyped, RowsOf
<1>3. PICK f \in [DOMAIN F -> RowsOf(b)] :
        /\ \A i, j \in DOMAIN F : i < j => f[i] < f[j]
        /\ \A k \in DOMAIN F : raw[f[k]].row_index = k
        /\ \A id \in RowsOf(b) : f[raw[id].row_index] <= id
  BY DEF First
<1>4. \A id \in RowsOf(b) : raw[id].row_index \in DOMAIN F /\ rows[id] = F[raw[id].row_index]
  BY DEF Copies
<1>5. DOMAIN rows = RowsOf(b)
  OBVIOUS
<1> HIDE DEF rows
<1>6. \A id \in P : id \in RowsOf(b) /\ Obeys(rows[id]) /\ ~Duplicates(rows, id, existing)
  BY <1>5, PassingIs
<1>7. ASSUME NEW id \in P
      PROVE  rows[id].grant_no \in GrantNos /\ \A j \in RowsOf(b) : j < id => rows[j].grant_no # rows[id].grant_no
  <2>1. rows[id] \in Record /\ rows[id].grant_no # "missing" /\ rows[id].grant_no # "invalid_type"
    BY <1>1, <1>4, <1>6 DEF Obeys, RequiredFields, IsNumbered
  <2>2. rows[id].grant_no \in GrantNos
    BY <2>1 DEF Record
  <2>3. QED
    BY <1>5, <1>6, <2>2 DEF Duplicates
<1>8. ASSUME NEW id \in P PROVE f[raw[id].row_index] = id
  <2> DEFINE k == raw[id].row_index
  <2>1. k \in DOMAIN F /\ f[k] \in RowsOf(b) /\ f[k] <= id /\ rows[f[k]] = rows[id]
    BY <1>3, <1>4, <1>6
  <2>2. ~(f[k] < id)
    BY <1>7, <2>1
  <2>3. id \in Nat /\ f[k] \in Nat
    BY <1>2, <1>6, <2>1
  <2>4. QED
    BY <2>1, <2>2, <2>3
<1>9. ASSUME NEW id \in P PROVE raw[id].row_index \in Q
  <2> DEFINE k == raw[id].row_index
  <2>1. k \in DOMAIN F /\ rows[id] = F[k]
    BY <1>4, <1>6
  <2>2. ASSUME NEW j \in DOMAIN F, j < k, F[j].grant_no = F[k].grant_no PROVE FALSE
    <3>1. f[j] < f[k] /\ f[j] \in RowsOf(b) /\ rows[f[j]] = F[j]
      BY <1>3, <1>4, <2>1, <2>2
    <3>2. QED
      BY <1>7, <1>8, <2>1, <2>2, <3>1
  <2>3. ~Duplicates(F, k, {})
    BY <2>2 DEF Duplicates
  <2>4. QED
    BY <1>6, <2>1, <2>3, PassingIs
<1>10. IsFiniteSet(Q) /\ IsFiniteSet(DOMAIN F) /\ IsFiniteSet(RowsOf(b)) /\ IsFiniteSet(P)
  <2>1. Q \subseteq 1 .. Len(F) /\ P \subseteq 1 .. Len(raw)
    BY <1>1, <1>2, <1>6, PassingIs
  <2>2. IsFiniteSet(1 .. Len(F)) /\ IsFiniteSet(1 .. Len(raw))
    BY <1>1, <1>2, FS_Interval
  <2>3. IsFiniteSet(Q) /\ IsFiniteSet(P) /\ IsFiniteSet(RowsOf(b))
    BY <1>2, <2>1, <2>2, FS_Subset
  <2>4. QED
    BY <1>1, <2>2, <2>3
<1>11. Cardinality(P) <= Cardinality(Q)
  <2> DEFINE g == [id \in P |-> raw[id].row_index]
  <2>1. g \in Injection(P, Q)
    BY <1>8, <1>9 DEF Injection, IsInjective
  <2>2. QED
    BY <1>10, <2>1, FS_Injection
<1>12. Cardinality(DOMAIN F) <= Cardinality(RowsOf(b))
  <2>1. f \in Injection(DOMAIN F, RowsOf(b))
    BY <1>3 DEF Injection, IsInjective
  <2>2. QED
    BY <1>10, <2>1, FS_Injection
<1>13. ScoreOf(Cardinality(P), Cardinality(RowsOf(b)) - Cardinality(P)) >= PassThreshold
  BY <1>5 DEF GatePasses, rows
<1>14. /\ Cardinality(P) \in Nat /\ Cardinality(Q) \in Nat
       /\ Cardinality(DOMAIN F) \in Nat /\ Cardinality(RowsOf(b)) \in Nat
  BY <1>10, FS_CardinalityType
<1>15. QED
  <2> HIDE DEF P, Q
  <2>1. ScoreOf(Cardinality(Q), Cardinality(DOMAIN F) - Cardinality(Q)) >= PassThreshold
    BY <1>11, <1>12, <1>13, <1>14, ScoreRises
  <2>2. QED
    BY <2>1 DEF GatePasses, Q

-----------------------------------------------------------------------------
(* The steps that only read the tables.                                    *)

LEMMA UpsertStep == ASSUME IntakeInv, NEW e \in Intakes, UpsertRawRow(e) PROVE IntakeInv'
<1> DEFINE b == intake[e].batch
           k == intake[e].next
           ids == {id \in RowsOf(b) : raw[id].row_index = k}
           updates == intake[e].updates \union ids
           inserts == intake[e].inserts \union {j \in {k} : ids = {}}
           x == [intake[e] EXCEPT !.next = k + 1, !.updates = updates, !.inserts = inserts]
<1>1. /\ intake[e] \in IntakeRecord /\ intake[e].pc = "rows" /\ Sound(intake[e])
      /\ k <= Len(intake[e].file) /\ intake' = [intake EXCEPT ![e] = x]
  BY DEF IntakeInv, IntakeTyped, UpsertRawRow
<1>2. k \in Nat \ {0} /\ b \in Batches /\ intake[e].file \in Seq(Record)
  BY <1>1 DEF IntakeRecord, Sound
<1>3. RowsOf(b) \subseteq Nat
  BY LenProperties DEF RowsOf, IntakeInv, IntakeTyped
<1>4. updates \in SUBSET Nat /\ inserts \in SUBSET (Nat \ {0})
  BY <1>1, <1>2, <1>3 DEF IntakeRecord
<1>5. updates \subseteq RowsOf(b)
  BY <1>1 DEF Sound
<1>6. 1 .. k = inserts \union {raw[id].row_index : id \in updates}
  <2>1. 1 .. k - 1 = intake[e].inserts \union {raw[id].row_index : id \in intake[e].updates}
    BY <1>1 DEF Sound
  <2>2. 1 .. k = (1 .. k - 1) \union {k}
    BY <1>2
  <2>3. {raw[id].row_index : id \in updates} =
          {raw[id].row_index : id \in intake[e].updates} \union {raw[id].row_index : id \in ids}
    OBVIOUS
  <2>4. {raw[id].row_index : id \in ids} = {j \in {k} : ids # {}}
    OBVIOUS
  <2>5. {k} = {j \in {k} : ids = {}} \union {j \in {k} : ids # {}}
    OBVIOUS
  <2>6. QED
    BY <2>1, <2>2, <2>3, <2>4, <2>5
<1> HIDE DEF ids, updates, inserts
<1>7. /\ x \in IntakeRecord /\ x.pc = "rows" /\ x.batch = b /\ x.file = intake[e].file
      /\ x.next = k + 1 /\ x.updates = updates /\ x.inserts = inserts
  <2>1. PICK n \in Nat \ {0} : n = k + 1
    BY <1>2
  <2>2. PICK z \in IntakeRecord : z = intake[e]
    BY <1>1
  <2>3. x = [z EXCEPT !.next = n, !.updates = updates, !.inserts = inserts]
    BY <2>1, <2>2
  <2> HIDE DEF x
  <2>4. /\ x \in IntakeRecord /\ x.pc = z.pc /\ x.batch = z.batch /\ x.file = z.file
        /\ x.next = n /\ x.updates = updates /\ x.inserts = inserts
    BY <1>4, <2>3 DEF IntakeRecord
  <2>5. QED
    BY <1>1, <2>1, <2>2, <2>4
<1> HIDE DEF x
<1>8. Sound(x)
  <2>1. Len(intake[e].file) \in Nat /\ x.next - 1 = k
    BY <1>2, <1>7, LenProperties
  <2>2. x.file \in dropped[x.batch] /\ x.batch \in Batches /\ dropped[x.batch] # {}
    BY <1>1, <1>7 DEF Sound
  <2>3. QED
    BY <1>1, <1>2, <1>5, <1>6, <1>7, <2>1, <2>2 DEF Sound
<1>9. MayBecome(e, x)
  BY <1>1, <1>7, <1>8 DEF MayBecome, Vets, Stamps, Marks, Carries
<1>10. UNCHANGED <<objects, dropped, raw, curated, losses>> /\ losses \in 0 .. MaxLosses
  BY DEF UpsertRawRow, IntakeInv, IntakeTyped
<1>11. QED
  BY <1>1, <1>9, <1>10, Turn

LEMMA LoadStep == ASSUME IntakeInv, NEW e \in Intakes, LoadBatch(e) PROVE IntakeInv'
<1> DEFINE b == intake[e].batch
           read == [id \in RowsOf(b) |-> raw[id].record]
           y == Stage(e, "evaluate")
           x == [y EXCEPT !.read = read]
<1>1. /\ intake[e] \in IntakeRecord /\ intake[e].pc = "validate" /\ Sound(intake[e])
      /\ b \in Batches /\ dropped[b] # {}
  BY DEF IntakeInv, IntakeTyped, LoadBatch, Sound
<1>2. losses' \in 0 .. MaxLosses
  BY DEF LoadBatch, IntakeInv, IntakeTyped
<1>3. CASE RowsOf(b) = {}
  <2>1. MayBecome(e, Stage(e, "failed"))
    BY <1>1, MovesOn DEF Ended, StagePcs
  <2>2. Goto(e, "failed")
    BY <1>3 DEF LoadBatch
  <2>3. QED
    BY <1>2, <2>1, <2>2, GotoTurn DEF LoadBatch, StagePcs
<1>4. CASE RowsOf(b) # {}
  <2>1. intake' = [intake EXCEPT ![e] = x]
    BY <1>4 DEF LoadBatch
  <2>2. y \in IntakeRecord /\ y.pc = "evaluate" /\ y.batch = b
    BY StageIs DEF IntakeInv, StagePcs
  <2>3. DOMAIN read = RowsOf(b) /\ read \in [RowsOf(b) -> Record] /\ RowsOf(b) \in SUBSET Nat
    BY RowsAre DEF IntakeInv, RowsOf
  <2>4. read \in Readings
    <3>1. read \in [RowsOf(b) -> Record \union Verdicts]
      BY <2>3
    <3>2. QED
      BY <2>3, <3>1 DEF Readings
  <2>5. \A id \in RowsOf(b) : read[id] = raw[id].record
    OBVIOUS
  <2>6. ASSUME SameFile(b), NEW F \in dropped[b], NEW existing, IsNumbered(F),
               GatePasses(read, existing)
        PROVE  GatePasses(F, {})
    <3>1. Copies(b, F) /\ First(b, F) /\ F \in Seq(Record)
      BY <1>1, <2>6 DEF IntakeInv, IntakeTyped, OneFile
    <3>2. QED
      BY <1>1, <1>4, <2>6, <3>1, TableGate DEF IntakeInv
  <2> HIDE DEF y, read
  <2>7. x \in IntakeRecord /\ x.pc = "evaluate" /\ x.batch = b /\ x.read = read
    BY <2>2, <2>4 DEF IntakeRecord
  <2> HIDE DEF x
  <2>8. Sound(x)
    BY <1>1, <2>3, <2>7 DEF Sound
  <2>9. ASSUME SameFile(b), NEW F \in dropped[b] PROVE Vets(x, F)
    <3>1. Weighs(x, F)
      BY <2>3, <2>5, <2>6, <2>7, <2>9 DEF Weighs
    <3>2. QED
      BY <2>7, <3>1 DEF Vets
  <2>10. ASSUME NEW id \in DOMAIN raw
         PROVE  /\ Stamps(intake[e], id) => Stamps(x, id)
                /\ Marks(intake[e], id) => Marks(x, id)
                /\ Carries(intake[e], id) => Carries(x, id)
    BY <1>1, <2>3, <2>7 DEF Stamps, Marks, Carries, RowsOf
  <2>11. MayBecome(e, x)
    BY <2>7, <2>8, <2>9, <2>10 DEF MayBecome
  <2>12. QED
    BY <1>2, <2>1, <2>11, Turn DEF LoadBatch
<1>5. QED
  BY <1>3, <1>4

LEMMA EvaluateStep == ASSUME IntakeInv, NEW e \in Intakes, EvaluateBatch(e) PROVE IntakeInv'
<1> DEFINE b == intake[e].batch
           rows == intake[e].read
           existing == {g \in DOMAIN curated : curated[g].batch # b}
           read == [id \in DOMAIN rows |->
                      IF id \in PassingRows(rows, existing) THEN "passed" ELSE "quarantined"]
           gate == GatePasses(rows, existing)
           y == Stage(e, "stamp")
           x == [y EXCEPT !.read = read, !.gate = gate]
<1>1. /\ intake[e] \in IntakeRecord /\ intake[e].pc = "evaluate" /\ Sound(intake[e])
      /\ b \in Batches /\ dropped[b] # {} /\ DOMAIN rows \subseteq RowsOf(b)
  BY DEF IntakeInv, IntakeTyped, EvaluateBatch, Sound
<1>2. losses' \in 0 .. MaxLosses /\ existing \in SUBSET GrantNos
  BY DEF EvaluateBatch, IntakeInv, IntakeTyped
<1>3. intake' = [intake EXCEPT ![e] = x] /\ UNCHANGED <<objects, dropped, raw, curated>>
  BY DEF EvaluateBatch
<1>4. y \in IntakeRecord /\ y.pc = "stamp" /\ y.batch = b
  BY StageIs DEF IntakeInv, StagePcs
<1>5. DOMAIN read = DOMAIN rows /\ read \in [DOMAIN rows -> Verdicts]
  BY DEF Verdicts
<1>6. read \in Readings /\ gate \in BOOLEAN
  <2>1. DOMAIN rows \in SUBSET Nat
    BY <1>1, RowsAre DEF RowsOf, IntakeInv
  <2>2. read \in [DOMAIN rows -> Record \union Verdicts]
    BY <1>5
  <2>3. QED
    BY <2>1, <2>2 DEF Readings, GatePasses
<1>7. ASSUME SameFile(b), NEW F \in dropped[b]
      PROVE  /\ \A id \in DOMAIN rows : read[id] = "passed" => Obeys(raw[id].record)
             /\ gate /\ IsNumbered(F) => GatePasses(F, {})
  <2>1. Weighs(intake[e], F)
    BY <1>1, <1>7 DEF IntakeInv, OneFile, Vets
  <2>2. \A id \in DOMAIN rows : read[id] = "passed" => Obeys(rows[id])
    BY PassingIs
  <2>3. QED
    BY <1>2, <2>1, <2>2 DEF Weighs
<1> HIDE DEF y, read, gate
<1>8. x \in IntakeRecord /\ x.pc = "stamp" /\ x.batch = b /\ x.read = read /\ x.gate = gate
  BY <1>4, <1>6 DEF IntakeRecord
<1> HIDE DEF x
<1>9. Sound(x)
  BY <1>1, <1>5, <1>8 DEF Sound
<1>10. ASSUME SameFile(b), NEW F \in dropped[b] PROVE Vets(x, F)
  BY <1>5, <1>7, <1>8, <1>10 DEF Vets
<1>11. ASSUME NEW id \in DOMAIN raw
       PROVE  /\ Stamps(intake[e], id) => Stamps(x, id)
              /\ Marks(intake[e], id) => Marks(x, id)
              /\ Carries(intake[e], id) => Carries(x, id)
  BY <1>1, <1>5, <1>8 DEF Stamps, Marks, Carries
<1>12. MayBecome(e, x)
  BY <1>8, <1>9, <1>10, <1>11 DEF MayBecome
<1>13. QED
  BY <1>2, <1>3, <1>12, Turn

LEMMA ReadPassingStep == ASSUME IntakeInv, NEW e \in Intakes, ReadPassingRows(e) PROVE IntakeInv'
<1> DEFINE b == intake[e].batch
           passing == {id \in RowsOf(b) : raw[id].verdict = "passed"}
           read == [id \in passing |-> raw[id].record]
           y == Stage(e, "curate")
           x == [y EXCEPT !.read = read]
<1>1. /\ intake[e] \in IntakeRecord /\ intake[e].pc = "persist" /\ Sound(intake[e])
      /\ b \in Batches /\ dropped[b] # {} /\ intake' = [intake EXCEPT ![e] = x]
  BY DEF IntakeInv, IntakeTyped, ReadPassingRows, Sound
<1>2. losses' \in 0 .. MaxLosses
  BY DEF ReadPassingRows, IntakeInv, IntakeTyped
<1>3. y \in IntakeRecord /\ y.pc = "curate" /\ y.batch = b
  BY StageIs DEF IntakeInv, StagePcs
<1>4. \A id \in DOMAIN raw : id \in Nat /\ raw[id] \in RawRows
  BY LenProperties, ElementOfSeq DEF IntakeInv, IntakeTyped
<1>5. DOMAIN read = passing /\ read \in [passing -> Record] /\ passing \in SUBSET Nat
  BY <1>4 DEF RowsOf, RawRows
<1>6. read \in Readings
  <2>1. read \in [passing -> Record \union Verdicts]
    BY <1>5
  <2>2. QED
    BY <1>5, <2>1 DEF Readings
<1>7. \A id \in passing : read[id] = raw[id].record
  OBVIOUS
<1> HIDE DEF y, read
<1>8. x \in IntakeRecord /\ x.pc = "curate" /\ x.batch = b /\ x.read = read
  BY <1>3, <1>6 DEF IntakeRecord
<1> HIDE DEF x
<1>9. Sound(x)
  BY <1>1, <1>5, <1>8 DEF Sound
<1>10. ASSUME SameFile(b), NEW F \in dropped[b] PROVE Vets(x, F)
  <2>1. Copies(b, F) /\ Vets(intake[e], F)
    BY <1>1, <1>10 DEF IntakeInv, OneFile
  <2>2. \A id \in passing : Obeys(read[id]) /\ \E k \in DOMAIN F : F[k] = read[id]
    BY <1>7, <2>1 DEF Copies
  <2>3. QED
    BY <1>1, <1>5, <1>8, <2>1, <2>2 DEF Vets
<1>11. ASSUME NEW id \in DOMAIN raw
       PROVE  /\ Stamps(intake[e], id) => Stamps(x, id)
              /\ Marks(intake[e], id) => Marks(x, id)
              /\ Missing(id) /\ Carries(intake[e], id) => Carries(x, id)
  BY <1>1, <1>5, <1>7, <1>8 DEF Stamps, Marks, Carries, RowsOf, Missing
<1>12. MayBecome(e, x)
  BY <1>8, <1>9, <1>10, <1>11 DEF MayBecome
<1>13. QED
  BY <1>1, <1>2, <1>12, Turn DEF ReadPassingRows

LEMMA DropStep ==
  ASSUME IntakeInv, NEW e \in Intakes, NEW b \in Batches, NEW file \in Files(b), Drop(e, b, file)
  PROVE  IntakeInv'
<1> DEFINE x == [Idle EXCEPT !.pc = "fetch", !.batch = b]
<1>1. file \in Seq(Record)
  BY FilesAssumption
<1>2. /\ intake[e].pc = "idle" /\ UNCHANGED <<raw, curated, losses>>
      /\ objects' = [objects EXCEPT ![b] = file]
      /\ dropped' = [dropped EXCEPT ![b] = dropped[b] \union {file}]
      /\ intake' = [intake EXCEPT ![e] = x]
  BY DEF Drop
<1>3. x \in IntakeRecord /\ x.pc = "fetch" /\ x.batch = b
  BY IdleIs DEF IntakeRecord, StagePcs
<1> HIDE DEF x
<1>4. /\ intake' \in [Intakes -> IntakeRecord] /\ intake'[e] = x
      /\ \A f \in Intakes \ {e} : intake'[f] = intake[f]
  BY <1>2, <1>3 DEF IntakeInv, IntakeTyped
<1>5. /\ objects' \in [Batches -> Seq(Record)] /\ dropped' \in [Batches -> SUBSET Seq(Record)]
      /\ \A c \in Batches : dropped[c] \subseteq dropped'[c]
      /\ file \in dropped'[b] /\ objects'[b] = file
      /\ \A c \in Batches \ {b} : dropped'[c] = dropped[c] /\ objects'[c] = objects[c]
  BY <1>1, <1>2 DEF IntakeInv, IntakeTyped
<1>6. IntakeTyped'
  BY <1>2, <1>4, <1>5 DEF IntakeInv, IntakeTyped
<1>7. \A id \in DOMAIN raw : raw[id].batch \in Batches
  BY RowsAre DEF IntakeInv
<1>8. Landed'
  <2>1. \A c \in Batches : dropped'[c] # {} => objects'[c] \in dropped'[c]
    BY <1>5 DEF IntakeInv, Landed
  <2>2. \A id \in DOMAIN raw : dropped'[raw[id].batch] # {}
    BY <1>5, <1>7 DEF IntakeInv, Landed
  <2>3. QED
    BY <1>2, <2>1, <2>2 DEF Landed
<1>9. ASSUME NEW f \in Intakes PROVE Sound(intake[f])'
  <2>1. PICK y : y = intake'[f]
    OBVIOUS
  <2>2. CASE f = e
    BY <1>3, <1>4, <1>5, <2>1, <2>2 DEF Sound
  <2>3. CASE f # e
    <3>1. Sound(y)
      BY <1>4, <2>1, <2>3 DEF IntakeInv
    <3>2. y.batch \in Batches => dropped[y.batch] \subseteq dropped'[y.batch]
      BY <1>5
    <3>3. RowsOf(y.batch)' = RowsOf(y.batch)
      BY <1>2 DEF RowsOf
    <3>4. /\ y.pc \notin {"idle", "skipped"} => y.batch \in Batches /\ dropped'[y.batch] # {}
          /\ y.pc = "rows" => y.file \in dropped'[y.batch]
      BY <3>1, <3>2 DEF Sound
    <3>5. QED
      BY <1>2, <2>1, <3>1, <3>3, <3>4 DEF Sound
  <2>4. QED
    BY <2>2, <2>3
<1>10. ASSUME NEW c \in Batches, SameFile(c)' PROVE SameFile(c)
  BY <1>5, <1>10 DEF SameFile
<1>11. OneFile'
  <2> SUFFICES ASSUME NEW c \in Batches, SameFile(c)', NEW F \in dropped'[c]
               PROVE  /\ Copies(c, F)' /\ First(c, F)'
                      /\ \A f \in Intakes : intake'[f].batch = c => Vets(intake[f], F)'
    BY DEF OneFile
  <2>1. SameFile(c)
    BY <1>10
  <2>2. CASE dropped[c] = {}
    <3>1. RowsOf(c)' = {}
      BY <1>2, <2>2 DEF RowsOf, IntakeInv, Landed
    <3>2. ASSUME NEW f \in Intakes, intake'[f].batch = c PROVE Vets(intake[f], F)'
      <4>1. PICK y : y = intake'[f]
        OBVIOUS
      <4>2. y.pc \in {"idle", "skipped", "fetch"}
        BY <1>3, <1>4, <2>2, <3>2, <4>1 DEF IntakeInv, Sound
      <4>3. QED
        BY <4>1, <4>2 DEF Vets
    <3>3. QED
      BY <3>1, <3>2 DEF Copies, First
  <2>3. CASE dropped[c] # {}
    <3>1. F \in dropped[c]
      BY <1>5, <2>3 DEF SameFile
    <3>2. Copies(c, F)' /\ First(c, F)'
      BY <1>2, <2>1, <3>1 DEF IntakeInv, OneFile, Copies, First, RowsOf
    <3>3. ASSUME NEW f \in Intakes, intake'[f].batch = c PROVE Vets(intake[f], F)'
      <4>1. PICK y : y = intake'[f]
        OBVIOUS
      <4>2. Vets(y, F) \/ y.pc = "fetch"
        BY <1>3, <1>4, <2>1, <3>1, <3>3, <4>1 DEF IntakeInv, OneFile
      <4>3. QED
        BY <1>2, <4>1, <4>2 DEF Vets, Weighs
    <3>4. QED
      BY <3>2, <3>3
  <2>4. QED
    BY <2>2, <2>3
<1>12. CuratedIsClean'
  <2> SUFFICES ASSUME NEW g \in DOMAIN curated, SameFile(curated[g].batch)'
               PROVE  /\ curated[g].record.grant_no = g /\ IsClean(curated[g].record)
                      /\ \E h \in dropped'[curated[g].batch] :
                           /\ \E k \in DOMAIN h : h[k] = curated[g].record
                           /\ IsNumbered(h) => GatePasses(h, {})
    BY <1>2 DEF CuratedIsClean
  <2>1. PICK c \in Batches : c = curated[g].batch
    BY DEF IntakeInv, IntakeTyped, CuratedRows
  <2>2. SameFile(c)'
    BY <1>2, <2>1 DEF SameFile
  <2>3. SameFile(c) /\ dropped[c] \subseteq dropped'[c]
    BY <1>5, <1>10, <2>2
  <2>4. QED
    BY <2>1, <2>3 DEF IntakeInv, CuratedIsClean
<1>13. Owed'
  <2> SUFFICES ASSUME NEW id \in DOMAIN raw PROVE OwedTo(id)'
    BY <1>2 DEF Owed
  <2>1. ASSUME NEW f \in Intakes
        PROVE  /\ Stamps(intake[f], id) => Stamps(intake[f], id)'
               /\ Marks(intake[f], id) => Marks(intake[f], id)'
               /\ Carries(intake[f], id) => Carries(intake[f], id)'
    <3>1. PICK y : y = intake'[f]
      OBVIOUS
    <3>2. CASE f = e
      BY <1>2, <3>2 DEF Stamps, Marks, Carries
    <3>3. CASE f # e
      BY <1>2, <1>4, <3>3 DEF Stamps, Marks, Carries
    <3>4. QED
      BY <3>2, <3>3
  <2>2. OwedTo(id)
    BY DEF IntakeInv, Owed
  <2>3. QED
    BY <1>2, <2>1, <2>2 DEF OwedTo, Missing
<1>14. QED
  BY <1>6, <1>8, <1>9, <1>11, <1>12, <1>13 DEF IntakeInv

-----------------------------------------------------------------------------
(* The steps that write the tables.                                        *)

\* A transaction of batch b writes only rows of its batch, and loses nothing.
TableGrows(b) ==
  /\ raw' \in Seq(RawRows) /\ DOMAIN raw \subseteq DOMAIN raw'
  /\ \A id \in DOMAIN raw :
       /\ raw'[id].batch = raw[id].batch /\ raw'[id].row_index = raw[id].row_index
       /\ raw[id].batch # b => raw'[id] = raw[id]
  /\ \A id \in DOMAIN raw' \ DOMAIN raw : raw'[id].batch = b
  /\ DOMAIN curated \subseteq DOMAIN curated' /\ DOMAIN curated' \subseteq GrantNos
  /\ curated' \in [DOMAIN curated' -> CuratedRows]

\* Where a committed transaction may leave its execution.
Answered == {"fetch", "validate", "persist", "quarantine", "curated", "quarantined", "failed"}

\* How the rows of b stand afterwards to the file F.
Keeps(b, F, pc) ==
  /\ Copies(b, F)' /\ First(b, F)'
  /\ pc = "persist" => (IsNumbered(F) => GatePasses(F, {}))

LEMMA AnswerIs ==
  ASSUME IntakeInv, NEW e \in Intakes, NEW next, NEW again, Answer(e, next, again)
  PROVE  losses' \in 0 .. MaxLosses /\ \E pc \in {next, again, "failed"} : Goto(e, pc)
BY LossAssumption DEF IntakeInv, IntakeTyped, Answer

LEMMA TableTurn ==
  ASSUME IntakeInv, NEW e \in Intakes, NEW b, b = intake[e].batch, b \in Batches, dropped[b] # {},
         NEW pc \in Answered, Goto(e, pc), losses' \in 0 .. MaxLosses,
         UNCHANGED <<objects, dropped>>, TableGrows(b), CuratedIsClean',
         SameFile(b) => \A F \in dropped[b] : Keeps(b, F, pc),
         \A id \in DOMAIN raw' : raw'[id].batch = b => OwedTo(id)'
  PROVE  IntakeInv'
<1> DEFINE x == Stage(e, pc)
<1>1. x \in IntakeRecord /\ x.pc = pc /\ x.batch = b
  BY StageIs DEF Answered, StagePcs, IntakeInv
<1>2. intake' = [intake EXCEPT ![e] = x]
  BY DEF Goto
<1> HIDE DEF x
<1>3. /\ intake'[e] = x /\ \A f \in Intakes \ {e} : intake'[f] = intake[f]
      /\ intake' \in [Intakes -> IntakeRecord]
  BY <1>1, <1>2 DEF IntakeInv, IntakeTyped
<1>4. IntakeTyped'
  BY <1>3 DEF IntakeInv, IntakeTyped, TableGrows
<1>5. \A id \in DOMAIN raw : raw[id].batch \in Batches
  BY RowsAre DEF IntakeInv
<1>6. Landed'
  <2>1. ASSUME NEW id \in DOMAIN raw' PROVE dropped[raw'[id].batch] # {}
    BY DEF IntakeInv, Landed, TableGrows
  <2>2. QED
    BY <2>1 DEF IntakeInv, Landed
<1>7. \A c \in Batches : RowsOf(c) \subseteq RowsOf(c)' /\ (c # b => RowsOf(c)' = RowsOf(c))
  BY DEF RowsOf, TableGrows
<1>8. ASSUME NEW f \in Intakes PROVE Sound(intake[f])'
  <2>1. PICK y : y = intake'[f]
    OBVIOUS
  <2>2. CASE f = e
    BY <1>1, <1>3, <2>1, <2>2 DEF Sound, Answered
  <2>3. CASE f # e
    <3>1. Sound(y)
      BY <1>3, <2>1, <2>3 DEF IntakeInv
    <3>2. y.pc \notin {"idle", "skipped"} => y.batch \in Batches /\ dropped[y.batch] # {}
      BY <3>1 DEF Sound
    <3>3. ASSUME y.pc = "rows"
          PROVE  /\ y.updates \subseteq RowsOf(y.batch)'
                 /\ {raw'[id].row_index : id \in y.updates} = {raw[id].row_index : id \in y.updates}
      <4>1. y.updates \subseteq RowsOf(y.batch) /\ y.batch \in Batches
        BY <3>1, <3>3 DEF Sound
      <4>2. \A id \in y.updates : raw'[id].row_index = raw[id].row_index
        BY <4>1 DEF RowsOf, TableGrows
      <4>3. QED
        BY <1>7, <4>1, <4>2
    <3>4. y.pc \in {"evaluate", "stamp", "curate"} => DOMAIN y.read \subseteq RowsOf(y.batch)'
      BY <1>7, <3>1, <3>2 DEF Sound
    <3>5. QED
      BY <2>1, <3>1, <3>2, <3>3, <3>4 DEF Sound
  <2>4. QED
    BY <2>2, <2>3
<1>9. OneFile'
  <2> SUFFICES ASSUME NEW c \in Batches, SameFile(c)', NEW F \in dropped'[c]
               PROVE  /\ Copies(c, F)' /\ First(c, F)'
                      /\ \A f \in Intakes : intake'[f].batch = c => Vets(intake[f], F)'
    BY DEF OneFile
  <2>1. SameFile(c) /\ F \in dropped[c]
    BY DEF SameFile
  <2>2. Copies(c, F) /\ First(c, F)
    BY <2>1 DEF IntakeInv, OneFile
  <2>3. Copies(c, F)' /\ First(c, F)'
    <3>1. CASE c = b
      BY <2>1, <3>1 DEF Keeps
    <3>2. CASE c # b
      <4>1. RowsOf(c)' = RowsOf(c) /\ \A id \in RowsOf(c) : raw'[id] = raw[id]
        BY <1>7, <3>2 DEF RowsOf, TableGrows
      <4>2. Copies(c, F)'
        BY <2>2, <4>1 DEF Copies
      <4>3. First(c, F)'
        <5>1. ASSUME RowsOf(c) # {}
              PROVE  \E f \in [DOMAIN F -> RowsOf(c)] :
                       /\ \A i, j \in DOMAIN F : i < j => f[i] < f[j]
                       /\ \A k \in DOMAIN F : raw'[f[k]].row_index = k
                       /\ \A id \in RowsOf(c) : f[raw'[id].row_index] <= id
          BY <2>2, <4>1, <5>1 DEF First
        <5>2. QED
          BY <4>1, <5>1 DEF First
      <4>4. QED
        BY <4>2, <4>3
    <3>3. QED
      BY <3>1, <3>2
  <2>4. ASSUME NEW f \in Intakes, intake'[f].batch = c PROVE Vets(intake[f], F)'
    <3>1. PICK y : y = intake'[f]
      OBVIOUS
    <3>2. CASE f = e
      <4>1. c = b /\ y.pc = pc
        BY <1>1, <1>3, <2>4, <3>1, <3>2
      <4>2. Keeps(b, F, pc)
        BY <2>1, <4>1
      <4>3. QED
        BY <3>1, <4>1, <4>2 DEF Vets, Keeps, Answered
    <3>3. CASE f # e
      <4>1. Vets(y, F) /\ Sound(y) /\ y.batch = c
        BY <1>3, <2>1, <2>4, <3>1, <3>3 DEF IntakeInv, OneFile
      <4>2. \A id \in RowsOf(c) : raw'[id].record = raw[id].record
        <5>1. ASSUME NEW id \in RowsOf(c) PROVE raw'[id].record = raw[id].record
          <6>1. raw'[id].row_index = raw[id].row_index /\ id \in RowsOf(c)'
            BY <1>7 DEF TableGrows, RowsOf
          <6>2. raw'[id].record = F[raw'[id].row_index] /\ raw[id].record = F[raw[id].row_index]
            BY <2>2, <2>3, <6>1 DEF Copies
          <6>3. QED
            BY <6>1, <6>2
        <5>2. QED
          BY <5>1
      <4>3. y.pc = "stamp" => \A id \in DOMAIN y.read : y.read[id] = "passed" => Obeys(raw'[id].record)
        BY <4>1, <4>2 DEF Vets, Sound
      <4>4. y.pc = "evaluate" =>
              /\ Weighs(y, F) /\ DOMAIN y.read \subseteq RowsOf(c)
              /\ \A id \in DOMAIN y.read : y.read[id] = raw'[id].record
        BY <4>1, <4>2 DEF Vets, Weighs, Sound
      <4>5. QED
        BY <3>1, <4>1, <4>3, <4>4 DEF Vets, Weighs
    <3>4. QED
      BY <3>2, <3>3
  <2>5. QED
    BY <2>3, <2>4
<1>10. ASSUME NEW id \in DOMAIN raw', raw'[id].batch # b PROVE OwedTo(id)'
  <2>1. id \in DOMAIN raw /\ raw'[id] = raw[id] /\ raw[id].batch # b
    BY <1>10 DEF TableGrows
  <2>2. ASSUME NEW f \in Intakes
        PROVE  /\ Stamps(intake[f], id) => Stamps(intake[f], id)'
               /\ Marks(intake[f], id) => Marks(intake[f], id)'
               /\ Carries(intake[f], id) => Carries(intake[f], id)'
    <3>1. CASE f = e
      BY <2>1, <3>1 DEF Stamps, Marks, Carries
    <3>2. CASE f # e
      <4>1. PICK y : y = intake'[f]
        OBVIOUS
      <4>2. y = intake[f]
        BY <1>3, <3>2, <4>1
      <4>3. QED
        BY <2>1, <4>1, <4>2 DEF Stamps, Marks, Carries
    <3>3. QED
      BY <3>1, <3>2
  <2>3. OwedTo(id)
    BY <2>1 DEF IntakeInv, Owed
  <2>4. Missing(id)' => Missing(id)
    BY <2>1 DEF Missing, TableGrows
  <2>5. QED
    BY <2>1, <2>2, <2>3, <2>4 DEF OwedTo
<1>11. Owed'
  BY <1>10 DEF Owed
<1>12. QED
  BY <1>4, <1>6, <1>8, <1>9, <1>11 DEF IntakeInv

\* The first copies of the records stay the first.
LEMMA FirstStays ==
  ASSUME IntakeTyped, NEW b \in Batches, NEW F \in Seq(Record), TableGrows(b), First(b, F),
         RowsOf(b) # {} \/ DOMAIN raw' = DOMAIN raw,
         Copies(b, F), \A id \in DOMAIN raw' \ DOMAIN raw : raw'[id].row_index \in DOMAIN F
  PROVE  First(b, F)'
<1>1. RowsOf(b) \subseteq RowsOf(b)' /\ (DOMAIN raw' = DOMAIN raw => RowsOf(b)' = RowsOf(b))
  BY DEF RowsOf, TableGrows
<1>2. SUFFICES ASSUME RowsOf(b) # {} PROVE First(b, F)'
  BY <1>1 DEF First
<1>3. PICK f \in [DOMAIN F -> RowsOf(b)] :
        /\ \A i, j \in DOMAIN F : i < j => f[i] < f[j]
        /\ \A k \in DOMAIN F : raw[f[k]].row_index = k
        /\ \A id \in RowsOf(b) : f[raw[id].row_index] <= id
  BY <1>2 DEF First
<1>4. f \in [DOMAIN F -> RowsOf(b)']
  BY <1>1
<1>5. \A k \in DOMAIN F : raw'[f[k]].row_index = k
  BY <1>3 DEF TableGrows, RowsOf
<1>6. ASSUME NEW id \in RowsOf(b)' PROVE f[raw'[id].row_index] <= id
  <2>1. CASE id \in DOMAIN raw
    <3>1. id \in RowsOf(b) /\ raw'[id].row_index = raw[id].row_index
      BY <2>1 DEF RowsOf, TableGrows
    <3>2. QED
      BY <1>3, <3>1
  <2>2. CASE id \notin DOMAIN raw
    <3>1. Len(raw) \in Nat /\ DOMAIN raw = 1 .. Len(raw)
      BY RowsAre
    <3>2. id \in Nat \ {0}
      BY LenProperties DEF RowsOf, TableGrows
    <3>3. id > Len(raw)
      BY <2>2, <3>1, <3>2
    <3>4. f[raw'[id].row_index] \in DOMAIN raw
      BY <2>2 DEF RowsOf
    <3>5. QED
      BY <3>1, <3>2, <3>3, <3>4
  <2>3. QED
    BY <2>1, <2>2
<1>7. QED
  BY <1>3, <1>4, <1>5, <1>6 DEF First

\* The step of e leaves what the others owe.
LEMMA OthersOwe ==
  ASSUME IntakeTyped, NEW e, NEW pc, Goto(e, pc), NEW f \in Intakes \ {e}, NEW id \in DOMAIN raw,
         raw'[id].batch = raw[id].batch
  PROVE  /\ Stamps(intake[f], id) => Stamps(intake[f], id)'
         /\ Marks(intake[f], id) => Marks(intake[f], id)'
         /\ Carries(intake[f], id) /\ raw'[id].record = raw[id].record => Carries(intake[f], id)'
<1>1. PICK y : y = intake'[f]
  OBVIOUS
<1>2. y = intake[f]
  BY <1>1 DEF Goto, IntakeTyped
<1>3. QED
  BY <1>1, <1>2 DEF Stamps, Marks, Carries

LEMMA MarkIs ==
  ASSUME NEW b, NEW status \in {"curated", "quarantined"}, NEW row \in RawRows,
         NEW marked, marked = MarkBatch(b, status, row)
  PROVE  /\ marked \in RawRows /\ marked.batch = row.batch /\ marked.row_index = row.row_index
         /\ marked.record = row.record /\ marked.verdict = row.verdict
         /\ row.batch # b => marked = row
         /\ row.batch = b => marked.batch_status = status
BY DEF MarkBatch, RawRows

LEMMA HoldStep == ASSUME IntakeInv, NEW e \in Intakes, HoldBatch(e) PROVE IntakeInv'
<1>1. PICK b \in Batches :
        /\ intake[e].pc = "quarantine" /\ b = intake[e].batch /\ dropped[b] # {} /\ IntakeTyped
  BY DEF IntakeInv, HoldBatch, Sound
<1>2. PICK pc \in {"quarantined", "quarantine", "failed"} : Goto(e, pc) /\ losses' \in 0 .. MaxLosses
  BY AnswerIs DEF HoldBatch
<1>3. UNCHANGED <<objects, dropped, curated>> /\ DOMAIN raw' = DOMAIN raw
  BY DEF HoldBatch
<1>4. ASSUME NEW id \in DOMAIN raw
      PROVE  /\ raw'[id] \in RawRows
             /\ raw'[id].batch = raw[id].batch /\ raw'[id].row_index = raw[id].row_index
             /\ raw'[id].record = raw[id].record /\ raw'[id].verdict = raw[id].verdict
             /\ raw[id].batch # b => raw'[id] = raw[id]
             /\ raw[id].batch = b => raw'[id].batch_status = "quarantined"
  <2>1. raw[id] \in RawRows
    BY <1>1, RowsAre
  <2>2. PICK marked : marked = MarkBatch(b, "quarantined", raw[id])
    OBVIOUS
  <2>3. raw'[id] = marked
    BY <1>1, <2>2 DEF HoldBatch
  <2>4. QED
    BY <2>1, <2>2, <2>3, MarkIs
<1>5. raw' \in Seq(RawRows)
  <2>1. Len(raw) \in Nat /\ raw' = [id \in 1 .. Len(raw) |-> raw'[id]]
    BY <1>1, RowsAre DEF HoldBatch
  <2>2. QED
    BY <1>1, <1>4, <2>1, RowsAre DEF Seq
<1>6. TableGrows(b)
  BY <1>1, <1>3, <1>4, <1>5 DEF TableGrows, IntakeTyped
<1>7. CuratedIsClean'
  BY <1>3 DEF IntakeInv, CuratedIsClean, SameFile
<1>8. ASSUME SameFile(b), NEW F \in dropped[b] PROVE Keeps(b, F, pc)
  <2>1. Copies(b, F) /\ First(b, F) /\ F \in Seq(Record)
    BY <1>1, <1>8 DEF IntakeInv, OneFile, IntakeTyped
  <2>2. Copies(b, F)'
    BY <1>3, <1>4, <2>1 DEF Copies, RowsOf
  <2>3. First(b, F)'
    BY <1>1, <1>3, <1>6, <2>1, FirstStays
  <2>4. QED
    BY <1>2, <2>2, <2>3 DEF Keeps
<1>9. ASSUME NEW id \in DOMAIN raw', raw'[id].batch = b PROVE OwedTo(id)'
  <2>1. /\ id \in DOMAIN raw /\ raw[id].batch = b
        /\ raw'[id].batch_status # "none" /\ raw'[id].verdict = raw[id].verdict
    BY <1>3, <1>4, <1>9
  <2>2. ASSUME raw'[id].verdict = "none" PROVE \E f \in Intakes : Stamps(intake[f], id)'
    <3>1. PICK f \in Intakes : Stamps(intake[f], id)
      BY <2>1, <2>2 DEF IntakeInv, Owed, OwedTo
    <3>2. f # e
      BY <1>1, <3>1 DEF Stamps
    <3>3. QED
      BY <1>1, <1>2, <1>4, <2>1, <3>1, <3>2, OthersOwe
  <2>3. Carries(intake[e], id)'
    <3>1. PICK y : y = intake'[e]
      OBVIOUS
    <3>2. y.pc = pc /\ y.batch = b
      BY <1>1, <1>2, <3>1, StageIs DEF Goto, StagePcs, IntakeTyped
    <3>3. QED
      BY <1>2, <1>9, <3>1, <3>2 DEF Carries
  <2>4. QED
    BY <2>1, <2>2, <2>3 DEF OwedTo
<1>10. QED
  BY <1>1, <1>2, <1>3, <1>6, <1>7, <1>8, <1>9, TableTurn DEF Answered

LEMMA StampStep == ASSUME IntakeInv, NEW e \in Intakes, StampVerdicts(e) PROVE IntakeInv'
<1>1. PICK b \in Batches :
        /\ intake[e].pc = "stamp" /\ b = intake[e].batch /\ dropped[b] # {} /\ IntakeTyped
  BY DEF IntakeInv, StampVerdicts, Sound
<1>2. PICK verdicts : verdicts = intake[e].read
  OBVIOUS
<1>3. verdicts \in [DOMAIN verdicts -> Verdicts] /\ DOMAIN verdicts \subseteq RowsOf(b)
  BY <1>1, <1>2 DEF IntakeInv, Sound
<1>4. PICK pc \in {"persist", "quarantine", "validate", "failed"} :
        Goto(e, pc) /\ losses' \in 0 .. MaxLosses /\ (pc = "persist" => intake[e].gate)
  <2>1. CASE intake[e].gate
    <3>1. Answer(e, "persist", "validate")
      BY <2>1 DEF StampVerdicts
    <3>2. QED
      BY <2>1, <3>1, AnswerIs
  <2>2. CASE ~intake[e].gate
    <3>1. Answer(e, "quarantine", "validate")
      BY <2>2 DEF StampVerdicts
    <3>2. QED
      BY <2>2, <3>1, AnswerIs
  <2>3. QED
    BY <2>1, <2>2
<1>5. UNCHANGED <<objects, dropped, curated>> /\ DOMAIN raw' = DOMAIN raw
  BY DEF StampVerdicts
<1>6. ASSUME NEW id \in DOMAIN raw
      PROVE  /\ raw'[id] \in RawRows
             /\ raw'[id].batch = raw[id].batch /\ raw'[id].row_index = raw[id].row_index
             /\ raw'[id].record = raw[id].record
             /\ id \in DOMAIN verdicts => raw'[id].verdict = verdicts[id]
             /\ id \notin DOMAIN verdicts => raw'[id] = raw[id]
  <2>1. raw[id] \in RawRows
    BY <1>1, RowsAre
  <2>2. CASE id \in DOMAIN verdicts
    <3>1. PICK row \in RawRows : row = raw[id]
      BY <2>1
    <3>2. PICK v \in Verdicts : v = verdicts[id]
      BY <1>3, <2>2
    <3>3. raw'[id] = [row EXCEPT !.verdict = v]
      BY <1>2, <2>2, <3>1, <3>2 DEF StampVerdicts
    <3>4. QED
      BY <2>2, <3>1, <3>2, <3>3 DEF RawRows, Verdicts
  <2>3. CASE id \notin DOMAIN verdicts
    <3>1. raw'[id] = raw[id]
      BY <1>2, <2>3 DEF StampVerdicts
    <3>2. QED
      BY <2>1, <2>3, <3>1
  <2>4. QED
    BY <2>2, <2>3
<1>7. raw' \in Seq(RawRows)
  <2>1. Len(raw) \in Nat /\ raw' = [id \in 1 .. Len(raw) |-> raw'[id]]
    BY <1>1, RowsAre DEF StampVerdicts
  <2>2. QED
    BY <1>1, <1>6, <2>1, RowsAre DEF Seq
<1>8. TableGrows(b)
  <2>1. \A id \in DOMAIN raw : raw[id].batch # b => id \notin DOMAIN verdicts
    BY <1>3 DEF RowsOf
  <2>2. QED
    BY <1>1, <1>5, <1>6, <1>7, <2>1 DEF TableGrows, IntakeTyped
<1>9. CuratedIsClean'
  BY <1>5 DEF IntakeInv, CuratedIsClean, SameFile
<1>10. ASSUME SameFile(b), NEW F \in dropped[b] PROVE Keeps(b, F, pc)
  <2>1. Copies(b, F) /\ First(b, F) /\ F \in Seq(Record) /\ Vets(intake[e], F)
    BY <1>1, <1>10 DEF IntakeInv, OneFile, IntakeTyped
  <2>2. \A id \in DOMAIN verdicts : verdicts[id] = "passed" => Obeys(raw[id].record)
    BY <1>1, <1>2, <2>1 DEF Vets
  <2>3. Copies(b, F)'
    BY <1>5, <1>6, <2>1, <2>2 DEF Copies, RowsOf
  <2>4. First(b, F)'
    BY <1>1, <1>5, <1>8, <2>1, FirstStays
  <2>5. pc = "persist" => (IsNumbered(F) => GatePasses(F, {}))
    BY <1>1, <1>4, <2>1 DEF Vets
  <2>6. QED
    BY <2>3, <2>4, <2>5 DEF Keeps
<1>11. ASSUME NEW id \in DOMAIN raw', raw'[id].batch = b PROVE OwedTo(id)'
  <2>1. id \in DOMAIN raw /\ raw[id].batch = b
    BY <1>5, <1>6, <1>11
  <2>2. ASSUME raw'[id].verdict = "none" PROVE \E f \in Intakes : Stamps(intake[f], id)'
    <3>1. id \notin DOMAIN verdicts /\ raw'[id] = raw[id]
      BY <1>3, <1>6, <2>1, <2>2 DEF Verdicts
    <3>2. PICK f \in Intakes : Stamps(intake[f], id)
      BY <2>1, <2>2, <3>1 DEF IntakeInv, Owed, OwedTo
    <3>3. f # e
      BY <1>1, <1>2, <3>1, <3>2 DEF Stamps
    <3>4. QED
      BY <1>1, <1>4, <2>1, <3>1, <3>2, <3>3, OthersOwe
  <2>3. Marks(intake[e], id)' /\ Carries(intake[e], id)'
    <3>1. PICK y : y = intake'[e]
      OBVIOUS
    <3>2. y.pc = pc /\ y.batch = b
      BY <1>1, <1>4, <3>1, StageIs DEF Goto, StagePcs, IntakeTyped
    <3>3. QED
      BY <1>4, <1>11, <3>1, <3>2 DEF Marks, Carries
  <2>4. QED
    BY <2>2, <2>3 DEF OwedTo
<1>12. QED
  BY <1>1, <1>4, <1>5, <1>8, <1>9, <1>10, <1>11, TableTurn DEF Answered

LEMMA ObeyingIsClean ==
  ASSUME NEW record \in Record, Obeys(record), \A field \in RequiredFields : ~IsNull(record, field)
  PROVE  IsClean(record)
<1>1. /\ record.fiscal_year \in {"valid", "missing", "invalid_type", "outside_window"}
      /\ record.amount_usd \in {"valid", "missing", "invalid_type", "not_positive", "above_cap"}
      /\ record.org_unit \in {"valid", "missing", "invalid_type", "unknown"}
  BY DEF Record
<1>2. /\ record.fiscal_year \notin {"missing", "invalid_type"}
      /\ record.amount_usd \notin {"missing", "invalid_type"}
      /\ record.org_unit \notin {"missing", "invalid_type"}
  BY DEF RequiredFields, IsNull
<1>3. QED
  BY <1>1, <1>2 DEF Obeys, IsClean

\* The rows that were read have all a number that is curated afterwards.
LEMMA InsertedAre ==
  ASSUME NEW rows \in Readings, rows \in [DOMAIN rows -> Record],
         \A id \in DOMAIN rows, field \in RequiredFields : ~IsNull(rows[id], field)
  PROVE  /\ Inserted(rows) \subseteq DOMAIN rows
         /\ \A id \in DOMAIN rows : rows[id].grant_no \in GrantNos
         /\ \A id \in DOMAIN rows : rows[id].grant_no \in DOMAIN curated \union
                                      {rows[other].grant_no : other \in Inserted(rows)}
<1>1. Inserted(rows) \subseteq DOMAIN rows /\ DOMAIN rows \subseteq Nat
  BY DEF Inserted, Readings
<1>2. ASSUME NEW id \in DOMAIN rows PROVE rows[id].grant_no \in GrantNos
  <2>1. rows[id].grant_no \in GrantNos \union {"missing", "invalid_type"}
    BY DEF Record
  <2>2. rows[id].grant_no \notin {"missing", "invalid_type"}
    BY DEF RequiredFields, IsNull
  <2>3. QED
    BY <2>1, <2>2
<1>3. ASSUME NEW id \in DOMAIN rows, rows[id].grant_no \notin DOMAIN curated
      PROVE  \E other \in Inserted(rows) : rows[other].grant_no = rows[id].grant_no
  <2> DEFINE T == {other \in DOMAIN rows : rows[other].grant_no = rows[id].grant_no}
  <2>1. T \subseteq Nat /\ T # {}
    BY <1>1
  <2>2. PICK least \in T : \A n \in T : least <= n
    BY <2>1, LeastNatural
  <2>3. ASSUME NEW other \in DOMAIN rows, other < least
        PROVE  rows[other].grant_no # rows[least].grant_no
    BY <1>1, <2>2, <2>3
  <2>4. least \in Inserted(rows)
    BY <1>3, <2>2, <2>3 DEF Inserted
  <2>5. QED
    BY <2>2, <2>4
<1>4. QED
  BY <1>1, <1>2, <1>3

LEMMA CurateStep == ASSUME IntakeInv, NEW e \in Intakes, CurateRows(e) PROVE IntakeInv'
<1>1. PICK b \in Batches :
        /\ intake[e].pc = "curate" /\ b = intake[e].batch /\ dropped[b] # {} /\ IntakeTyped
  BY DEF IntakeInv, CurateRows, Sound
<1>2. PICK rows : rows = intake[e].read
  OBVIOUS
<1>3. rows \in [DOMAIN rows -> Record] /\ DOMAIN rows \subseteq RowsOf(b) /\ rows \in Readings
  BY <1>1, <1>2 DEF IntakeInv, Sound, IntakeTyped, IntakeRecord
<1>4. CASE \E id \in DOMAIN rows, field \in RequiredFields : IsNull(rows[id], field)
  <2>1. Goto(e, "failed") /\ UNCHANGED <<objects, dropped, raw, curated, losses>>
    BY <1>2, <1>4 DEF CurateRows
  <2>2. MayBecome(e, Stage(e, "failed"))
    BY <1>1, MovesOn DEF Ended, StagePcs
  <2>3. losses' \in 0 .. MaxLosses
    BY <2>1 DEF IntakeInv, IntakeTyped
  <2>4. QED
    BY <2>1, <2>2, <2>3, GotoTurn DEF StagePcs
<1>5. CASE \A id \in DOMAIN rows, field \in RequiredFields : ~IsNull(rows[id], field)
  <2>1. PICK new : new = Inserted(rows)
    OBVIOUS
  <2>2. /\ new \subseteq DOMAIN rows /\ \A id \in DOMAIN rows : rows[id].grant_no \in GrantNos
        /\ \A id \in DOMAIN rows :
             rows[id].grant_no \in DOMAIN curated \union {rows[other].grant_no : other \in new}
    BY <1>3, <1>5, <2>1, InsertedAre
  <2>3. PICK pc \in {"curated", "persist", "failed"} : Goto(e, pc) /\ losses' \in 0 .. MaxLosses
    <3>1. Answer(e, "curated", "persist")
      BY <1>2, <1>5 DEF CurateRows
    <3>2. QED
      BY <3>1, AnswerIs
  <2>4. UNCHANGED <<objects, dropped>> /\ DOMAIN raw' = DOMAIN raw
    BY <1>2, <1>5 DEF CurateRows
  <2>5. DOMAIN curated' = DOMAIN curated \union {rows[id].grant_no : id \in new}
    BY <1>2, <1>5, <2>1 DEF CurateRows
  <2>6. \A g \in DOMAIN curated : curated'[g] = curated[g]
    BY <1>2, <1>5, <2>1 DEF CurateRows
  <2>7. ASSUME NEW g \in DOMAIN curated', g \notin DOMAIN curated
        PROVE  \E id \in new : rows[id].grant_no = g /\ curated'[g] = [batch |-> b, record |-> rows[id]]
    <3> DEFINE RowFor == CHOOSE id \in Inserted(intake[e].read) : intake[e].read[id].grant_no = g
    <3>1. RowFor \in new /\ rows[RowFor].grant_no = g
      <4>1. \E id \in Inserted(intake[e].read) : intake[e].read[id].grant_no = g
        BY <1>2, <2>1, <2>5, <2>7
      <4>2. RowFor \in Inserted(intake[e].read) /\ intake[e].read[RowFor].grant_no = g
        BY <4>1
      <4>3. QED
        BY <1>2, <2>1, <4>2
    <3>2. curated'[g] = [batch |-> intake[e].batch, record |-> intake[e].read[RowFor]]
      BY <1>2, <1>5, <2>7 DEF CurateRows
    <3> HIDE DEF RowFor
    <3>3. QED
      BY <1>1, <1>2, <3>1, <3>2
  <2>8. /\ DOMAIN curated' \subseteq GrantNos /\ DOMAIN curated \subseteq DOMAIN curated'
        /\ curated' \in [DOMAIN curated' -> CuratedRows]
    <3>1. DOMAIN curated' \subseteq GrantNos
      BY <2>2, <2>5 DEF IntakeInv, IntakeTyped
    <3>2. ASSUME NEW g \in DOMAIN curated' PROVE curated'[g] \in CuratedRows
      <4>1. CASE g \in DOMAIN curated
        BY <2>6, <4>1 DEF IntakeInv, IntakeTyped
      <4>2. CASE g \notin DOMAIN curated
        BY <1>3, <2>2, <2>7, <4>2 DEF CuratedRows
      <4>3. QED
        BY <4>1, <4>2
    <3>3. curated' = [g \in DOMAIN curated' |-> curated'[g]]
      BY <1>2, <1>5 DEF CurateRows
    <3>4. QED
      BY <2>5, <3>1, <3>2, <3>3
  <2>9. ASSUME NEW id \in DOMAIN raw
        PROVE  /\ raw'[id] \in RawRows
               /\ raw'[id].batch = raw[id].batch /\ raw'[id].row_index = raw[id].row_index
               /\ raw'[id].record = raw[id].record /\ raw'[id].verdict = raw[id].verdict
               /\ raw[id].batch # b => raw'[id] = raw[id]
               /\ raw[id].batch = b => raw'[id].batch_status = "curated"
    <3>1. raw[id] \in RawRows
      BY <1>1, RowsAre
    <3>2. PICK linked : linked = IF id \in new THEN [raw[id] EXCEPT !.curated = rows[id].grant_no] ELSE raw[id]
      OBVIOUS
    <3>3. /\ linked \in RawRows /\ linked.batch = raw[id].batch /\ linked.row_index = raw[id].row_index
          /\ linked.record = raw[id].record /\ linked.verdict = raw[id].verdict
          /\ id \notin new => linked = raw[id]
      <4>1. CASE id \in new
        <5>1. PICK row \in RawRows : row = raw[id]
          BY <3>1
        <5>2. PICK g \in GrantNos : g = rows[id].grant_no
          BY <2>2, <4>1
        <5>3. linked = [row EXCEPT !.curated = g]
          BY <3>2, <4>1, <5>1, <5>2
        <5>4. QED
          BY <4>1, <5>1, <5>2, <5>3 DEF RawRows
      <4>2. CASE id \notin new
        BY <3>1, <3>2, <4>2
      <4>3. QED
        BY <4>1, <4>2
    <3>4. PICK marked : marked = MarkBatch(b, "curated", linked)
      OBVIOUS
    <3>5. raw'[id] = marked
      BY <1>1, <1>2, <1>5, <2>1, <3>2, <3>4 DEF CurateRows
    <3>6. raw[id].batch # b => id \notin new
      BY <1>3, <2>2 DEF RowsOf
    <3>7. QED
      BY <3>3, <3>4, <3>5, <3>6, MarkIs
  <2>10. raw' \in Seq(RawRows)
    <3>1. Len(raw) \in Nat /\ raw' = [id \in 1 .. Len(raw) |-> raw'[id]]
      BY <1>1, <1>2, <1>5, RowsAre DEF CurateRows
    <3>2. QED
      BY <1>1, <2>9, <3>1, RowsAre DEF Seq
  <2>11. TableGrows(b)
    BY <2>4, <2>8, <2>9, <2>10 DEF TableGrows
  <2>12. CuratedIsClean'
    <3> SUFFICES ASSUME NEW g \in DOMAIN curated', SameFile(curated'[g].batch)
                 PROVE  /\ curated'[g].record.grant_no = g /\ IsClean(curated'[g].record)
                        /\ \E h \in dropped[curated'[g].batch] :
                             /\ \E k \in DOMAIN h : h[k] = curated'[g].record
                             /\ IsNumbered(h) => GatePasses(h, {})
      BY <2>4 DEF CuratedIsClean, SameFile
    <3>1. CASE g \in DOMAIN curated
      BY <2>6, <3>1 DEF IntakeInv, CuratedIsClean
    <3>2. CASE g \notin DOMAIN curated
      <4>1. PICK id \in new : rows[id].grant_no = g /\ curated'[g] = [batch |-> b, record |-> rows[id]]
        BY <2>7, <3>2
      <4>2. PICK row \in Record : row = rows[id]
        BY <1>3, <2>2
      <4>3. PICK F \in dropped[b] : TRUE
        BY <1>1
      <4>4. SameFile(b) /\ Vets(intake[e], F)
        BY <1>1, <4>1, <4>3 DEF IntakeInv, OneFile
      <4>5. Obeys(row) /\ (\E k \in DOMAIN F : F[k] = row) /\ (IsNumbered(F) => GatePasses(F, {}))
        BY <1>1, <1>2, <2>2, <4>2, <4>4 DEF Vets
      <4>6. IsClean(row)
        BY <1>5, <2>2, <4>2, <4>5, ObeyingIsClean
      <4>7. QED
        BY <4>1, <4>2, <4>3, <4>5, <4>6
    <3>3. QED
      BY <3>1, <3>2
  <2>13. ASSUME SameFile(b), NEW F \in dropped[b] PROVE Keeps(b, F, pc)
    <3>1. Copies(b, F) /\ First(b, F) /\ F \in Seq(Record) /\ Vets(intake[e], F)
      BY <1>1, <2>13 DEF IntakeInv, OneFile, IntakeTyped
    <3>2. Copies(b, F)'
      BY <2>4, <2>9, <3>1 DEF Copies, RowsOf
    <3>3. First(b, F)'
      BY <1>1, <2>4, <2>11, <3>1, FirstStays
    <3>4. IsNumbered(F) => GatePasses(F, {})
      BY <1>1, <3>1 DEF Vets
    <3>5. QED
      BY <3>2, <3>3, <3>4 DEF Keeps
  <2>14. ASSUME NEW id \in DOMAIN raw', raw'[id].batch = b PROVE OwedTo(id)'
    <3>1. /\ id \in DOMAIN raw /\ raw[id].batch = b /\ raw'[id].batch = raw[id].batch
          /\ raw'[id].record = raw[id].record /\ raw'[id].verdict = raw[id].verdict
          /\ raw'[id].batch_status # "none"
      BY <2>4, <2>9, <2>14
    <3>2. ASSUME raw'[id].verdict = "none" PROVE \E f \in Intakes : Stamps(intake[f], id)'
      <4>1. PICK f \in Intakes : Stamps(intake[f], id)
        BY <3>1, <3>2 DEF IntakeInv, Owed, OwedTo
      <4>2. f # e
        BY <1>1, <4>1 DEF Stamps
      <4>3. QED
        BY <1>1, <2>3, <3>1, <4>1, <4>2, OthersOwe
    <3>3. ASSUME Missing(id)' PROVE \E f \in Intakes : Carries(intake[f], id)'
      <4>1. Missing(id)
        BY <2>8, <3>1, <3>3 DEF Missing
      <4>2. PICK f \in Intakes : Carries(intake[f], id)
        BY <3>1, <4>1 DEF IntakeInv, Owed, OwedTo
      <4>3. f # e
        <5>1. SUFFICES ASSUME f = e PROVE FALSE
          OBVIOUS
        <5>2. id \in DOMAIN rows /\ rows[id] = raw[id].record
          BY <1>1, <1>2, <4>2, <5>1 DEF Carries
        <5>3. raw'[id].record.grant_no \in DOMAIN curated'
          BY <2>2, <2>5, <3>1, <5>2
        <5>4. QED
          BY <3>3, <5>3 DEF Missing
      <4>4. QED
        BY <1>1, <2>3, <3>1, <4>2, <4>3, OthersOwe
    <3>4. QED
      BY <3>1, <3>2, <3>3 DEF OwedTo
  <2>15. QED
    BY <1>1, <2>3, <2>4, <2>11, <2>12, <2>13, <2>14, TableTurn DEF Answered
<1>6. QED
  BY <1>4, <1>5

LEMMA RawRowIs ==
  ASSUME NEW b \in Batches, NEW k \in Nat \ {0}, NEW record \in Record,
         NEW row, row = RawRow(b, k, record)
  PROVE  /\ row \in RawRows /\ row.batch = b /\ row.row_index = k /\ row.record = record
         /\ row.verdict = "none"
BY DEF RawRow, RawRows

\* What the transaction of Fetch leaves in the table.
Wrote(b, file, updates, s, n) ==
  /\ raw' \in Seq(RawRows) /\ Len(raw') = Len(raw) + n
  /\ \A id \in DOMAIN raw :
       raw'[id] = IF id \in updates
                  THEN RawRow(b, raw[id].row_index, file[raw[id].row_index])
                  ELSE raw[id]
  /\ \A i \in 1 .. n : raw'[Len(raw) + i] = RawRow(b, s[i], file[s[i]])

LEMMA FetchWrites ==
  ASSUME IntakeTyped, NEW e \in Intakes, Sound(intake[e]), CommitFetch(e),
         NEW b \in Batches, b = intake[e].batch, NEW file \in Seq(Record), file = intake[e].file,
         NEW updates, updates = intake[e].updates, NEW inserts, inserts = intake[e].inserts
  PROVE  \E s \in Ordered(inserts), n \in Nat :
           n = Cardinality(inserts) /\ Wrote(b, file, updates, s, n)
<1>1. /\ Len(file) \in Nat /\ DOMAIN file = 1 .. Len(file)
      /\ \A k \in 1 .. Len(file) : file[k] \in Record
  BY LenProperties, ElementOfSeq
<1>2. 1 .. Len(file) = inserts \union {raw[id].row_index : id \in updates}
  <2>1. /\ intake[e].next \in Nat /\ intake[e].next > Len(file) /\ intake[e].next <= Len(file) + 1
        /\ 1 .. intake[e].next - 1 = inserts \union {raw[id].row_index : id \in updates}
    BY DEF CommitFetch, Sound, IntakeTyped, IntakeRecord
  <2>2. PICK next \in Nat : next = intake[e].next
    BY <2>1
  <2>3. next > Len(file) /\ next <= Len(file) + 1
    BY <2>1, <2>2
  <2>4. next - 1 = Len(file)
    BY <1>1, <2>3
  <2>5. QED
    BY <2>1, <2>2, <2>4
<1>3. Cardinality(inserts) \in Nat
  <2>1. inserts \subseteq 1 .. Len(file)
    BY <1>2
  <2>2. IsFiniteSet(1 .. Len(file))
    BY <1>1, FS_Interval
  <2>3. QED
    BY <2>1, <2>2, FS_Subset, FS_CardinalityType
<1>4. PICK n \in Nat : n = Cardinality(inserts)
  BY <1>3
<1> DEFINE x == intake[e]
           Old == [id \in DOMAIN raw |->
                     IF id \in x.updates
                     THEN RawRow(x.batch, raw[id].row_index, x.file[raw[id].row_index])
                     ELSE raw[id]]
<1>5. PICK s \in Ordered(intake[e].inserts) :
        raw' = Old \o [i \in DOMAIN s |-> RawRow(x.batch, s[i], x.file[s[i]])]
  BY Zenon DEF CommitFetch
<1>6. s \in Ordered(inserts) /\ s \in [1 .. n -> inserts]
  BY <1>4 DEF Ordered
<1> DEFINE Added == [i \in DOMAIN s |-> RawRow(x.batch, s[i], x.file[s[i]])]
<1>7. Old \in Seq(RawRows) /\ Len(Old) = Len(raw)
  <2>1. ASSUME NEW id \in DOMAIN raw PROVE Old[id] \in RawRows
    <3>1. CASE id \in updates
      <4>1. raw[id].row_index \in 1 .. Len(file)
        BY <1>2, <3>1
      <4>2. PICK k \in Nat \ {0} : k = raw[id].row_index
        BY <4>1
      <4>3. PICK record \in Record : record = file[k]
        BY <1>1, <4>1, <4>2
      <4>4. Old[id] = RawRow(b, k, record)
        BY <3>1, <4>2, <4>3
      <4>5. QED
        BY <4>4, RawRowIs
    <3>2. CASE id \notin updates
      BY <3>2, RowsAre
    <3>3. QED
      BY <3>1, <3>2
  <2>2. DOMAIN Old = 1 .. Len(raw) /\ Len(raw) \in Nat
    BY RowsAre
  <2> HIDE DEF Old
  <2>3. Old \in [1 .. Len(raw) -> RawRows]
    <3>1. Old = [id \in DOMAIN raw |-> Old[id]]
      BY DEF Old
    <3>2. QED
      BY <2>1, <2>2, <3>1, RowsAre
  <2>4. QED
    BY <2>2, <2>3, LenProperties DEF Seq
<1>8. Added \in Seq(RawRows) /\ Len(Added) = n
  <2>1. ASSUME NEW i \in 1 .. n PROVE RawRow(b, s[i], file[s[i]]) \in RawRows
    <3>1. s[i] \in 1 .. Len(file)
      BY <1>2, <1>6
    <3>2. PICK k \in Nat \ {0} : k = s[i]
      BY <3>1
    <3>3. PICK record \in Record : record = file[k]
      BY <1>1, <3>1, <3>2
    <3>4. QED
      BY <3>2, <3>3, RawRowIs
  <2>2. Added \in [1 .. n -> RawRows]
    BY <1>6, <2>1
  <2> HIDE DEF Added
  <2>3. QED
    BY <2>2, LenProperties DEF Seq
<1>9. /\ raw' \in Seq(RawRows) /\ Len(raw') = Len(raw) + n
      /\ \A id \in DOMAIN raw : raw'[id] = Old[id]
      /\ \A i \in 1 .. n : raw'[Len(raw) + i] = Added[i]
  <2>1. raw' = Old \o Added
    BY <1>5
  <2>2. Len(raw) \in Nat /\ DOMAIN raw = 1 .. Len(raw)
    BY RowsAre
  <2> HIDE DEF Old, Added
  <2>3. /\ raw' \in Seq(RawRows) /\ Len(raw') = Len(raw) + n
        /\ \A i \in 1 .. Len(raw) + n :
             raw'[i] = IF i <= Len(raw) THEN Old[i] ELSE Added[i - Len(raw)]
    <3>1. /\ Old \o Added \in Seq(RawRows) /\ Len(Old \o Added) = Len(Old) + Len(Added)
          /\ \A i \in 1 .. Len(Old) + Len(Added) :
               (Old \o Added)[i] = IF i <= Len(Old) THEN Old[i] ELSE Added[i - Len(Old)]
      BY <1>7, <1>8, ConcatProperties
    <3>2. QED
      BY <1>7, <1>8, <2>1, <3>1
  <2>4. \A i \in 1 .. n : raw'[Len(raw) + i] = Added[i]
    <3>1. ASSUME NEW i \in 1 .. n PROVE raw'[Len(raw) + i] = Added[i]
      <4>1. Len(raw) + i \in 1 .. Len(raw) + n /\ ~(Len(raw) + i <= Len(raw)) /\ (Len(raw) + i) - Len(raw) = i
        BY <2>2
      <4>2. QED
        BY <2>3, <4>1
    <3>2. QED
      BY <3>1
  <2>5. QED
    BY <2>2, <2>3, <2>4
<1>10. \A i \in 1 .. n : raw'[Len(raw) + i] = RawRow(b, s[i], file[s[i]])
  BY <1>6, <1>9
<1>11. \A id \in DOMAIN raw :
         raw'[id] = IF id \in updates
                    THEN RawRow(b, raw[id].row_index, file[raw[id].row_index])
                    ELSE raw[id]
  BY <1>9
<1> HIDE DEF Old, Added
<1>12. Wrote(b, file, updates, s, n)
  BY <1>9, <1>10, <1>11 DEF Wrote
<1>13. QED
  BY <1>4, <1>6, <1>12

\* The first Fetch that commits inserts the records in the order of the file.
LEMMA FirstCommit ==
  ASSUME NEW b, NEW file \in Seq(Record), NEW n \in Nat, NEW s \in Ordered(1 .. Len(file)),
         n = Cardinality(1 .. Len(file)), NEW m \in Nat,
         RowsOf(b)' = m + 1 .. m + n, \A i \in 1 .. n : raw'[m + i].row_index = s[i]
  PROVE  First(b, file)'
<1> DEFINE Place(k) == CHOOSE i \in 1 .. n : s[i] = k
           f == [k \in 1 .. Len(file) |-> m + Place(k)]
<1>1. /\ s \in [1 .. n -> 1 .. Len(file)]
      /\ \A i, j \in 1 .. n : i < j => s[i] < s[j]
      /\ \A k \in 1 .. Len(file) : \E i \in 1 .. n : s[i] = k
  BY DEF Ordered
<1>2. Len(file) \in Nat /\ DOMAIN file = 1 .. Len(file)
  BY LenProperties
<1>3. ASSUME NEW k \in 1 .. Len(file) PROVE Place(k) \in 1 .. n /\ s[Place(k)] = k
  BY <1>1
<1> HIDE DEF Place
<1>4. ASSUME NEW i \in 1 .. n PROVE Place(s[i]) = i
  <2>1. PICK j \in 1 .. n : j = Place(s[i]) /\ s[j] = s[i]
    BY <1>1, <1>3
  <2>2. PICK v \in Nat : v = s[i] /\ v = s[j]
    BY <1>1, <1>2, <2>1
  <2>3. ASSUME i < j PROVE FALSE
    <3>1. s[i] < s[j]
      BY <1>1, <2>3
    <3>2. QED
      BY <2>2, <3>1
  <2>4. ASSUME j < i PROVE FALSE
    <3>1. s[j] < s[i]
      BY <1>1, <2>4
    <3>2. QED
      BY <2>2, <3>1
  <2>5. QED
    BY <2>1, <2>3, <2>4
<1>5. ASSUME NEW i \in 1 .. Len(file), NEW j \in 1 .. Len(file), i < j PROVE Place(i) < Place(j)
  <2>1. PICK p \in 1 .. n, q \in 1 .. n : p = Place(i) /\ q = Place(j) /\ s[p] = i /\ s[q] = j
    BY <1>3
  <2>2. i \in Nat /\ j \in Nat
    BY <1>2
  <2>3. ~(q < p)
    BY <1>1, <1>5, <2>1, <2>2
  <2>4. q # p
    BY <1>5, <2>1, <2>2
  <2>5. QED
    BY <2>1, <2>3, <2>4
<1>6. \A k \in 1 .. Len(file) : f[k] = m + Place(k) /\ f[k] \in RowsOf(b)' /\ raw'[f[k]].row_index = k
  BY <1>3
<1>7. ASSUME NEW id \in RowsOf(b)' PROVE f[raw'[id].row_index] <= id
  <2>1. PICK i \in 1 .. n : id = m + i
    <3>1. id - m \in 1 .. n /\ id = m + (id - m)
      OBVIOUS
    <3>2. QED
      BY <3>1
  <2>2. raw'[id].row_index = s[i] /\ s[i] \in 1 .. Len(file)
    BY <1>1, <2>1
  <2>3. QED
    BY <1>4, <1>6, <2>1, <2>2
<1>8. f \in [DOMAIN file -> RowsOf(b)'] /\ \A i, j \in DOMAIN file : i < j => f[i] < f[j]
  <2>1. f \in [DOMAIN file -> RowsOf(b)']
    BY <1>2, <1>6
  <2>2. ASSUME NEW i \in 1 .. Len(file), NEW j \in 1 .. Len(file), i < j PROVE f[i] < f[j]
    <3>1. Place(i) \in Nat /\ Place(j) \in Nat
      BY <1>3
    <3>2. QED
      BY <1>5, <1>6, <2>2, <3>1
  <2>3. QED
    BY <1>2, <2>1, <2>2
<1> HIDE DEF f
<1>9. QED
  BY <1>2, <1>6, <1>7, <1>8 DEF First

LEMMA CommitStep == ASSUME IntakeInv, NEW e \in Intakes, CommitFetch(e) PROVE IntakeInv'
<1>0. intake[e].pc = "rows"
  BY DEF CommitFetch
<1>1. PICK b \in Batches :
        /\ intake[e].pc = "rows" /\ b = intake[e].batch /\ dropped[b] # {} /\ IntakeTyped
        /\ Sound(intake[e])
  BY <1>0 DEF IntakeInv, Sound
<1>2. PICK file \in Seq(Record) : file = intake[e].file /\ file \in dropped[b]
  BY <1>1 DEF Sound, IntakeTyped, IntakeRecord
<1>3. PICK updates, inserts : updates = intake[e].updates /\ inserts = intake[e].inserts
  OBVIOUS
<1>4. PICK s \in Ordered(inserts), n \in Nat :
        n = Cardinality(inserts) /\ Wrote(b, file, updates, s, n)
  BY <1>1, <1>2, <1>3, FetchWrites
<1>5. PICK pc \in {"validate", "fetch", "failed"} : Goto(e, pc) /\ losses' \in 0 .. MaxLosses
  BY AnswerIs DEF CommitFetch
<1>6. UNCHANGED <<objects, dropped, curated>>
  BY DEF CommitFetch
<1>7. PICK m \in Nat : m = Len(raw) /\ DOMAIN raw = 1 .. m /\ DOMAIN raw' = 1 .. m + n
  <2>1. Len(raw) \in Nat /\ DOMAIN raw = 1 .. Len(raw)
    BY <1>1, RowsAre
  <2>2. raw' \in Seq(RawRows) /\ Len(raw') = Len(raw) + n
    BY <1>4 DEF Wrote
  <2>3. DOMAIN raw' = 1 .. Len(raw')
    BY <2>2, LenProperties
  <2>4. PICK m \in Nat : m = Len(raw)
    BY <2>1
  <2>5. DOMAIN raw = 1 .. m /\ DOMAIN raw' = 1 .. m + n
    BY <2>1, <2>2, <2>3, <2>4
  <2>6. QED
    BY <2>4, <2>5
<1>8. /\ Len(file) \in Nat /\ DOMAIN file = 1 .. Len(file)
      /\ \A k \in 1 .. Len(file) : file[k] \in Record
  BY LenProperties, ElementOfSeq
<1>9. updates \subseteq RowsOf(b) /\ 1 .. Len(file) = inserts \union {raw[id].row_index : id \in updates}
  <2>1. PICK next \in Nat : next = intake[e].next
    BY <1>1 DEF IntakeTyped, IntakeRecord
  <2>2. next > Len(file) /\ next <= Len(file) + 1
    BY <1>1, <1>2, <2>1 DEF CommitFetch, Sound
  <2>3. next - 1 = Len(file)
    BY <1>8, <2>2
  <2>4. QED
    BY <1>1, <1>3, <2>1, <2>3 DEF Sound
<1>10. s \in [1 .. n -> inserts]
  BY <1>4 DEF Ordered
<1>11. ASSUME NEW id \in updates
       PROVE  /\ raw'[id].batch = b /\ raw'[id].row_index = raw[id].row_index
              /\ raw'[id].row_index \in 1 .. Len(file) /\ raw'[id].record = file[raw'[id].row_index]
              /\ raw'[id].verdict = "none"
  <2>1. raw[id].row_index \in 1 .. Len(file) /\ id \in DOMAIN raw
    BY <1>9 DEF RowsOf
  <2>2. PICK k \in Nat \ {0} : k = raw[id].row_index
    BY <2>1
  <2>3. PICK record \in Record : record = file[k]
    BY <1>8, <2>1, <2>2
  <2>4. PICK row : row = RawRow(b, k, record)
    OBVIOUS
  <2>5. raw'[id] = row
    BY <1>4, <2>1, <2>2, <2>3, <2>4 DEF Wrote
  <2>6. QED
    BY <2>1, <2>2, <2>3, <2>4, <2>5, RawRowIs
<1>12. ASSUME NEW i \in 1 .. n
       PROVE  /\ raw'[m + i].batch = b /\ raw'[m + i].row_index = s[i]
              /\ raw'[m + i].row_index \in 1 .. Len(file)
              /\ raw'[m + i].record = file[raw'[m + i].row_index]
              /\ raw'[m + i].verdict = "none"
  <2>1. s[i] \in 1 .. Len(file)
    BY <1>9, <1>10
  <2>2. PICK k \in Nat \ {0} : k = s[i]
    BY <2>1
  <2>3. PICK record \in Record : record = file[k]
    BY <1>8, <2>1, <2>2
  <2>4. PICK row : row = RawRow(b, k, record)
    OBVIOUS
  <2>5. raw'[m + i] = row
    BY <1>4, <1>7, <2>2, <2>3, <2>4 DEF Wrote
  <2>6. QED
    BY <2>1, <2>2, <2>3, <2>4, <2>5, RawRowIs
<1>13. \A id \in DOMAIN raw' \ DOMAIN raw : \E i \in 1 .. n : id = m + i
  <2>1. ASSUME NEW id \in DOMAIN raw' \ DOMAIN raw PROVE \E i \in 1 .. n : id = m + i
    <3>1. id - m \in 1 .. n /\ id = m + (id - m)
      BY <1>7
    <3>2. QED
      BY <3>1
  <2>2. QED
    BY <2>1
<1>14. \A id \in DOMAIN raw' :
         \/ id \in DOMAIN raw /\ raw'[id] = raw[id]
         \/ /\ id \in updates \/ id \notin DOMAIN raw
            /\ raw'[id].batch = b /\ raw'[id].row_index \in 1 .. Len(file)
            /\ raw'[id].record = file[raw'[id].row_index] /\ raw'[id].verdict = "none"
  BY <1>4, <1>11, <1>12, <1>13 DEF Wrote
<1>15. TableGrows(b)
  <2>1. \A id \in DOMAIN raw :
          /\ raw'[id].batch = raw[id].batch /\ raw'[id].row_index = raw[id].row_index
          /\ raw[id].batch # b => raw'[id] = raw[id]
    BY <1>4, <1>9, <1>11 DEF RowsOf, Wrote
  <2>2. ASSUME NEW id \in DOMAIN raw' \ DOMAIN raw PROVE raw'[id].batch = b
    <3>1. PICK i \in 1 .. n : id = m + i
      BY <1>13
    <3>2. QED
      BY <1>12, <3>1
  <2>3. DOMAIN raw \subseteq DOMAIN raw'
    BY <1>7
  <2>4. QED
    BY <1>1, <1>4, <1>6, <2>1, <2>2, <2>3 DEF TableGrows, IntakeTyped, Wrote
<1>16. CuratedIsClean'
  BY <1>6 DEF IntakeInv, CuratedIsClean, SameFile
<1>17. ASSUME SameFile(b), NEW F \in dropped[b] PROVE Keeps(b, F, pc)
  <2>1. F = file /\ Copies(b, F) /\ First(b, F)
    BY <1>2, <1>17 DEF IntakeInv, OneFile, SameFile
  <2>2. Copies(b, F)'
    <3>1. ASSUME NEW id \in DOMAIN raw', raw'[id].batch = b
          PROVE  /\ raw'[id].row_index \in DOMAIN F /\ raw'[id].record = F[raw'[id].row_index]
                 /\ raw'[id].verdict = "passed" => Obeys(raw'[id].record)
      <4>1. CASE id \in DOMAIN raw /\ raw'[id] = raw[id]
        BY <2>1, <3>1, <4>1 DEF Copies, RowsOf
      <4>2. CASE ~(id \in DOMAIN raw /\ raw'[id] = raw[id])
        BY <1>8, <1>14, <2>1, <4>2
      <4>3. QED
        BY <4>1, <4>2
    <3>2. QED
      BY <3>1 DEF Copies, RowsOf
  <2>3. First(b, F)'
    <3>1. CASE RowsOf(b) # {}
      <4>1. \A id \in DOMAIN raw' \ DOMAIN raw : raw'[id].row_index \in DOMAIN F
        BY <1>8, <1>12, <1>13, <2>1
      <4>2. QED
        BY <1>1, <1>15, <2>1, <3>1, <4>1, FirstStays
    <3>2. CASE RowsOf(b) = {}
      <4>1. inserts = 1 .. Len(file)
        BY <1>9, <3>2
      <4>2. RowsOf(b)' = m + 1 .. m + n
        <5>1. \A id \in DOMAIN raw : raw'[id].batch # b
          BY <1>15, <3>2 DEF RowsOf, TableGrows
        <5>2. \A id \in m + 1 .. m + n : id \in DOMAIN raw' /\ id \notin DOMAIN raw
          BY <1>7
        <5>3. \A id \in DOMAIN raw' : id \notin DOMAIN raw => id \in m + 1 .. m + n
          BY <1>7
        <5>4. \A id \in DOMAIN raw' : id \notin DOMAIN raw => raw'[id].batch = b
          BY <1>15 DEF TableGrows
        <5>5. QED
          BY <5>1, <5>2, <5>3, <5>4 DEF RowsOf
      <4>3. s \in Ordered(1 .. Len(file)) /\ n = Cardinality(1 .. Len(file))
        BY <1>4, <4>1
      <4>4. \A i \in 1 .. n : raw'[m + i].row_index = s[i]
        BY <1>12
      <4>5. First(b, file)'
        BY <4>2, <4>3, <4>4, FirstCommit
      <4>6. QED
        BY <2>1, <4>5
    <3>3. QED
      BY <3>1, <3>2
  <2>4. QED
    BY <1>5, <2>2, <2>3 DEF Keeps
<1>18. ASSUME NEW id \in DOMAIN raw', raw'[id].batch = b PROVE OwedTo(id)'
  <2>1. PICK y : y = intake'[e]
    OBVIOUS
  <2>2. y.pc = pc /\ y.batch = b
    BY <1>1, <1>5, <2>1, StageIs DEF Goto, StagePcs, IntakeTyped
  <2>3. Stamps(intake[e], id)' /\ Marks(intake[e], id)' /\ Carries(intake[e], id)'
    BY <1>5, <1>18, <2>1, <2>2 DEF Stamps, Marks, Carries
  <2>4. QED
    BY <2>3 DEF OwedTo
<1>19. QED
  BY <1>1, <1>5, <1>6, <1>15, <1>16, <1>17, <1>18, TableTurn DEF Answered

-----------------------------------------------------------------------------
(* The theorems.                                                           *)

LEMMA IntakeSteps == IntakeInv /\ [IntakeNext]_intakeVars => IntakeInv'
<1> SUFFICES ASSUME IntakeInv, [IntakeNext]_intakeVars PROVE IntakeInv'
  OBVIOUS
<1>1. CASE UNCHANGED intakeVars
  <2> USE <1>1 DEF intakeVars
  <2>1. IntakeTyped' /\ Landed' /\ CuratedIsClean'
    BY DEF IntakeInv, IntakeTyped, Landed, CuratedIsClean, SameFile
  <2>2. \A e \in Intakes : Sound(intake[e])'
    BY DEF IntakeInv, Sound, RowsOf
  <2>3. OneFile'
    BY DEF IntakeInv, OneFile, SameFile, Copies, First, Vets, Weighs, RowsOf
  <2>4. Owed'
    BY DEF IntakeInv, Owed, OwedTo, Stamps, Marks, Carries, Missing
  <2>5. QED
    BY <2>1, <2>2, <2>3, <2>4 DEF IntakeInv
<1>2. ASSUME NEW e \in Intakes, NEW b \in Batches, NEW file \in Files(b), Drop(e, b, file)
      PROVE  IntakeInv'
  BY <1>2, DropStep
<1>3. ASSUME NEW e \in Intakes, ExecutionStep(e) PROVE IntakeInv'
  BY <1>3, ReadObjectStep, UpsertStep, CommitStep, LoadStep, EvaluateStep, StampStep,
     ReadPassingStep, CurateStep, HoldStep DEF ExecutionStep
<1>4. QED
  BY <1>1, <1>2, <1>3, SkipStep, DieStep DEF IntakeNext

\* The invariant holds of every state of every run.
THEOREM IntakeInvariance == IntakeSpec => []IntakeInv
BY IntakeStarts, IntakeSteps, PTL DEF IntakeSpec

\* A record is curated only under its own number, only if it is one of the file that was
\* dropped and clean, and, when the records of the file are numbered, only if the file
\* passes the gate; however many executions Fetch, Validate and Persist the same batch at
\* once (quality_gate/rules.py, evaluate_batch; intake/pipeline.py, _passing_rows).
THEOREM OnlyCleanIsCurated == IntakeSpec => []CuratedIsClean
<1>1. IntakeInv => CuratedIsClean
  BY DEF IntakeInv
<1>2. QED
  BY <1>1, IntakeInvariance, PTL

\* When all executions of a batch have ended without failing, no raw row is left without
\* a verdict or a batch status (intake/pipeline.py, _upsert_raw_rows, which wipes both;
\* quality_gate/app.py, _write_verdicts).
THEOREM NoRowIsLeftOpen == IntakeSpec => []EveryRowIsSettled
<1>1. IntakeInv => EveryRowIsSettled
  <2> SUFFICES ASSUME IntakeInv, NEW b \in Batches, Quiet(b), NEW id \in RowsOf(b)
               PROVE  raw[id].verdict # "none" /\ raw[id].batch_status # "none"
    BY DEF EveryRowIsSettled
  <2>1. OwedTo(id) /\ raw[id].batch = b
    BY DEF IntakeInv, Owed, RowsOf
  <2>2. ASSUME NEW e \in Intakes PROVE ~Stamps(intake[e], id) /\ ~Marks(intake[e], id)
    BY <2>1 DEF Quiet, Ended, Stamps, Marks
  <2>3. QED
    BY <2>1, <2>2 DEF OwedTo
<1>2. QED
  BY <1>1, IntakeInvariance, PTL

\* When all executions of a batch have ended in Curated, every row that bears the verdict
\* passed has its number among the curated (intake/pipeline.py, persist).
THEOREM NoPassedRowIsLost == IntakeSpec => []PassedRowsAreCurated
<1>1. IntakeInv => PassedRowsAreCurated
  <2> SUFFICES ASSUME IntakeInv, NEW b \in Batches, NEW id \in RowsOf(b),
                      \A e \in Intakes : intake[e].batch = b => intake[e].pc = "curated",
                      raw[id].verdict = "passed"
               PROVE  raw[id].record.grant_no \in DOMAIN curated
    BY DEF PassedRowsAreCurated
  <2>1. OwedTo(id) /\ raw[id].batch = b
    BY DEF IntakeInv, Owed, RowsOf
  <2>2. ASSUME NEW e \in Intakes PROVE ~Carries(intake[e], id)
    BY <2>1 DEF Carries
  <2>3. QED
    BY <2>1, <2>2 DEF OwedTo, Missing
<1>2. QED
  BY <1>1, IntakeInvariance, PTL

\* Every table and every execution holds what its columns and its stage allow.
THEOREM IntakeTypeCorrect == IntakeSpec => []IntakeTypeOK
<1>1. IntakeInv => IntakeTypeOK
  BY DEF IntakeInv, IntakeTyped, IntakeTypeOK, RawRows, CuratedRows, Sound
<1>2. QED
  BY <1>1, IntakeInvariance, PTL
=============================================================================
