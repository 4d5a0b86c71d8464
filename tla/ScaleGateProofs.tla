--------------------------- MODULE ScaleGateProofs ---------------------------
(***************************************************************************)
(* Theorems about ScaleGate, for any number of plans, keys and requests.   *)
(***************************************************************************)
EXTENDS ScaleGate, TLAPS

-----------------------------------------------------------------------------
(* Type correctness.                                                       *)

LEMMA InitType == Init => TypeOK
<1> SUFFICES ASSUME Init PROVE TypeOK
  OBVIOUS
<1>1. NewPlan \in PlanRecord /\ NewRun \in RunRecord
  BY DEF NewPlan, NewRun, PlanRecord, RunRecord
<1>2. NewRequest \in RequestRecord /\ NewRequest.pc = "idle"
  BY DEF NewRequest, RequestRecord, RequestPcs
<1>3. QED
  BY <1>1, <1>2 DEF Init, TypeOK

RequestsType ==
    /\ requests \in [Requests -> RequestRecord]
    /\ \A r \in Requests : requests[r].pc # "idle" =>
          requests[r].key \in Keys /\ requests[r].plan \in Plans

LEMMA GotoType ==
    ASSUME RequestsType, NEW r \in Requests, NEW pc \in RequestPcs, Goto(r, pc),
           requests[r].pc # "idle"
    PROVE  RequestsType'
BY DEF RequestsType, RequestRecord, Goto

LEMMA AnswerType ==
    ASSUME RequestsType, NEW r \in Requests, NEW run \in Requests \cup {NoRun}, Answer(r, run),
           requests[r].pc # "idle"
    PROVE  RequestsType'
BY DEF RequestsType, RequestRecord, RequestPcs, Answer

LEMMA ReleaseType ==
    ASSUME TypeOK, NEW r \in Requests, ReleaseLock(r)
    PROVE  (lock \in Requests \cup {NoRun})' /\ faults' \in Nat
<1>1. CASE lock' = Released(r) /\ UNCHANGED faults
  BY <1>1 DEF TypeOK, Released
<1>2. CASE Fault /\ UNCHANGED lock
  BY <1>2 DEF TypeOK, Fault
<1>3. QED
  BY <1>1, <1>2 DEF ReleaseLock

LEMMA NextType == TypeOK /\ [Next]_vars => TypeOK'
<1> SUFFICES ASSUME TypeOK, [Next]_vars PROVE TypeOK'
  OBVIOUS
<1> USE DEF vars
<1>1. RequestsType
  BY DEF TypeOK, RequestsType
<1>2. ASSUME NEW p \in Plans, CreatePlan(p) PROVE TypeOK'
  <2>1. Capacity(p) \in BOOLEAN
    BY DEF TypeOK, Capacity
  <2>2. plans' \in [Plans -> PlanRecord]
    BY <1>2, <2>1 DEF TypeOK, CreatePlan, PlanRecord
  <2>3. QED
    BY <1>2, <2>2 DEF TypeOK, CreatePlan
<1>3. ASSUME NEW p \in Plans, PlanExpires(p) PROVE TypeOK'
  BY <1>3 DEF TypeOK, PlanExpires, PlanRecord
<1>4. CASE ProofExpires
  BY <1>4 DEF TypeOK, ProofExpires
<1>5. ASSUME NEW r \in Requests, NEW k \in Keys, NEW p \in Plans, LookUpKey(r, k, p)
      PROVE  TypeOK'
  <2>1. RequestsType'
    BY <1>1, <1>5 DEF TypeOK, RequestsType, LookUpKey, RequestRecord, RequestPcs
  <2>2. QED
    BY <1>5, <2>1 DEF TypeOK, LookUpKey, RequestsType
<1>6. ASSUME NEW r \in Requests, RequestStep(r) \/ StartFails(r) \/ RequestDies(r) PROVE TypeOK'
  <2> USE DEF RequestsType
  <2>1. CASE ReadPlan(r)
    <3>1. RequestsType'
      BY <1>1, <2>1, GotoType, AnswerType DEF ReadPlan, RequestPcs
    <3>2. QED
      BY <2>1, <3>1 DEF TypeOK, ReadPlan
  <2>2. CASE Gate(r)
    <3> DEFINE p == requests[r].plan
               k == requests[r].key
    <3>1. p \in Plans /\ k \in Keys
      BY <1>1, <2>2 DEF Gate
    <3>2. RequestsType'
      BY <1>1, <2>2, GotoType, AnswerType DEF Gate, RequestPcs
    <3>3. (plans \in [Plans -> PlanRecord])' /\ (idem \in [Keys -> Requests \cup {NoRun}])'
          /\ (lock \in Requests \cup {NoRun})'
      <4>1. \A x \in PlanRecord : [x EXCEPT !.run = r] \in PlanRecord
        BY DEF PlanRecord
      <4>2. UNCHANGED plans \/ plans' = [plans EXCEPT ![p] = [@ EXCEPT !.run = r]]
        BY <2>2 DEF Gate
      <4>3. (plans \in [Plans -> PlanRecord])'
        BY <3>1, <4>1, <4>2 DEF TypeOK
      <4>4. (idem \in [Keys -> Requests \cup {NoRun}])' /\ (lock \in Requests \cup {NoRun})'
        BY <2>2, <3>1 DEF TypeOK, Gate
      <4>5. QED
        BY <4>3, <4>4
    <3>4. (runs \in [Requests -> RunRecord])'
      <4>1. [status |-> "active", late |-> FALSE] \in RunRecord
        BY DEF RunRecord
      <4>2. \/ UNCHANGED runs
            \/ runs' = [runs EXCEPT ![r] = [status |-> "active", late |-> FALSE]]
        BY <2>2 DEF Gate
      <4>3. QED
        BY <4>1, <4>2 DEF TypeOK
    <3>5. QED
      BY <2>2, <3>2, <3>3, <3>4 DEF TypeOK, Gate
  <2>3. CASE StartExecution(r)
    <3>1. RequestsType'
      BY <1>1, <2>3, GotoType DEF StartExecution, RequestPcs
    <3>2. QED
      BY <2>3, <3>1 DEF TypeOK, StartExecution
  <2>4. CASE RecordStart(r)
    <3>1. RequestsType'
      BY <1>1, <2>4, AnswerType DEF RecordStart
    <3>2. QED
      BY <2>4, <3>1 DEF TypeOK, RecordStart
  <2>5. CASE RecordFailure(r)
    <3>1. RequestsType'
      BY <1>1, <2>5, GotoType DEF RecordFailure, RequestPcs
    <3>2. QED
      BY <2>5, <3>1 DEF TypeOK, RecordFailure, RunRecord
  <2>6. CASE RequestReleases(r)
    <3>1. RequestsType'
      BY <1>1, <2>6, AnswerType DEF RequestReleases
    <3>2. QED
      BY <2>6, <3>1, ReleaseType DEF TypeOK, RequestReleases
  <2>7. CASE StartFails(r)
    <3>1. RequestsType'
      BY <1>1, <2>7, GotoType DEF StartFails, RequestPcs
    <3>2. QED
      BY <2>7, <3>1 DEF TypeOK, StartFails, Fault
  <2>8. CASE RequestDies(r)
    <3>1. RequestsType'
      BY <1>1, <2>8, AnswerType DEF RequestDies
    <3>2. QED
      BY <2>8, <3>1 DEF TypeOK, RequestDies, Fault
  <2>9. QED
    BY <1>6, <2>1, <2>2, <2>3, <2>4, <2>5, <2>6, <2>7, <2>8 DEF RequestStep
<1>7. ASSUME NEW r \in Requests,
             WorkflowStep(r) \/ RunReopens(r) \/ WorkflowEnds(r) \/ WorkflowDies(r)
             \/ DeadlinePasses(r)
      PROVE  TypeOK'
  <2>1. CASE RunEnds(r)
    BY <2>1 DEF TypeOK, RunEnds, RunRecord
  <2>2. CASE RunReleases(r)
    BY <2>2, ReleaseType DEF TypeOK, RunReleases
  <2>3. CASE WriteProof(r)
    BY <2>3 DEF TypeOK, WriteProof
  <2>4. CASE RunReopens(r)
    BY <2>4 DEF TypeOK, RunReopens, RunRecord
  <2>5. CASE WorkflowEnds(r)
    BY <2>5 DEF TypeOK, WorkflowEnds
  <2>6. CASE WorkflowDies(r)
    BY <2>6 DEF TypeOK, WorkflowDies, Fault
  <2>7. CASE DeadlinePasses(r)
    BY <2>7 DEF TypeOK, DeadlinePasses, RunRecord
  <2>8. QED
    BY <1>7, <2>1, <2>2, <2>3, <2>4, <2>5, <2>6, <2>7 DEF WorkflowStep
<1>8. CASE UNCHANGED vars
  BY <1>8 DEF TypeOK
<1>9. QED
  BY <1>2, <1>3, <1>4, <1>5, <1>6, <1>7, <1>8 DEF Next

\* Every variable of the gate keeps its shape, whatever the sizes and bounds.
THEOREM TypeCorrect == Spec => []TypeOK
<1>1. Init => TypeOK
  BY InitType
<1>2. TypeOK /\ [Next]_vars => TypeOK'
  BY NextType
<1>3. QED
  BY <1>1, <1>2, PTL DEF Spec

-----------------------------------------------------------------------------
(* The gate launches once per plan and per key.                            *)

\* A run that was created is the one its plan and its key name, an answer is the run of
\* the key, and nothing happens to a run that was not created.
LaunchInv ==
    \A r \in Requests :
        /\ requests[r].pc \in {"idle", "plan", "gate"} => ~Created(r)
        /\ requests[r].pc \in {"start", "record", "failing", "releasing"} => Created(r)
        /\ workflows[r] # "none" => Created(r)
        /\ requests[r].pc = "start" => workflows[r] = "none"
        /\ Created(r) => /\ plans[requests[r].plan].run = r
                         /\ idem[requests[r].key] = r
        /\ requests[r].answer # NoRun => idem[requests[r].key] = requests[r].answer

LEMMA LaunchInit == Init => LaunchInv
BY DEF Init, LaunchInv, Created, NewRun, NewRequest

\* An answer without a run disturbs nothing.
LEMMA RefusalKeeps ==
    ASSUME TypeOK, LaunchInv, NEW r \in Requests, Answer(r, NoRun),
           UNCHANGED <<plans, idem, runs, workflows>>
    PROVE  LaunchInv'
<1>1. /\ requests'[r].pc = "answered" /\ requests'[r].answer = NoRun
      /\ requests'[r].key = requests[r].key /\ requests'[r].plan = requests[r].plan
      /\ \A s \in Requests \ {r} : requests'[s] = requests[s]
  BY DEF TypeOK, RequestRecord, Answer
<1>2. QED
  BY <1>1 DEF LaunchInv, Created

LEMMA LaunchNext == TypeOK /\ LaunchInv /\ [Next]_vars => LaunchInv'
<1> SUFFICES ASSUME TypeOK, LaunchInv, [Next]_vars PROVE LaunchInv'
  OBVIOUS
<1> USE DEF LaunchInv, Created, TypeOK, vars
<1>1. ASSUME NEW p \in Plans, CreatePlan(p) \/ PlanExpires(p) PROVE LaunchInv'
  <2>1. \A q \in Plans : plans'[q].run = plans[q].run
    <3>1. /\ \A c : [plans[p] EXCEPT !.offered = TRUE, !.allowed = c].run = plans[p].run
          /\ [plans[p] EXCEPT !.expired = TRUE].run = plans[p].run
      BY DEF PlanRecord
    <3>2. CASE CreatePlan(p)
      BY <3>1, <3>2 DEF CreatePlan
    <3>3. CASE PlanExpires(p)
      BY <3>1, <3>3 DEF PlanExpires
    <3>4. QED
      BY <1>1, <3>2, <3>3
  <2>2. UNCHANGED <<idem, runs, requests, workflows>>
    BY <1>1 DEF CreatePlan, PlanExpires
  <2>3. \A r \in Requests : Created(r) => requests[r].plan \in Plans
    OBVIOUS
  <2>4. QED
    BY <2>1, <2>2, <2>3
<1>2. ASSUME NEW r \in Requests, NEW k \in Keys, NEW p \in Plans, LookUpKey(r, k, p)
      PROVE  LaunchInv'
  BY <1>2 DEF LookUpKey, RequestRecord
<1>3. ASSUME NEW r \in Requests, Gate(r) PROVE LaunchInv'
  <2> DEFINE p == requests[r].plan
             k == requests[r].key
  <2>1. p \in Plans /\ k \in Keys /\ r # NoRun
    BY <1>3, ScaleGateAssumption DEF Gate, ScaleGateAssumption
  <2>2. CASE LockFree /\ Unconsumed(p) /\ KeyFree(k)
    <3>1. /\ plans' = [plans EXCEPT ![p] = [@ EXCEPT !.run = r]]
          /\ idem' = [idem EXCEPT ![k] = r]
          /\ runs' = [runs EXCEPT ![r] = [status |-> "active", late |-> FALSE]]
          /\ requests' = [requests EXCEPT ![r] = [@ EXCEPT !.pc = "start"]]
          /\ UNCHANGED workflows /\ plans[p].run = NoRun /\ idem[k] = NoRun
          /\ ~Created(r)
      BY <1>3, <2>2 DEF Gate, Goto, Unconsumed, KeyFree
    <3>2. plans'[p].run = r /\ \A q \in Plans \ {p} : plans'[q] = plans[q]
      BY <2>1, <3>1 DEF PlanRecord
    <3>3. idem'[k] = r /\ \A j \in Keys \ {k} : idem'[j] = idem[j]
      BY <2>1, <3>1
    <3>4. /\ requests'[r].pc = "start" /\ requests'[r].key = k /\ requests'[r].plan = p
          /\ requests'[r].answer = requests[r].answer
          /\ \A s \in Requests \ {r} : requests'[s] = requests[s] /\ runs'[s] = runs[s]
          /\ runs'[r].status = "active"
      BY <3>1 DEF RequestRecord
    <3>5. requests[r].answer = NoRun
      BY <3>1
    <3>6. ASSUME NEW s \in Requests \ {r}, Created(s)
          PROVE  requests[s].plan \in Plans \ {p} /\ requests[s].key \in Keys \ {k}
      BY <2>1, <3>1, <3>6, ScaleGateAssumption DEF ScaleGateAssumption
    <3>7. ASSUME NEW s \in Requests \ {r}, requests[s].answer # NoRun
          PROVE  requests[s].key # k
      BY <3>1, <3>7
    <3>8. ASSUME NEW s \in Requests \ {r}, requests[s].answer # NoRun
          PROVE  idem'[requests[s].key] = requests[s].answer
      <4>1. idem[requests[s].key] = requests[s].answer /\ requests[s].key # k
        BY <3>7, <3>8
      <4>2. QED
        BY <3>1, <4>1
    <3>9. QED
      BY <3>1, <3>2, <3>3, <3>4, <3>5, <3>6, <3>8
  <2>3. CASE ~(LockFree /\ Unconsumed(p) /\ KeyFree(k))
    <3>1. Answer(r, NoRun) /\ UNCHANGED <<plans, idem, runs, workflows>> /\ ~Created(r)
      BY <1>3, <2>3 DEF Gate
    <3>2. QED
      BY <3>1, RefusalKeeps
  <2>4. QED
    BY <2>2, <2>3
<1>4. ASSUME NEW r \in Requests,
             \/ ReadPlan(r) \/ StartExecution(r) \/ RecordStart(r)
             \/ RequestReleases(r) \/ StartFails(r) \/ RequestDies(r)
      PROVE  LaunchInv'
  <2>1. CASE ReadPlan(r)
    <3>1. CASE Answer(r, NoRun)
      BY <2>1, <3>1, RefusalKeeps DEF ReadPlan
    <3>2. CASE Goto(r, "gate")
      BY <2>1, <3>2 DEF ReadPlan, Goto, RequestRecord
    <3>3. QED
      BY <2>1, <3>1, <3>2 DEF ReadPlan
  <2>2. CASE StartExecution(r)
    BY <2>2 DEF StartExecution, Goto, RequestRecord
  <2>3. CASE RecordStart(r)
    BY <2>3 DEF RecordStart, Answer, RequestRecord
  <2>4. CASE RequestReleases(r)
    BY <2>4 DEF RequestReleases, Answer, RequestRecord
  <2>5. CASE StartFails(r)
    BY <2>5 DEF StartFails, Goto, RequestRecord
  <2>6. CASE RequestDies(r)
    BY <2>6 DEF RequestDies, Answer, RequestRecord
  <2>7. QED
    BY <1>4, <2>1, <2>2, <2>3, <2>4, <2>5, <2>6
<1>5. ASSUME NEW r \in Requests, RecordFailure(r) PROVE LaunchInv'
  BY <1>5 DEF RecordFailure, Goto, RequestRecord, RunRecord
<1>6. ASSUME NEW r \in Requests,
             RunEnds(r) \/ RunReopens(r) \/ DeadlinePasses(r)
      PROVE  LaunchInv'
  BY <1>6 DEF RunEnds, RunReopens, DeadlinePasses, RunRecord
<1>7. ASSUME NEW r \in Requests,
             RunReleases(r) \/ WriteProof(r) \/ WorkflowEnds(r) \/ WorkflowDies(r)
      PROVE  LaunchInv'
  BY <1>7 DEF RunReleases, WriteProof, WorkflowEnds, WorkflowDies
<1>8. CASE ProofExpires
  BY <1>8 DEF ProofExpires
<1>9. CASE UNCHANGED vars
  BY <1>9
<1>10. QED
  BY <1>1, <1>2, <1>3, <1>4, <1>5, <1>6, <1>7, <1>8, <1>9
     DEF Next, RequestStep, WorkflowStep

LEMMA LaunchCorrect == Spec => []LaunchInv
<1>1. Init => LaunchInv
  BY LaunchInit
<1>2. TypeOK /\ LaunchInv /\ [Next]_vars => LaunchInv'
  BY LaunchNext
<1>3. QED
  BY <1>1, <1>2, TypeCorrect, PTL DEF Spec

\* "One plan can launch at most one run", for any number of concurrent requests: the plan
\* names the only run that was created from it.
THEOREM PlanLaunchesOnce == Spec => []OneRunPerPlan
<1>1. LaunchInv => OneRunPerPlan
  BY DEF LaunchInv, OneRunPerPlan
<1>2. QED
  BY <1>1, LaunchCorrect, PTL

\* Requests with one idempotency key create one run and are answered with one run.
THEOREM KeyNamesOneRun == Spec => []RetriesAgree
<1>1. LaunchInv => RetriesAgree
  BY DEF LaunchInv, RetriesAgree
<1>2. QED
  BY <1>1, LaunchCorrect, PTL

-----------------------------------------------------------------------------
(* The lock, when a request that started its workflow also records it.     *)

\* The workflow of a run exists only from the start on and runs as long as the run is
\* active; an active run within its deadline holds the lock.
LockInv ==
    \A r \in Requests :
        /\ requests[r].pc \in {"idle", "plan", "gate", "start", "failing", "releasing"}
             => workflows[r] = "none"
        /\ requests[r].pc = "start" => Active(r)
        /\ requests[r].pc = "releasing" => ~Active(r)
        /\ workflows[r] = "running" => Active(r)
        /\ workflows[r] \in {"succeeded", "stopped"} => ~Active(r)
        /\ Active(r) /\ ~runs[r].late => lock = r

LEMMA LockInit == Init => LockInv
BY DEF Init, LockInv, Active, NewRun, NewRequest

\* A run that is not active may delete its lock.
LEMMA ReleaseKeeps ==
    ASSUME LockInv, NEW r \in Requests, ReleaseLock(r), ~Active(r), UNCHANGED runs
    PROVE  \A s \in Requests : (Active(s) /\ ~runs[s].late => lock = s)'
BY DEF LockInv, Active, ReleaseLock, Released

LEMMA LockNext ==
    ASSUME ~LostStart, TypeOK, LaunchInv, LockInv, [Next]_vars PROVE LockInv'
<1> USE DEF LockInv, Active, TypeOK, vars
<1>1. ASSUME NEW p \in Plans, CreatePlan(p) \/ PlanExpires(p) PROVE LockInv'
  BY <1>1 DEF CreatePlan, PlanExpires
<1>2. ASSUME NEW r \in Requests, NEW k \in Keys, NEW p \in Plans, LookUpKey(r, k, p)
      PROVE  LockInv'
  BY <1>2 DEF LookUpKey, RequestRecord
<1>3. ASSUME NEW r \in Requests, Gate(r) PROVE LockInv'
  <2>1. CASE LockFree /\ Unconsumed(requests[r].plan) /\ KeyFree(requests[r].key)
    <3>1. /\ lock' = r /\ requests' = [requests EXCEPT ![r] = [@ EXCEPT !.pc = "start"]]
          /\ runs' = [runs EXCEPT ![r] = [status |-> "active", late |-> FALSE]]
          /\ UNCHANGED workflows /\ workflows[r] = "none"
      BY <1>3, <2>1 DEF Gate, Goto
    <3>2. \A s \in Requests : Active(s) => runs[s].late
      BY <2>1, ScaleGateAssumption DEF LockFree, ScaleGateAssumption
    <3>3. QED
      BY <3>1, <3>2 DEF RequestRecord
  <2>2. CASE ~(LockFree /\ Unconsumed(requests[r].plan) /\ KeyFree(requests[r].key))
    <3>1. Answer(r, NoRun) /\ UNCHANGED <<lock, runs, workflows>>
      BY <1>3, <2>2 DEF Gate
    <3>2. QED
      BY <3>1 DEF Answer, RequestRecord
  <2>3. QED
    BY <2>1, <2>2
<1>4. ASSUME NEW r \in Requests, StartExecution(r) \/ RecordStart(r) \/ StartFails(r)
      PROVE  LockInv'
  <2>1. CASE StartExecution(r)
    BY <2>1 DEF StartExecution, Goto, RequestRecord
  <2>2. CASE RecordStart(r)
    BY <2>2 DEF RecordStart, Answer, RequestRecord
  <2>3. CASE StartFails(r)
    BY <2>3 DEF StartFails, Goto, RequestRecord
  <2>4. QED
    BY <1>4, <2>1, <2>2, <2>3
<1>5. ASSUME NEW r \in Requests, ReadPlan(r) \/ RequestDies(r) PROVE LockInv'
  <2>1. CASE Answer(r, NoRun) /\ UNCHANGED <<lock, runs, workflows>>
    BY <2>1 DEF Answer, RequestRecord
  <2>2. CASE Goto(r, "gate") /\ ReadPlan(r)
    BY <2>2 DEF ReadPlan, Goto, RequestRecord
  <2>3. QED
    BY <1>5, <2>1, <2>2 DEF ReadPlan, RequestDies
<1>6. ASSUME NEW r \in Requests, RecordFailure(r) PROVE LockInv'
  BY <1>6 DEF RecordFailure, Goto, RequestRecord, RunRecord
<1>7. ASSUME NEW r \in Requests, RequestReleases(r) PROVE LockInv'
  BY <1>7, ReleaseKeeps DEF RequestReleases, Answer, RequestRecord
<1>8. ASSUME NEW r \in Requests, RunReleases(r) PROVE LockInv'
  BY <1>8, ReleaseKeeps DEF RunReleases
<1>9. ASSUME NEW r \in Requests, RunEnds(r) \/ RunReopens(r) \/ DeadlinePasses(r)
      PROVE  LockInv'
  <2>1. CASE RunEnds(r)
    BY <2>1 DEF RunEnds, RunRecord
  <2>2. CASE RunReopens(r)
    BY <2>2 DEF RunReopens
  <2>3. CASE DeadlinePasses(r)
    BY <2>3 DEF DeadlinePasses, RunRecord
  <2>4. QED
    BY <1>9, <2>1, <2>2, <2>3
<1>10. ASSUME NEW r \in Requests, WriteProof(r) \/ WorkflowEnds(r) \/ WorkflowDies(r)
       PROVE  LockInv'
  BY <1>10 DEF WriteProof, WorkflowEnds, WorkflowDies
<1>11. CASE ProofExpires
  BY <1>11 DEF ProofExpires
<1>12. CASE UNCHANGED vars
  BY <1>12
<1>13. QED
  BY <1>1, <1>2, <1>3, <1>4, <1>5, <1>6, <1>7, <1>8, <1>9, <1>10, <1>11, <1>12
     DEF Next, RequestStep, WorkflowStep

LEMMA LockCorrect == ASSUME ~LostStart PROVE Spec => []LockInv
<1>1. Init => LockInv
  BY LockInit
<1>2. TypeOK /\ LaunchInv /\ LockInv /\ [Next]_vars => LockInv'
  BY LockNext
<1>3. QED
  BY <1>1, <1>2, TypeCorrect, LaunchCorrect, PTL DEF Spec

\* Until its deadline an active run owns the lock, against any number of requests and of
\* late releases by older runs.
THEOREM ActiveRunHoldsLock == ASSUME ~LostStart PROVE Spec => []ActiveHoldsLock
<1>1. LockInv => ActiveHoldsLock
  BY DEF LockInv, ActiveHoldsLock
<1>2. QED
  BY <1>1, LockCorrect, PTL

\* Two runs are active together only past the deadline of one.
THEOREM RunsOverlapOnlyLate == ASSUME ~LostStart PROVE Spec => []OverlapOnlyLate
<1>1. LockInv => OverlapOnlyLate
  BY DEF LockInv, OverlapOnlyLate
<1>2. QED
  BY <1>1, LockCorrect, PTL

-----------------------------------------------------------------------------
(* The capacity proof.                                                     *)

LEMMA GotoPc ==
    ASSUME TypeOK, NEW r \in Requests, NEW pc, Goto(r, pc)
    PROVE  requests'[r].pc = pc /\ \A s \in Requests \ {r} : requests'[s] = requests[s]
BY DEF TypeOK, RequestRecord, Goto

LEMMA AnswerPc ==
    ASSUME TypeOK, NEW r \in Requests, NEW x, Answer(r, x)
    PROVE  /\ requests'[r].pc = "answered"
           /\ \A s \in Requests \ {r} : requests'[s] = requests[s]
BY DEF TypeOK, RequestRecord, Answer

\* Only the transaction of the gate creates a run.
LEMMA OnlyGateCreates ==
    ASSUME TypeOK, LaunchInv, [Next]_vars, NEW r \in Requests, ~Created(r), Created(r)'
    PROVE  Gate(r)
<1> USE DEF Created, TypeOK
<1>1. ~UNCHANGED runs
  OBVIOUS
<1>2. PICK s \in Requests : \/ Gate(s) \/ RecordFailure(s) \/ RunEnds(s) \/ RunReopens(s)
                            \/ DeadlinePasses(s)
  BY <1>1 DEF vars, Next, CreatePlan, PlanExpires, ProofExpires, LookUpKey, RequestStep, ReadPlan,
              StartExecution, RecordStart, RequestReleases, StartFails, RequestDies, WorkflowStep,
              RunReleases, WriteProof, WorkflowEnds, WorkflowDies
<1>3. s = r
  BY <1>2 DEF Gate, RecordFailure, RunEnds, RunReopens, DeadlinePasses
<1>4. QED
  BY <1>2, <1>3 DEF LaunchInv, RecordFailure, RunEnds, RunReopens, DeadlinePasses

\* A request keeps its plan once it has read one.
LEMMA PlanKept ==
    ASSUME TypeOK, [Next]_vars, NEW r \in Requests, requests[r].pc # "idle"
    PROVE  requests'[r].plan = requests[r].plan
<1> USE DEF TypeOK, RequestRecord
<1>1. ASSUME NEW s \in Requests, NEW k \in Keys, NEW p \in Plans, LookUpKey(s, k, p)
      PROVE  requests'[r].plan = requests[r].plan
  BY <1>1 DEF LookUpKey
<1>2. ASSUME NEW s \in Requests, NEW pc, Goto(s, pc) PROVE requests'[r].plan = requests[r].plan
  BY <1>2 DEF Goto
<1>3. ASSUME NEW s \in Requests, NEW x, Answer(s, x) PROVE requests'[r].plan = requests[r].plan
  BY <1>3 DEF Answer
<1>4. ASSUME NEW s \in Requests, RequestStep(s) \/ StartFails(s) \/ RequestDies(s)
      PROVE  requests'[r].plan = requests[r].plan
  <2>1. (\E pc : Goto(s, pc)) \/ (\E x : Answer(s, x))
    BY <1>4 DEF RequestStep, ReadPlan, Gate, StartExecution, RecordStart, RecordFailure,
                RequestReleases, StartFails, RequestDies
  <2>2. QED
    BY <1>2, <1>3, <2>1
<1>5. ASSUME NEW s \in Requests,
             \/ WorkflowStep(s) \/ RunReopens(s) \/ WorkflowEnds(s) \/ WorkflowDies(s)
             \/ DeadlinePasses(s)
      PROVE  UNCHANGED requests
  BY <1>5 DEF WorkflowStep, RunEnds, RunReleases, WriteProof, RunReopens, WorkflowEnds,
              WorkflowDies, DeadlinePasses
<1>6. QED
  BY <1>1, <1>4, <1>5 DEF vars, Next, CreatePlan, PlanExpires, ProofExpires

\* A workflow that wrote the proof takes no further step.
LEMMA ProvedStays ==
    ASSUME TypeOK, LaunchInv, [Next]_vars, NEW r \in Requests, workflows[r] = "proved"
    PROVE  workflows'[r] = "proved"
<1> USE DEF TypeOK
<1>1. ASSUME NEW s \in Requests, StartExecution(s) PROVE workflows'[r] = "proved"
  BY <1>1 DEF StartExecution, LaunchInv
<1>2. ASSUME NEW s \in Requests,
             \/ WorkflowStep(s) \/ RunReopens(s) \/ WorkflowEnds(s) \/ WorkflowDies(s)
             \/ DeadlinePasses(s)
      PROVE  workflows'[r] = "proved"
  <2>1. CASE workflows[s] = "proved"
    BY <1>2, <2>1 DEF WorkflowStep, RunEnds, RunReleases, WriteProof, RunReopens, WorkflowEnds,
                      WorkflowDies, DeadlinePasses
  <2>2. CASE s # r
    <3>1. CASE RunEnds(s) \/ RunReopens(s) \/ WorkflowEnds(s) \/ DeadlinePasses(s)
      BY <2>2, <3>1 DEF RunEnds, RunReopens, WorkflowEnds, DeadlinePasses
    <3>2. CASE RunReleases(s) \/ WriteProof(s) \/ WorkflowDies(s)
      BY <2>2, <3>2 DEF RunReleases, WriteProof, WorkflowDies
    <3>3. QED
      BY <1>2, <3>1, <3>2 DEF WorkflowStep
  <2>3. QED
    BY <2>1, <2>2
<1>3. QED
  BY <1>1, <1>2 DEF vars, Next, CreatePlan, PlanExpires, ProofExpires, LookUpKey, RequestStep,
     ReadPlan, Gate, RecordStart, RecordFailure, RequestReleases, StartFails, RequestDies

LEMMA ProvenStays == ASSUME TypeOK, LaunchInv, [Next]_vars, Proven PROVE Proven'
<1>1. PICK s \in Requests : RunProfile(s, Proving) /\ workflows[s] = "proved"
  BY DEF Proven
<1>2. workflows'[s] = "proved"
  BY <1>1, ProvedStays
<1>3. requests[s].pc # "idle"
  BY <1>1 DEF LaunchInv
<1>4. requests'[s].plan = requests[s].plan
  BY <1>3, PlanKept
<1>5. QED
  BY <1>1, <1>2, <1>4 DEF Proven, RunProfile

\* The proof, a plan of profile 1m that may be launched, and a run of profile 1m all mean
\* that some 100k run has written the proof.
ProofInv ==
    /\ proof => Proven
    /\ \A p \in Big : plans[p].allowed => Proven
    /\ \A r \in Requests : requests[r].pc = "gate" =>
          plans[requests[r].plan].offered /\ plans[requests[r].plan].allowed
    /\ \A r \in Requests : workflows[r] = "proving" => RunProfile(r, Proving)
    /\ BigRunNeedsProof

LEMMA ProofInit == Init => ProofInv
BY ScaleGateAssumption DEF ScaleGateAssumption, Init, ProofInv, NewPlan, NewRequest, NewRun,
   BigRunNeedsProof, Created

\* Only WriteProof writes it, for a run of profile 100k.
LEMMA ProofHasRun ==
    ASSUME TypeOK, LaunchInv, ProofInv, [Next]_vars, proof' PROVE Proven'
<1>1. CASE proof
  BY <1>1, ProvenStays DEF ProofInv
<1>2. CASE ~proof
  <2>1. PICK r \in Requests : WriteProof(r)
    BY <1>2 DEF vars, Next, CreatePlan, PlanExpires, ProofExpires, LookUpKey, RequestStep,
       ReadPlan, Gate, StartExecution, RecordStart, RecordFailure, RequestReleases, StartFails,
       RequestDies, WorkflowStep, RunEnds, RunReleases, RunReopens, WorkflowEnds, WorkflowDies,
       DeadlinePasses
  <2>2. workflows'[r] = "proved" /\ RunProfile(r, Proving)'
    BY <2>1 DEF WriteProof, TypeOK, ProofInv, RunProfile
  <2>3. QED
    BY <2>2 DEF Proven
<1>3. QED
  BY <1>1, <1>2

\* A plan is allowed when it is made, by the proof of that moment.
LEMMA AllowedHasRun ==
    ASSUME TypeOK, LaunchInv, ProofInv, [Next]_vars, NEW p \in Big, plans'[p].allowed
    PROVE  Proven'
<1>1. p \in Plans
  BY ScaleGateAssumption DEF ScaleGateAssumption
<1>2. CASE plans[p].allowed
  BY <1>2, ProvenStays DEF ProofInv
<1>3. CASE ~plans[p].allowed
  <2>1. CASE CreatePlan(p)
    <3>1. proof
      BY <1>1, <2>1 DEF CreatePlan, Capacity, TypeOK, PlanRecord
    <3>2. QED
      BY <3>1, ProvenStays DEF ProofInv
  <2>2. CASE \E q \in Plans : PlanExpires(q)
    BY <1>1, <1>3, <2>2 DEF PlanExpires, TypeOK, PlanRecord
  <2>3. CASE \E r \in Requests : Gate(r)
    BY <1>1, <1>3, <2>3 DEF Gate, TypeOK, PlanRecord
  <2>4. CASE \E q \in Plans : q # p /\ CreatePlan(q)
    BY <1>1, <1>3, <2>4 DEF CreatePlan, TypeOK, PlanRecord
  <2>5. CASE UNCHANGED plans
    BY <1>3, <2>5
  <2>6. QED
    BY <2>1, <2>2, <2>3, <2>4, <2>5 DEF vars, Next, ProofExpires, LookUpKey, RequestStep,
       ReadPlan, StartExecution, RecordStart, RecordFailure, RequestReleases, StartFails,
       RequestDies, WorkflowStep, RunEnds, RunReleases, WriteProof, RunReopens, WorkflowEnds,
       WorkflowDies, DeadlinePasses
<1>4. QED
  BY <1>2, <1>3

\* A plan stays allowed.
LEMMA AllowedStays ==
    ASSUME TypeOK, [Next]_vars, NEW p \in Plans, plans[p].offered, plans[p].allowed
    PROVE  plans'[p].offered /\ plans'[p].allowed
<1> USE DEF TypeOK, PlanRecord
<1>1. ASSUME NEW q \in Plans, CreatePlan(q) \/ PlanExpires(q)
      PROVE  plans'[p].offered /\ plans'[p].allowed
  BY <1>1 DEF CreatePlan, PlanExpires
<1>2. ASSUME NEW r \in Requests, Gate(r) PROVE plans'[p].offered /\ plans'[p].allowed
  BY <1>2 DEF Gate
<1>3. QED
  BY <1>1, <1>2 DEF vars, Next, ProofExpires, LookUpKey, RequestStep,
       ReadPlan, StartExecution, RecordStart, RecordFailure, RequestReleases, StartFails,
       RequestDies, WorkflowStep, RunEnds, RunReleases, WriteProof, RunReopens, WorkflowEnds,
       WorkflowDies, DeadlinePasses

LEMMA ProofNext == ASSUME TypeOK, LaunchInv, ProofInv, [Next]_vars PROVE ProofInv'
<1>1. (proof => Proven)' /\ (\A p \in Big : plans[p].allowed => Proven)'
  BY ProofHasRun, AllowedHasRun
<1>2. ASSUME NEW r \in Requests, requests'[r].pc = "gate"
      PROVE  plans'[requests'[r].plan].offered /\ plans'[requests'[r].plan].allowed
  <2>1. requests[r].pc = "gate" \/ (ReadPlan(r) /\ Launchable(requests[r].plan))
    <3>1. ASSUME NEW s \in Requests, NEW pc, pc # "gate", Goto(s, pc) PROVE requests[r].pc = "gate"
      BY <1>2, <3>1, GotoPc
    <3>2. ASSUME NEW s \in Requests, NEW x, Answer(s, x) PROVE requests[r].pc = "gate"
      BY <1>2, <3>2, AnswerPc
    <3>3. ASSUME NEW s \in Requests, ReadPlan(s)
          PROVE  requests[r].pc = "gate" \/ (ReadPlan(r) /\ Launchable(requests[r].plan))
      <4>1. CASE Launchable(requests[s].plan)
        <5>1. Goto(s, "gate")
          BY <3>3, <4>1 DEF ReadPlan
        <5>2. \A t \in Requests \ {s} : requests'[t] = requests[t]
          BY <5>1, GotoPc
        <5>3. QED
          BY <1>2, <3>3, <4>1, <5>2
      <4>2. CASE ~Launchable(requests[s].plan)
        BY <3>2, <3>3, <4>2 DEF ReadPlan
      <4>3. QED
        BY <4>1, <4>2
    <3>4. ASSUME NEW s \in Requests, NEW k \in Keys, NEW p \in Plans, LookUpKey(s, k, p)
          PROVE  requests[r].pc = "gate"
      BY <1>2, <3>4 DEF LookUpKey, TypeOK, RequestRecord
    <3>5. \/ \E s \in Requests : ReadPlan(s) \/ \E k \in Keys, p \in Plans : LookUpKey(s, k, p)
          \/ \E s \in Requests : \E pc \in {"start", "record", "failing", "releasing"} : Goto(s, pc)
          \/ \E s \in Requests : \E x : Answer(s, x)
          \/ UNCHANGED requests
      BY DEF vars, Next, CreatePlan, PlanExpires, ProofExpires, RequestStep, Gate,
         StartExecution, RecordStart, RecordFailure, RequestReleases, StartFails, RequestDies,
         WorkflowStep, RunEnds, RunReleases, WriteProof, RunReopens, WorkflowEnds, WorkflowDies,
         DeadlinePasses
    <3>6. QED
      BY <1>2, <3>1, <3>2, <3>3, <3>4, <3>5
  <2>2. requests[r].pc # "idle" /\ requests[r].plan \in Plans
    BY <2>1 DEF ReadPlan, TypeOK
  <2>3. plans[requests[r].plan].offered /\ plans[requests[r].plan].allowed
    BY <2>1 DEF ProofInv, Launchable
  <2>4. QED
    BY <2>2, <2>3, PlanKept, AllowedStays
<1>3. ASSUME NEW r \in Requests, workflows'[r] = "proving" PROVE RunProfile(r, Proving)'
  <2>1. workflows[r] # "none" /\ RunProfile(r, Proving)
    <3>1. CASE workflows[r] = "proving"
      BY <3>1 DEF ProofInv
    <3>2. CASE workflows[r] # "proving"
      <4>1. PICK s \in Requests : RunReleases(s)
        BY <1>3, <3>2 DEF TypeOK, vars, Next, CreatePlan, PlanExpires, ProofExpires, LookUpKey,
           RequestStep, ReadPlan, Gate, StartExecution, RecordStart, RecordFailure,
           RequestReleases, StartFails, RequestDies, WorkflowStep, RunEnds, WriteProof,
           RunReopens, WorkflowEnds, WorkflowDies, DeadlinePasses
      <4>2. QED
        BY <1>3, <3>2, <4>1 DEF RunReleases, TypeOK
    <3>3. QED
      BY <3>1, <3>2
  <2>2. requests[r].pc # "idle"
    BY <2>1 DEF LaunchInv
  <2>3. QED
    BY <2>1, <2>2, PlanKept DEF RunProfile
<1>4. BigRunNeedsProof'
  <2> SUFFICES ASSUME NEW r \in Requests, Created(r)', RunProfile(r, Big)' PROVE Proven'
    BY DEF BigRunNeedsProof
  <2>1. CASE Created(r)
    <3>1. requests[r].pc # "idle"
      BY <2>1 DEF LaunchInv
    <3>2. RunProfile(r, Big)
      BY <3>1, PlanKept DEF RunProfile
    <3>3. QED
      BY <2>1, <3>2, ProvenStays DEF ProofInv, BigRunNeedsProof
  <2>2. CASE ~Created(r)
    <3>1. Gate(r)
      BY <2>2, OnlyGateCreates
    <3>2. requests[r].pc = "gate"
      BY <3>1 DEF Gate
    <3>3. RunProfile(r, Big)
      BY <3>2, PlanKept DEF RunProfile
    <3>4. QED
      BY <3>2, <3>3, ProvenStays DEF ProofInv, RunProfile
  <2>3. QED
    BY <2>1, <2>2
<1>5. QED
  BY <1>1, <1>2, <1>3, <1>4 DEF ProofInv

\* No run of profile 1m exists before a 100k run left its proof, for any number of plans
\* made before and after it, and however often the proof expires.
THEOREM BigRunsAreProven == Spec => []BigRunNeedsProof
<1>1. Init => ProofInv
  BY ProofInit
<1>2. TypeOK /\ LaunchInv /\ ProofInv /\ [Next]_vars => ProofInv'
  BY ProofNext
<1>3. ProofInv => BigRunNeedsProof
  BY DEF ProofInv
<1>4. QED
  BY <1>1, <1>2, <1>3, TypeCorrect, LaunchCorrect, PTL DEF Spec
=============================================================================
