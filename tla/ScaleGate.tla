------------------------------ MODULE ScaleGate ------------------------------
(***************************************************************************)
(* The Run Gate: plans, idempotency receipts, the lock of the one active   *)
(* run and the capacity proof, over several runs                           *)
(* (functions/scale_runs/app.py: _create_plan, _create_run, _fail_run,     *)
(* _release_lock).  What a run does between its start and its end is the   *)
(* subject of ScaleRun; here it only ends, and then releases the lock.     *)
(* Each request makes a run identifier of its own, so that a run is named  *)
(* by the request that created it.                                         *)
(***************************************************************************)
EXTENDS Naturals

CONSTANTS
    Plans, Big, Proving, \* plans; those of profile 1m, and those of profile 100k
    Keys,                \* idempotency keys, each of one actor
    Requests,            \* POST /scale/runs requests, and the runs they create
    NoPlan, NoKey, NoRun,
    MaxFaults,           \* bound: crashes and errors
    LostStart            \* whether a request may fail after its workflow started

ASSUME ScaleGateAssumption ==
    /\ Big \subseteq Plans /\ Proving \subseteq Plans /\ Big \cap Proving = {}
    /\ NoPlan \notin Plans /\ NoKey \notin Keys /\ NoRun \notin Requests
    /\ MaxFaults \in Nat /\ LostStart \in BOOLEAN

VARIABLES
    plans,     \* PLAN#<p>/META
    idem,      \* IDEMP#<key>/META: the run a key was accepted for
    lock,      \* LOCK#ACTIVE: the run it names
    proof,     \* whether PROOF#100k is in the table
    runs,      \* RUN#<r>/META
    requests,
    workflows, \* the Step Functions execution of each run
    faults

vars == <<plans, idem, lock, proof, runs, requests, workflows, faults>>

NewPlan == [offered |-> FALSE, expired |-> FALSE, allowed |-> FALSE, run |-> NoRun]
NewRun  == [status |-> "none", late |-> FALSE]
NewRequest == [pc |-> "idle", key |-> NoKey, plan |-> NoPlan, answer |-> NoRun]

Init ==
    /\ plans = [p \in Plans |-> NewPlan]
    /\ idem = [k \in Keys |-> NoRun]
    /\ lock = NoRun /\ proof = FALSE
    /\ runs = [r \in Requests |-> NewRun]
    /\ requests = [r \in Requests |-> NewRequest]
    /\ workflows = [r \in Requests |-> "none"]
    /\ faults = 0

Fault == faults < MaxFaults /\ faults' = faults + 1

-----------------------------------------------------------------------------
(* _create_plan, and what time does to plans and to the proof.             *)

\* Mutant: a deployment limit that allows 1m is taken for the proof.
MutantCapacity(p) == TRUE

\* _capacity_state: profile 1m is locked without the proof.
Capacity(p) == p \in Big => proof

\* launch_allowed is settled here, from the proof of this moment.
CreatePlan(p) ==
    /\ ~plans[p].offered
    /\ plans' = [plans EXCEPT ![p] = [@ EXCEPT !.offered = TRUE,
                                                !.allowed = Capacity(p)]]
    /\ UNCHANGED <<idem, lock, proof, runs, requests, workflows, faults>>

\* 15 minutes.
PlanExpires(p) ==
    /\ plans[p].offered /\ ~plans[p].expired
    /\ plans' = [plans EXCEPT ![p] = [@ EXCEPT !.expired = TRUE]]
    /\ UNCHANGED <<idem, lock, proof, runs, requests, workflows, faults>>

\* 14 days.  The launch does not read the proof again.
ProofExpires ==
    /\ proof /\ proof' = FALSE
    /\ UNCHANGED <<plans, idem, lock, runs, requests, workflows, faults>>

-----------------------------------------------------------------------------
(* _create_run                                                             *)

Goto(r, pc)    == requests' = [requests EXCEPT ![r] = [@ EXCEPT !.pc = pc]]

Answer(r, run) == requests' = [requests EXCEPT ![r] = [@ EXCEPT !.pc = "answered",
                                                                 !.answer = run]]

\* A key that was accepted before answers with its run.
LookUpKey(r, k, p) ==
    /\ requests[r].pc = "idle"
    /\ requests' = [requests EXCEPT ![r] =
                      [pc |-> IF idem[k] = NoRun THEN "plan" ELSE "answered",
                       key |-> k, plan |-> p, answer |-> idem[k]]]
    /\ UNCHANGED <<plans, idem, lock, proof, runs, workflows, faults>>

Launchable(p) == plans[p].offered /\ plans[p].run = NoRun /\ ~plans[p].expired /\ plans[p].allowed

\* A plan that is unknown, another actor's, consumed, expired or locked is refused.
ReadPlan(r) ==
    /\ requests[r].pc = "plan"
    /\ IF Launchable(requests[r].plan) THEN Goto(r, "gate") ELSE Answer(r, NoRun)
    /\ UNCHANGED <<plans, idem, lock, proof, runs, workflows, faults>>

\* attribute_not_exists(pk) OR expires_at_epoch < :now; the lock expires at deadline_at.
LockFree == lock = NoRun \/ runs[lock].late

\* Mutant: a plan is consumed without asking whether it was.
MutantUnconsumed(p) == TRUE
Unconsumed(p) == plans[p].run = NoRun
KeyFree(k)    == idem[k] = NoRun

\* One transaction over the lock, the plan, the run and the key.
Gate(r) ==
    /\ requests[r].pc = "gate"
    /\ LET p == requests[r].plan
           k == requests[r].key
       IN  IF LockFree /\ Unconsumed(p) /\ KeyFree(k)
           THEN /\ lock' = r
                /\ plans' = [plans EXCEPT ![p] = [@ EXCEPT !.run = r]]
                /\ idem' = [idem EXCEPT ![k] = r]
                /\ runs' = [runs EXCEPT ![r] = [status |-> "active", late |-> FALSE]]
                /\ Goto(r, "start")
           ELSE Answer(r, NoRun) /\ UNCHANGED <<lock, plans, idem, runs>>
    /\ UNCHANGED <<proof, workflows, faults>>

StartExecution(r) ==
    /\ requests[r].pc = "start"
    /\ workflows' = [workflows EXCEPT ![r] = "running"] /\ Goto(r, "record")
    /\ UNCHANGED <<plans, idem, lock, proof, runs, faults>>

RecordStart(r) ==
    /\ requests[r].pc = "record" /\ Answer(r, r)
    /\ UNCHANGED <<plans, idem, lock, proof, runs, workflows, faults>>

\* start_execution raises, or the update after it: _fail_run follows.
StartFails(r) ==
    /\ \/ requests[r].pc = "start"
       \/ LostStart /\ requests[r].pc = "record"
    /\ Fault /\ Goto(r, "failing")
    /\ UNCHANGED <<plans, idem, lock, proof, runs, workflows>>

RecordFailure(r) ==
    /\ requests[r].pc = "failing" /\ Goto(r, "releasing")
    /\ runs' = [runs EXCEPT ![r] = [@ EXCEPT !.status = "terminal"]]
    /\ UNCHANGED <<plans, idem, lock, proof, workflows, faults>>

\* delete_item(run_id = :run)
Released(r) == IF lock = r THEN NoRun ELSE lock

\* _release_lock swallows every error.
ReleaseLock(r) == \/ lock' = Released(r) /\ UNCHANGED faults
                  \/ Fault /\ UNCHANGED lock

RequestReleases(r) ==
    /\ requests[r].pc = "releasing" /\ ReleaseLock(r) /\ Answer(r, NoRun)
    /\ UNCHANGED <<plans, idem, proof, runs, workflows>>

RequestDies(r) ==
    /\ requests[r].pc \notin {"idle", "answered"} /\ Fault /\ Answer(r, NoRun)
    /\ UNCHANGED <<plans, idem, lock, proof, runs, workflows>>

-----------------------------------------------------------------------------
(* The workflow of a run, from outside (ScaleRun models the inside).       *)

\* deadline_at, three hours after the run was created.
DeadlinePasses(r) ==
    /\ runs[r].status # "none" /\ ~runs[r].late
    /\ runs' = [runs EXCEPT ![r] = [@ EXCEPT !.late = TRUE]]
    /\ UNCHANGED <<plans, idem, lock, proof, requests, workflows, faults>>

\* _finalize, _complete_cancel or _fail_run writes the terminal status.
RunEnds(r) ==
    /\ workflows[r] = "running"
    /\ runs' = [runs EXCEPT ![r] = [@ EXCEPT !.status = "terminal"]]
    /\ \E next \in {"succeeded", "stopped"} : workflows' = [workflows EXCEPT ![r] = next]
    /\ UNCHANGED <<plans, idem, lock, proof, requests, faults>>

\* _check's unconditional write after the creating request marked the run failed.
RunReopens(r) ==
    /\ workflows[r] = "running" /\ runs[r].status = "terminal"
    /\ runs' = [runs EXCEPT ![r] = [@ EXCEPT !.status = "active"]]
    /\ UNCHANGED <<plans, idem, lock, proof, requests, workflows, faults>>

RunProfile(r, profile) == requests[r].plan \in profile

\* Only a successful 100k run goes on to write the proof.
RunReleases(r) ==
    /\ workflows[r] \in {"succeeded", "stopped"}
    /\ ReleaseLock(r)
    /\ workflows' = [workflows EXCEPT ![r] =
                       IF @ = "succeeded" /\ RunProfile(r, Proving) THEN "proving" ELSE "ended"]
    /\ UNCHANGED <<plans, idem, proof, runs, requests>>

WriteProof(r) ==
    /\ workflows[r] = "proving" /\ proof' = TRUE
    /\ workflows' = [workflows EXCEPT ![r] = "proved"]
    /\ UNCHANGED <<plans, idem, lock, runs, requests, faults>>

\* The workflow sees a terminal run, or its own timeout, one hour after the deadline.
WorkflowEnds(r) ==
    /\ workflows[r] = "running" /\ (runs[r].status = "terminal" \/ runs[r].late)
    /\ workflows' = [workflows EXCEPT ![r] = "ended"]
    /\ UNCHANGED <<plans, idem, lock, proof, runs, requests, faults>>

WorkflowDies(r) ==
    /\ workflows[r] \in {"succeeded", "stopped", "proving"} /\ Fault
    /\ workflows' = [workflows EXCEPT ![r] = "ended"]
    /\ UNCHANGED <<plans, idem, lock, proof, runs, requests>>

RequestStep(r) ==
    \/ ReadPlan(r) \/ Gate(r) \/ StartExecution(r) \/ RecordStart(r)
    \/ RecordFailure(r) \/ RequestReleases(r)

WorkflowStep(r) == RunEnds(r) \/ RunReleases(r) \/ WriteProof(r)

Next ==
    \/ \E p \in Plans : CreatePlan(p) \/ PlanExpires(p)
    \/ ProofExpires
    \/ \E r \in Requests :
         \/ \E k \in Keys, p \in Plans : LookUpKey(r, k, p)
         \/ RequestStep(r) \/ StartFails(r) \/ RequestDies(r)
         \/ WorkflowStep(r) \/ RunReopens(r) \/ WorkflowEnds(r) \/ WorkflowDies(r)
         \/ DeadlinePasses(r)

Spec == Init /\ [][Next]_vars

\* Lambda finishes the requests it started, Step Functions its executions, and time passes.
Fairness == \A r \in Requests : WF_vars(RequestStep(r)) /\ WF_vars(WorkflowStep(r))
                                                       /\ WF_vars(DeadlinePasses(r))

FairSpec == Spec /\ Fairness

-----------------------------------------------------------------------------
(* Properties.                                                             *)

PlanRecord == [offered : BOOLEAN, expired : BOOLEAN, allowed : BOOLEAN,
               run : Requests \cup {NoRun}]
RunRecord  == [status : {"none", "active", "terminal"}, late : BOOLEAN]
RequestPcs == {"idle", "plan", "gate", "start", "record", "failing", "releasing", "answered"}
RequestRecord == [pc : RequestPcs, key : Keys \cup {NoKey}, plan : Plans \cup {NoPlan},
                  answer : Requests \cup {NoRun}]

\* Every variable keeps its shape, and a request past its first call has a key and a
\* plan (the items of the gate in the Scale Run table).
TypeOK ==
    /\ plans \in [Plans -> PlanRecord] /\ idem \in [Keys -> Requests \cup {NoRun}]
    /\ lock \in Requests \cup {NoRun} /\ proof \in BOOLEAN
    /\ runs \in [Requests -> RunRecord] /\ requests \in [Requests -> RequestRecord]
    /\ \A r \in Requests : requests[r].pc # "idle" =>
          requests[r].key \in Keys /\ requests[r].plan \in Plans
    /\ workflows \in [Requests -> {"none", "running", "succeeded", "stopped", "proving", "proved",
                                   "ended"}]
    /\ faults \in Nat

Active(r)  == runs[r].status = "active"
Created(r) == runs[r].status # "none"

\* "One plan can launch at most one run": two requests that both read the plan before
\* it was consumed do not both get through the gate.
OneRunPerPlan ==
    \A r, s \in Requests :
        Created(r) /\ Created(s) /\ requests[r].plan = requests[s].plan => r = s

\* "Retrying the same accepted command resolves to the same operation": requests with
\* one key are never answered with different runs, nor do they create two.
RetriesAgree ==
    \A r, s \in Requests : requests[r].key = requests[s].key =>
        /\ Created(r) /\ Created(s) => r = s
        /\ requests[r].answer # NoRun /\ requests[s].answer # NoRun =>
              requests[r].answer = requests[s].answer

\* Until its deadline an active run owns the lock, whatever other runs do: a late release
\* of an older run cannot delete it, and no other run can be admitted over it.
ActiveHoldsLock == \A r \in Requests : Active(r) /\ ~runs[r].late => lock = r

\* Two runs are active together only when one of them is past its deadline.
OverlapOnlyLate ==
    \A r, s \in Requests : Active(r) /\ Active(s) /\ r # s => runs[r].late \/ runs[s].late

\* A 100k run has succeeded and written the proof, which may have expired since.
Proven == \E s \in Requests : RunProfile(s, Proving) /\ workflows[s] = "proved"

\* No run of profile 1m exists before a 100k run left its proof, in whatever order plans
\* are made, proofs written and expired, and launches retried: "the 1m profile lacks a
\* successful 100k prerequisite receipt" denies it, though only the plan reads the proof.
BigRunNeedsProof == \A r \in Requests : Created(r) /\ RunProfile(r, Big) => Proven

\* "The Run Gate consumes the plan once and starts a durable run."
AcceptedRunStarts ==
    \A r \in Requests : Created(r) ~> (workflows[r] # "none" \/ ~Active(r))
=============================================================================
