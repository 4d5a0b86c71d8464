---------------------------- MODULE PublicProofs ----------------------------
(* Theorems about public intelligence: Acquisition, for any records, any first page,
   any number of runs that overlap and any number of changes, uses of the switch and
   failures; and ModelExecution, for any number of executions, readers and
   invocations, and however much fails. *)
EXTENDS Acquisition, ModelExecution, TLAPS

-----------------------------------------------------------------------------
(* The acquisition of one source. *)

RunRecord == [pc : {"idle", "fetch", "compare", "accept", "publish"},
              quick : BOOLEAN, snapshot : Snapshots, owed : SUBSET News]

\* What a run has found agrees with what it took for old: the news are of its own
\* snapshot, and the rest of the snapshot was accepted before.
RunOK(i) ==
  /\ At(i, "accept") =>
       /\ run[i].owed \subseteq Pairs(run[i].snapshot)
       /\ Pairs(run[i].snapshot) \subseteq run[i].owed \union accepted
  /\ At(i, "publish") => run[i].owed \subseteq accepted

AcquisitionInv ==
  /\ AcquisitionTypeOK
  /\ Pairs(alias) \subseteq accepted
  /\ \A i \in Runners : RunOK(i)
  /\ NoSilentChange
  /\ OnlyAcceptedIsTold

LEMMA IdleRun == Idle \in RunRecord /\ Idle.pc = "idle" /\ Idle.owed = {}
<1>1. Nothing \in Snapshots
  BY BoundAssumption DEF Nothing, Snapshots
<1>2. QED
  BY <1>1 DEF Idle, RunRecord

LEMMA PairsAreNews == ASSUME NEW s \in Snapshots PROVE Pairs(s) \subseteq News
BY BoundAssumption DEF Pairs, Snapshots, News

LEMMA DiffIsNews ==
  ASSUME NEW s \in Snapshots, NEW t \in Snapshots
  PROVE  /\ Diff(s, t) \subseteq News
         /\ Diff(s, t) \subseteq Pairs(t)
         /\ Pairs(t) \subseteq Diff(s, t) \union Pairs(s)
BY PairsAreNews DEF Diff

\* The page of a run holds what the source has, and no record beyond the page.
LEMMA PageSnapshot ==
  ASSUME AcquisitionTypeOK, NEW i \in Runners
  PROVE  Snapshot(i) \in Snapshots
BY BoundAssumption DEF Snapshot, AcquisitionTypeOK, Snapshots

\* Whoever owes a change at this point of its run.
LEMMA Owes ==
  ASSUME NEW pc
  PROVE  /\ \A x : x \in OwedBy(pc) <=> \E i \in Runners : At(i, pc) /\ x \in run[i].owed
         /\ \A x : x \in OwedBy(pc)' <=>
                     \E i \in Runners : run'[i].pc = pc /\ x \in run'[i].owed
BY DEF OwedBy, At

\* One run moves: the others stay where they are.
LEMMA OneRun ==
  ASSUME AcquisitionTypeOK, NEW i \in Runners, NEW r \in RunRecord, Becomes(i, r)
  PROVE  /\ run' \in [Runners -> RunRecord]
         /\ run'[i] = r
         /\ \A j \in Runners \ {i} : run'[j] = run[j]
BY DEF AcquisitionTypeOK, Becomes, RunRecord

LEMMA FirstAcquisition == AcquisitionInit => AcquisitionInv
<1> SUFFICES ASSUME AcquisitionInit PROVE AcquisitionInv
  OBVIOUS
<1>1. AcquisitionTypeOK
  <2>1. world \in Snapshots /\ alias \in Snapshots
    BY BoundAssumption DEF AcquisitionInit, Nothing, Snapshots
  <2>2. run \in [Runners -> RunRecord]
    BY IdleRun DEF AcquisitionInit
  <2>3. changes \in 0 .. MaxChanges /\ switches \in 0 .. MaxSwitches /\ failures \in 0 .. MaxFailures
    BY BoundAssumption DEF AcquisitionInit
  <2>4. QED
    BY <2>1, <2>2, <2>3 DEF AcquisitionInit, AcquisitionTypeOK, RunRecord
<1>2. Pairs(alias) \subseteq accepted
  BY DEF AcquisitionInit, Nothing, Pairs
<1>3. \A i \in Runners : RunOK(i)
  BY IdleRun DEF AcquisitionInit, RunOK, At
<1>4. QED
  BY <1>1, <1>2, <1>3 DEF AcquisitionInit, AcquisitionInv, NoSilentChange, OnlyAcceptedIsTold

-----------------------------------------------------------------------------
(* The operators, the source, and the steps of a run that accept nothing *)

LEMMA Elsewhere ==
  ASSUME AcquisitionInv, AcquisitionTypeOK', UNCHANGED <<data, run>> PROVE AcquisitionInv'
BY DEF AcquisitionInv, data, Pairs, RunOK, At, NoSilentChange, OnlyAcceptedIsTold, OwedBy

\* A run moves on with its page, or without it.
LEMMA Searching ==
  ASSUME AcquisitionInv, NEW i \in Runners, NEW r \in RunRecord, Becomes(i, r), AcquisitionTypeOK',
         ~At(i, "publish"), UNCHANGED data, r.pc # "publish",
         r.pc = "accept" => /\ r.owed \subseteq Pairs(r.snapshot)
                            /\ Pairs(r.snapshot) \subseteq r.owed \union accepted
  PROVE  AcquisitionInv'
<1>0. AcquisitionTypeOK /\ Pairs(alias) \subseteq accepted /\ NoSilentChange /\ OnlyAcceptedIsTold
      /\ \A j \in Runners : RunOK(j)
  BY DEF AcquisitionInv
<1>1. run'[i] = r /\ \A j \in Runners \ {i} : run'[j] = run[j]
  BY <1>0, OneRun
<1>2. UNCHANGED <<alias, accepted, told, withheld>>
  BY DEF data
<1>3. (Pairs(alias) \subseteq accepted)'
  BY <1>0, <1>2 DEF Pairs
<1>4. \A j \in Runners : RunOK(j)'
  <2>1. RunOK(i)'
    BY <1>1, <1>2 DEF RunOK, At, Pairs
  <2>2. \A j \in Runners \ {i} : RunOK(j)'
    BY <1>0, <1>1, <1>2 DEF RunOK, At, Pairs
  <2>3. QED
    BY <2>1, <2>2
<1>5. OwedBy("publish") \subseteq OwedBy("publish")'
  BY <1>1, Owes DEF At
<1>6. NoSilentChange'
  BY <1>0, <1>2, <1>5 DEF NoSilentChange
<1>7. OnlyAcceptedIsTold'
  BY <1>0, <1>2 DEF OnlyAcceptedIsTold
<1>8. QED
  BY <1>3, <1>4, <1>6, <1>7 DEF AcquisitionInv

-----------------------------------------------------------------------------
(* The steps that accept *)

\* A run puts its snapshot, and what it has to tell is still owed or was withheld.
LEMMA Accepting ==
  ASSUME AcquisitionInv, NEW i \in Runners, NEW r \in RunRecord, Becomes(i, r), AcquisitionTypeOK',
         At(i, "accept"), AliasIsPut(i), told' = told,
         \/ r.pc = "publish" /\ r.owed = run[i].owed /\ withheld' = withheld
         \/ r.pc = "idle" /\ withheld' = withheld \union run[i].owed
  PROVE  AcquisitionInv'
<1>0. AcquisitionTypeOK /\ NoSilentChange /\ OnlyAcceptedIsTold /\ \A j \in Runners : RunOK(j)
  BY DEF AcquisitionInv
<1>1. run'[i] = r /\ \A j \in Runners \ {i} : run'[j] = run[j]
  BY <1>0, OneRun
<1>2. alias' = run[i].snapshot /\ accepted' = accepted \union Pairs(run[i].snapshot)
  BY DEF AliasIsPut
<1>3. /\ run[i].owed \subseteq Pairs(run[i].snapshot)
      /\ Pairs(run[i].snapshot) \subseteq run[i].owed \union accepted
  BY <1>0 DEF RunOK
<1>4. (Pairs(alias) \subseteq accepted)'
  BY <1>2 DEF Pairs
<1>5. \A j \in Runners : RunOK(j)'
  <2>1. RunOK(i)'
    BY <1>1, <1>2, <1>3 DEF RunOK, At
  <2>2. ASSUME NEW j \in Runners \ {i} PROVE RunOK(j)'
    <3>1. run'[j] = run[j] /\ accepted \subseteq accepted' /\ RunOK(j)
      BY <1>0, <1>1, <1>2
    <3>2. QED
      BY <3>1 DEF RunOK, At, Pairs
  <2>3. QED
    BY <2>1, <2>2
<1>6. OwedBy("publish") \subseteq OwedBy("publish")'
  BY <1>1, Owes DEF At
<1>7. run[i].owed \subseteq withheld' \union OwedBy("publish")' /\ withheld \subseteq withheld'
  BY <1>1, Owes
<1>8. NoSilentChange'
  BY <1>0, <1>2, <1>3, <1>6, <1>7 DEF NoSilentChange
<1>9. OnlyAcceptedIsTold'
  BY <1>0, <1>2 DEF OnlyAcceptedIsTold
<1>10. QED
  BY <1>4, <1>5, <1>8, <1>9 DEF AcquisitionInv

-----------------------------------------------------------------------------
(* The steps that tell *)

\* A run ends that had changes to tell: they are told, or withheld.
LEMMA Telling ==
  ASSUME AcquisitionInv, NEW i \in Runners, Ends(i), AcquisitionTypeOK', At(i, "publish"),
         UNCHANGED <<alias, accepted>>, told \subseteq told', withheld \subseteq withheld',
         told' \subseteq told \union run[i].owed,
         run[i].owed \subseteq told' \union withheld'
  PROVE  AcquisitionInv'
<1>0. AcquisitionTypeOK /\ Pairs(alias) \subseteq accepted /\ NoSilentChange /\ OnlyAcceptedIsTold
      /\ \A j \in Runners : RunOK(j)
  BY DEF AcquisitionInv
<1>1. run'[i] = Idle /\ \A j \in Runners \ {i} : run'[j] = run[j]
  BY <1>0, OneRun, IdleRun DEF Ends
<1>2. (Pairs(alias) \subseteq accepted)'
  BY <1>0 DEF Pairs
<1>3. \A j \in Runners : RunOK(j)'
  <2>1. RunOK(i)'
    BY <1>1, IdleRun DEF RunOK, At
  <2>2. \A j \in Runners \ {i} : RunOK(j)'
    BY <1>0, <1>1 DEF RunOK, At, Pairs
  <2>3. QED
    BY <2>1, <2>2
<1>4. OwedBy("publish") \subseteq run[i].owed \union OwedBy("publish")'
  BY <1>1, Owes DEF At
<1>5. NoSilentChange'
  BY <1>0, <1>4 DEF NoSilentChange
<1>6. OnlyAcceptedIsTold'
  BY <1>0 DEF OnlyAcceptedIsTold, RunOK
<1>7. QED
  BY <1>2, <1>3, <1>5, <1>6 DEF AcquisitionInv

-----------------------------------------------------------------------------
LEMMA AcquisitionKeepsType == AcquisitionTypeOK /\ [AcquisitionNext]_acquisitionVars => AcquisitionTypeOK'
<1> SUFFICES ASSUME AcquisitionTypeOK, [AcquisitionNext]_acquisitionVars PROVE AcquisitionTypeOK'
  OBVIOUS
<1> USE DEF data
<1>1. CASE Switch
  BY <1>1, BoundAssumption DEF Switch, AcquisitionTypeOK
<1>2. ASSUME NEW r \in Records, SourceChanges(r) PROVE AcquisitionTypeOK'
  <2>1. world' \in Snapshots /\ changes' \in 0 .. MaxChanges
    BY <1>2, BoundAssumption DEF SourceChanges, AcquisitionTypeOK, Snapshots
  <2>2. QED
    BY <1>2, <2>1 DEF SourceChanges, AcquisitionTypeOK
<1>3. ASSUME NEW i \in Runners, NEW r \in RunRecord, Becomes(i, r)
      PROVE  run' \in [Runners -> RunRecord]
  BY <1>3, OneRun
<1>4. ASSUME NEW p \in Polls, Poll(p) PROVE AcquisitionTypeOK'
  <2>1. [Idle EXCEPT !.pc = "fetch"] \in RunRecord
    BY IdleRun DEF RunRecord
  <2>2. QED
    BY <1>3, <1>4, <2>1 DEF Poll, Runners, AcquisitionTypeOK, RunRecord
<1>5. ASSUME NEW q \in Requests, Request(q) PROVE AcquisitionTypeOK'
  <2>1. PICK quick \in BOOLEAN : Becomes(q, [Idle EXCEPT !.pc = "fetch", !.quick = quick])
    BY <1>5 DEF Request
  <2>2. [Idle EXCEPT !.pc = "fetch", !.quick = quick] \in RunRecord
    BY IdleRun DEF RunRecord
  <2>3. run' \in [Runners -> RunRecord]
    BY <1>3, <2>1, <2>2 DEF Runners
  <2>4. QED
    BY <1>5, <2>3 DEF Request, AcquisitionTypeOK, RunRecord
<1>6. ASSUME NEW i \in Runners, Fetch(i) PROVE AcquisitionTypeOK'
  <2>1. Snapshot(i) \in Snapshots
    BY PageSnapshot
  <2>2. PICK s \in Snapshots : Ends(i) \/ Becomes(i, [Idle EXCEPT !.pc = "compare", !.snapshot = s])
    BY <1>6, <2>1 DEF Fetch
  <2>3. [Idle EXCEPT !.pc = "compare", !.snapshot = s] \in RunRecord
    BY IdleRun DEF RunRecord
  <2>4. run' \in [Runners -> RunRecord]
    BY <1>3, <2>2, <2>3, IdleRun DEF Ends
  <2>5. QED
    BY <1>6, <2>4 DEF Fetch, AcquisitionTypeOK, RunRecord
<1>7. ASSUME NEW i \in Runners, Compare(i) PROVE AcquisitionTypeOK'
  <2>1. run[i] \in RunRecord /\ alias \in Snapshots
    BY DEF AcquisitionTypeOK, RunRecord
  <2>2. Diff(alias, run[i].snapshot) \in SUBSET News
    BY <2>1, DiffIsNews DEF RunRecord
  <2>3. [run[i] EXCEPT !.pc = "accept", !.owed = Diff(alias, run[i].snapshot)] \in RunRecord
    BY <2>1, <2>2 DEF RunRecord
  <2>4. run' \in [Runners -> RunRecord]
    BY <1>3, <1>7, <2>3 DEF Compare
  <2>5. QED
    BY <1>7, <2>4 DEF Compare, AcquisitionTypeOK, RunRecord
<1>8. ASSUME NEW i \in Runners, AliasIsPut(i)
      PROVE  alias' \in Snapshots /\ accepted' \subseteq News
  <2>1. run[i].snapshot \in Snapshots
    BY DEF AcquisitionTypeOK
  <2>2. QED
    BY <1>8, <2>1, PairsAreNews DEF AliasIsPut, AcquisitionTypeOK
<1>9. ASSUME NEW i \in Runners, Accept(i) PROVE AcquisitionTypeOK'
  <2>1. run[i].owed \in SUBSET News
    BY DEF AcquisitionTypeOK
  <2>2. [Idle EXCEPT !.pc = "publish", !.owed = run[i].owed] \in RunRecord
    BY <2>1, IdleRun DEF RunRecord
  <2>3. run' \in [Runners -> RunRecord]
    BY <1>3, <1>9, <2>2 DEF Accept
  <2>4. QED
    BY <1>8, <1>9, <2>3 DEF Accept, AcquisitionTypeOK, RunRecord
<1>10. ASSUME NEW i \in Runners, Publish(i) \/ PublishFails(i) \/ Fails(i) \/ Dies(i)
       PROVE  AcquisitionTypeOK'
  <2>1. run[i].owed \subseteq News
    BY DEF AcquisitionTypeOK
  <2>2. run' \in [Runners -> RunRecord]
    BY <1>3, <1>10, IdleRun DEF Publish, PublishFails, Fails, Dies, Ends
  <2>3. alias' \in Snapshots /\ accepted' \subseteq News
    BY <1>8, <1>10 DEF Publish, PublishFails, Fails, Dies, AcquisitionTypeOK
  <2>4. told' \subseteq News /\ withheld' \subseteq News
    BY <1>10, <2>1 DEF Publish, PublishFails, Fails, Dies, AcquisitionTypeOK
  <2>5. failures' \in 0 .. MaxFailures
    BY <1>10, BoundAssumption DEF Publish, PublishFails, Fails, Dies, Failure, AcquisitionTypeOK
  <2>6. UNCHANGED <<world, enabled, changes, switches>>
    BY <1>10 DEF Publish, PublishFails, Fails, Dies
  <2>7. QED
    BY <2>2, <2>3, <2>4, <2>5, <2>6 DEF AcquisitionTypeOK, RunRecord
<1>11. CASE UNCHANGED acquisitionVars
  BY <1>11 DEF acquisitionVars, AcquisitionTypeOK
<1>12. QED
  BY <1>1, <1>2, <1>4, <1>5, <1>6, <1>7, <1>9, <1>10, <1>11 DEF AcquisitionNext, RunStep

LEMMA EveryAcquisition == AcquisitionInv /\ [AcquisitionNext]_acquisitionVars => AcquisitionInv'
<1> SUFFICES ASSUME AcquisitionInv, [AcquisitionNext]_acquisitionVars PROVE AcquisitionInv'
  OBVIOUS
<1>0. AcquisitionTypeOK /\ Pairs(alias) \subseteq accepted /\ AcquisitionTypeOK'
  BY AcquisitionKeepsType DEF AcquisitionInv
<1>1. CASE Switch \/ (\E r \in Records : SourceChanges(r)) \/ UNCHANGED acquisitionVars
  BY <1>0, <1>1, Elsewhere DEF Switch, SourceChanges, acquisitionVars
<1>2. ASSUME NEW p \in Polls, Poll(p) PROVE AcquisitionInv'
  <2>1. [Idle EXCEPT !.pc = "fetch"] \in RunRecord /\ [Idle EXCEPT !.pc = "fetch"].pc = "fetch"
    BY IdleRun DEF RunRecord
  <2>2. QED
    BY <1>0, <1>2, <2>1, Searching DEF Poll, Runners, At
<1>3. ASSUME NEW q \in Requests, Request(q) PROVE AcquisitionInv'
  <2>1. PICK quick \in BOOLEAN : Becomes(q, [Idle EXCEPT !.pc = "fetch", !.quick = quick])
    BY <1>3 DEF Request
  <2> DEFINE r == [Idle EXCEPT !.pc = "fetch", !.quick = quick]
  <2>2. r \in RunRecord /\ r.pc = "fetch"
    BY IdleRun DEF RunRecord
  <2> HIDE DEF r
  <2>3. QED
    BY <1>0, <1>3, <2>1, <2>2, Searching DEF Request, Runners, At, r
<1>4. ASSUME NEW i \in Runners, Fetch(i) PROVE AcquisitionInv'
  <2>1. Snapshot(i) \in Snapshots
    BY <1>0, PageSnapshot
  <2>2. PICK s \in Snapshots : Ends(i) \/ Becomes(i, [Idle EXCEPT !.pc = "compare", !.snapshot = s])
    BY <1>4, <2>1 DEF Fetch
  <2> DEFINE r == [Idle EXCEPT !.pc = "compare", !.snapshot = s]
  <2>3. r \in RunRecord /\ r.pc = "compare"
    BY IdleRun DEF RunRecord
  <2>5. Ends(i) \/ Becomes(i, r)
    BY <2>2
  <2> HIDE DEF r
  <2>4. QED
    BY <1>0, <1>4, <2>3, <2>5, IdleRun, Searching DEF Fetch, Ends, At
<1>5. ASSUME NEW i \in Runners, Compare(i) PROVE AcquisitionInv'
  <2>1. run[i] \in RunRecord /\ alias \in Snapshots /\ run[i].snapshot \in Snapshots
    BY <1>0 DEF AcquisitionTypeOK, RunRecord
  <2> DEFINE owed == Diff(alias, run[i].snapshot)
  <2>2. owed \in SUBSET News /\ owed \subseteq Pairs(run[i].snapshot)
        /\ Pairs(run[i].snapshot) \subseteq owed \union Pairs(alias)
    BY <2>1, DiffIsNews
  <2> HIDE DEF owed
  <2> DEFINE r == [run[i] EXCEPT !.pc = "accept", !.owed = owed]
  <2>3. r \in RunRecord /\ r.pc = "accept" /\ r.owed = owed /\ r.snapshot = run[i].snapshot
    BY <2>1, <2>2 DEF RunRecord
  <2>4. Becomes(i, r) /\ UNCHANGED data /\ At(i, "compare")
    BY <1>5 DEF Compare, owed
  <2> HIDE DEF r
  <2>5. QED
    BY <1>0, <2>2, <2>3, <2>4, Searching DEF At
<1>6. ASSUME NEW i \in Runners, Accept(i) PROVE AcquisitionInv'
  <2>1. run[i].owed \in SUBSET News
    BY <1>0 DEF AcquisitionTypeOK
  <2> DEFINE r == [Idle EXCEPT !.pc = "publish", !.owed = run[i].owed]
  <2>2. r \in RunRecord /\ r.pc = "publish" /\ r.owed = run[i].owed
    BY <2>1, IdleRun DEF RunRecord
  <2>3. Becomes(i, r)
    BY <1>6 DEF Accept
  <2> HIDE DEF r
  <2>4. QED
    BY <1>0, <1>6, <2>2, <2>3, Accepting DEF Accept
<1>7. ASSUME NEW i \in Runners, Publish(i) \/ PublishFails(i) PROVE AcquisitionInv'
  BY <1>0, <1>7, Telling DEF Publish, PublishFails
<1>8. ASSUME NEW i \in Runners, Fails(i) PROVE AcquisitionInv'
  <2>1. CASE UNCHANGED data
    BY <1>0, <1>8, <2>1, IdleRun, Searching DEF Fails, Ends, At
  <2>2. CASE At(i, "accept") /\ AliasIsPut(i) /\ withheld' = withheld \union run[i].owed /\ told' = told
    BY <1>0, <1>8, <2>2, IdleRun, Accepting DEF Fails, Ends
  <2>3. QED
    BY <1>8, <2>1, <2>2 DEF Fails
<1>9. ASSUME NEW i \in Runners, Dies(i) PROVE AcquisitionInv'
  <2>1. CASE At(i, "publish")
    BY <1>0, <1>9, <2>1, Telling DEF Dies
  <2>2. CASE ~At(i, "publish")
    BY <1>0, <1>9, <2>2, IdleRun, Searching DEF Dies, Ends, data
  <2>3. QED
    BY <2>1, <2>2
<1>10. QED
  BY <1>1, <1>2, <1>3, <1>4, <1>5, <1>6, <1>7, <1>8, <1>9 DEF AcquisitionNext, RunStep

-----------------------------------------------------------------------------
(* The theorems. *)

\* The invariant holds: a run takes for old only what was accepted before, and tells
\* only what it has put into the alias itself.
THEOREM AcquisitionInvariance == AcquisitionSpec => []AcquisitionInv
BY FirstAcquisition, EveryAcquisition, PTL DEF AcquisitionSpec

\* Every variable keeps its type.
THEOREM AcquisitionTypeCorrect == AcquisitionSpec => []AcquisitionTypeOK
<1>1. AcquisitionInv => AcquisitionTypeOK
  BY DEF AcquisitionInv
<1>2. QED
  BY AcquisitionInvariance, <1>1, PTL

\* However runs overlap and wherever they die, no change is accepted in silence.
THEOREM NothingIsSilent == AcquisitionSpec => []NoSilentChange
<1>1. AcquisitionInv => NoSilentChange
  BY DEF AcquisitionInv
<1>2. QED
  BY AcquisitionInvariance, <1>1, PTL

\* The stream never gets a change that no accepted snapshot has, not from a run that
\* fails or dies either.
THEOREM ToldIsAccepted == AcquisitionSpec => []OnlyAcceptedIsTold
<1>1. AcquisitionInv => OnlyAcceptedIsTold
  BY DEF AcquisitionInv
<1>2. QED
  BY AcquisitionInvariance, <1>1, PTL

-----------------------------------------------------------------------------
(* The executions of a model.

   The inductive invariant has a part for each execution (StartInv, ReceiptInv)
   and one for each call of get_execution (CallInv): what the call has read or
   decided is still so, although it holds nothing while it works. It rests on the
   order of start_execution. While a request may still submit a job or close its
   own receipt, its receipt is at most SUBMITTED and it holds the lock. A call
   decides on a terminal receipt only when the request is past that point, and
   then nothing makes the decision untrue.

   A step acts on one execution. Frame says what it leaves of the others, CallKept
   what it leaves of the calls that do not take it, and Onward what no step takes
   back of any execution. So each action needs to be followed only where it acts
   (StepKeeps, OtherStepKeeps). *)

(* The inductive invariant.                                                *)

StarterPcs == {"idle", "lock", "unaware", "again", "give up", "refused", "seal", "model", "submit",
               "arn", "clean", "close deleted", "close pending", "release", "ended", "disowned"}
CallPcs    == {"idle", "read", "missing", "describe", "delete", "write", "release", "unschedule",
               "returned"}
Receipts   == [status : Terminal \union {"none", "SUBMITTED", "IN_PROGRESS"},
               cleanup : {"PENDING", "DELETED"}]
Starters   == [pc : StarterPcs, fresh : BOOLEAN]
Calls      == [pc : CallPcs, of : Executions \union {"none"},
               met : {"none", "closed", "missing", "running", "over"}, fresh : BOOLEAN,
               write : Receipts, result : Receipts]

Types ==
  /\ starter \in [Executions -> Starters]
  /\ lock \in Executions \union {NobodyHolds}
  /\ schedule \in SUBSET Executions /\ model \in SUBSET Executions
  /\ receipt \in [Executions -> Receipts]
  /\ job \in [Executions -> {"none", "running", "stopping", "completed", "failed", "stopped"}]
  /\ age \in [Executions -> 0 .. 3]
  /\ evidence \in [Executions -> SUBSET {"completed", "failed"}]
  /\ call \in [Callers -> Calls]
  /\ faults \in 0 .. MaxFaults

\* A request that got here submits no job and closes no receipt any more.
After == {"arn", "release", "refused", "unaware", "ended", "disowned"}

\* What a terminal receipt says is so.
Holds(e, r) == /\ job[e] \notin InProgress
               /\ r.status = "COMPLETED" => job[e] = "completed"
               /\ r.cleanup = "DELETED" => e \notin model

StartInv(e) ==
  /\ age[e] > 0 => Started(e)
  /\ starter[e].pc \notin After => job[e] = "none" /\ receipt[e] \in {NoReceipt, Submitted}
  /\ starter[e].pc \in {"model", "submit"} => receipt[e] = Submitted
  /\ starter[e].pc \in {"seal", "model", "submit"} => lock = e
  /\ starter[e].pc = "close deleted" => e \notin model
  /\ job[e] # "none" => starter[e].pc \in {"arn", "ended"} /\ receipt[e] # NoReceipt
  /\ job[e] \in InProgress => lock = e

ReceiptInv(e) ==
  /\ receipt[e].cleanup = "DELETED" => receipt[e].status \in Terminal
  /\ receipt[e].status \in Terminal => starter[e].pc \in After /\ Holds(e, receipt[e])
  /\ "completed" \in evidence[e] => receipt[e].status = "COMPLETED"

\* What a call of get_execution knows of the execution e that it asked for: k is
\* the call.
Asked(c, k, e) ==
  k.pc # "idle" =>
    /\ e \in Executions
    /\ c \in Invocations => Started(e)
    /\ c \in Executions => starter[c].pc \in {"again", "give up"}
    /\ k.pc = "missing" /\ c \in Invocations => receipt[e] = NoReceipt
    /\ k.pc \in {"describe", "delete", "write", "release"} =>
         receipt[e].status # "none" /\ k.write.status # "none"

Describes(k, e) ==
  k.pc = "describe" =>
    /\ k.write.status \notin Terminal /\ k.write.cleanup = "PENDING"
    /\ k.fresh => receipt[e].status \notin Terminal

Writes(k, e) ==
  k.pc \in {"delete", "write"} =>
    /\ starter[e].pc \in After
    /\ k.met = "closed" => k.write.status \in Terminal /\ receipt[e].status = k.write.status
    /\ k.met # "closed" /\ k.fresh => receipt[e].status \notin Terminal
    /\ k.met \in {"missing", "over"} => k.write.status \in Terminal
    /\ k.write.status \notin Terminal => k.pc = "write" /\ k.met = "running"
    /\ k.write.status \in Terminal => k.met # "running" /\ Holds(e, k.write)
    /\ k.write.cleanup = "DELETED" => k.write.status \in Terminal

Releases(k, e) ==
  k.pc = "release" =>
    /\ starter[e].pc \in After /\ job[e] \notin InProgress
    /\ k.write.status = "COMPLETED" => receipt[e].status = "COMPLETED"

Knows(c, k, e) == Asked(c, k, e) /\ Describes(k, e) /\ Writes(k, e) /\ Releases(k, e)
CallInv(c) == Knows(c, call[c], call[c].of)

Inv == /\ \A e \in Executions : StartInv(e) /\ ReceiptInv(e)
       /\ \A c \in Callers : CallInv(c)

-----------------------------------------------------------------------------
(* Type correctness.                                                       *)

LEMMA NoneAreReceipts == /\ NoReceipt \in Receipts /\ Submitted \in Receipts /\ NoCall \in Calls
                         /\ NoReceipt.status = "none" /\ NoReceipt.cleanup = "PENDING"
                         /\ Submitted.status = "SUBMITTED" /\ Submitted.cleanup = "PENDING"
                         /\ NoCall.pc = "idle" /\ NoCall.fresh = FALSE
BY DEF NoReceipt, Submitted, NoCall, Receipts, Calls, CallPcs

LEMMA FaultsType ==
    ASSUME Types, UNCHANGED faults \/ Fault
    PROVE  faults' \in 0 .. MaxFaults
BY FaultAssumption DEF Types, Fault

LEMMA GotoType ==
    ASSUME Types, NEW e \in Executions, NEW pc \in StarterPcs, StarterGoto(e, pc)
    PROVE  /\ starter' \in [Executions -> Starters]
           /\ starter'[e].pc = pc /\ starter'[e].fresh = starter[e].fresh
           /\ \A d \in Executions \ {e} : starter'[d] = starter[d]
BY DEF Types, StarterGoto, Starters

LEMMA CallGotoType ==
    ASSUME Types, NEW c \in Callers, NEW pc \in CallPcs, CallGoto(c, pc)
    PROVE  /\ call' \in [Callers -> Calls]
           /\ call'[c] = [call[c] EXCEPT !.pc = pc]
           /\ \A d \in Callers \ {c} : call'[d] = call[d]
BY DEF Types, CallGoto, Calls

LEMMA ReadCall ==
    ASSUME NEW e \in Executions
    PROVE  LET k == [NoCall EXCEPT !.pc = "read", !.of = e]
           IN  k \in Calls /\ k.pc = "read" /\ k.of = e /\ k.fresh = FALSE
<1>1. NoCall \in Calls /\ NoCall.fresh = FALSE
  BY NoneAreReceipts
<1>2. \A n \in Calls : LET k == [n EXCEPT !.pc = "read", !.of = e]
                       IN  k \in Calls /\ k.pc = "read" /\ k.of = e /\ k.fresh = n.fresh
  BY DEF Calls, CallPcs
<1> QED BY <1>1, <1>2

LEMMA OutdatedType ==
    ASSUME Types, NEW e \in Executions
    PROVE  /\ OutdatedCalls(e) \in [Callers -> Calls]
           /\ \A c \in Callers :
                OutdatedCalls(e)[c] = IF call[c].of = e THEN [call[c] EXCEPT !.fresh = FALSE]
                                                        ELSE call[c]
<1>1. call \in [Callers -> Calls]
  BY DEF Types
<1>2. \A k \in Calls : [k EXCEPT !.fresh = FALSE] \in Calls
  BY DEF Calls
<1> QED BY <1>1, <1>2 DEF OutdatedCalls

LEMMA OutdatedStarters ==
    ASSUME Types, NEW e \in Executions
    PROVE  /\ Outdated(starter, e) \in [Executions -> Starters]
           /\ \A d \in Executions : Outdated(starter, e)[d].pc = starter[d].pc
BY DEF Types, Outdated, Starters

LEMMA ReleasedType ==
    ASSUME Types, NEW e \in Executions
    PROVE  /\ Released(e) \in Executions \union {NobodyHolds}
           /\ lock # e => Released(e) = lock
BY DEF Types, Released

LEMMA RecordedType ==
    ASSUME Types, NEW e \in Executions, NEW own, NEW result
    PROVE  /\ Recorded(e, own, result) \in [Executions -> SUBSET {"completed", "failed"}]
           /\ \A d \in Executions \ {e} : Recorded(e, own, result)[d] = evidence[d]
           /\ "completed" \in Recorded(e, own, result)[e] =>
                 "completed" \in evidence[e] \/ result.status = "COMPLETED"
<1>1. Signal(result.status) \in {"completed", "failed"}
  BY DEF Signal
<1>2. Signal(result.status) = "completed" => result.status = "COMPLETED"
  BY DEF Signal
<1> QED BY <1>1, <1>2 DEF Types, Recorded

LEMMA ReturnedType ==
    ASSUME Types, NEW c \in Callers, NEW result \in Receipts
    PROVE  /\ Returned(c, result) \in Calls
           /\ Returned(c, result).pc \in {"idle", "returned", "unschedule"}
           /\ Returned(c, result).pc = "returned" => c \in Executions
           /\ Returned(c, result).pc = "unschedule" => c \in Invocations
           /\ Returned(c, result).pc # "idle" => Returned(c, result).of = call[c].of
<1>1. call[c].of \in Executions \union {"none"}
  BY DEF Types, Calls
<1> QED BY <1>1, NoneAreReceipts DEF Returned, NoCall, Calls, CallPcs

LEMMA StarterCallsType ==
    ASSUME Types, NEW e \in Executions, NEW holder \in Executions, NEW after \in StarterPcs,
           StarterCalls(e, holder, after)
    PROVE  /\ call' \in [Callers -> Calls] /\ starter' \in [Executions -> Starters]
           /\ call'[e].pc = "read" /\ call'[e].of = holder /\ call'[e].fresh = FALSE
           /\ \A c \in Callers \ {e} : call'[c] = call[c]
           /\ starter'[e].pc = after /\ \A d \in Executions \ {e} : starter'[d] = starter[d]
<1>1. e \in Callers
  BY DEF Callers
<1>2. /\ starter' \in [Executions -> Starters] /\ starter'[e].pc = after
      /\ \A d \in Executions \ {e} : starter'[d] = starter[d]
  BY GotoType DEF StarterCalls
<1>3. /\ call' = [call EXCEPT ![e] = [NoCall EXCEPT !.pc = "read", !.of = holder]]
      /\ call \in [Callers -> Calls]
  BY DEF StarterCalls, Types
<1> DEFINE k == [NoCall EXCEPT !.pc = "read", !.of = holder]
<1>4. k \in Calls /\ k.pc = "read" /\ k.of = holder /\ k.fresh = FALSE
  BY ReadCall
<1> HIDE DEF k
<1>5. call' \in [Callers -> Calls] /\ call'[e] = k /\ \A c \in Callers \ {e} : call'[c] = call[c]
  BY <1>1, <1>3, <1>4 DEF k
<1> QED BY <1>2, <1>4, <1>5

-----------------------------------------------------------------------------
(* What a step leaves of the executions and the calls it does not act on.  *)

\* A step of somebody else leaves an execution as it is, except that its job may be
\* stopped, its model deleted and the ETag its starter read outdated.
Frame(d) ==
  /\ starter'[d].pc = starter[d].pc
  /\ receipt'[d] = receipt[d] /\ age'[d] = age[d] /\ evidence'[d] = evidence[d]
  /\ d \in model' => d \in model
  /\ job'[d] = job[d] \/ (job[d] = "running" /\ job'[d] = "stopping")
  /\ lock = d => lock' = d

\* What every step leaves of every execution.
Onward(e) ==
  /\ starter[e].pc \in After => starter'[e].pc \in After
  /\ starter[e].pc \in {"ended", "disowned"} => starter'[e].pc \in {"ended", "disowned"}
  /\ receipt[e].status \in Terminal => receipt'[e].status = receipt[e].status
  /\ receipt[e].status # "none" => receipt'[e].status # "none"
  /\ starter[e].pc \in {"ended", "disowned"} /\ receipt[e] = NoReceipt => receipt'[e] = NoReceipt
  /\ starter[e].pc \in After /\ job[e] \notin InProgress => job'[e] = job[e]
  /\ starter[e].pc \in After /\ e \notin model => e \notin model'

\* A call that does not take the step is where it was. A receipt that the step
\* closes has a new ETag.
CallKept(c) ==
  /\ call'[c].pc = call[c].pc
  /\ call[c].pc # "idle" =>
       /\ call'[c].of = call[c].of /\ call'[c].met = call[c].met
       /\ call'[c].write = call[c].write
       /\ c \in Executions => starter'[c].pc = starter[c].pc
       /\ call'[c].fresh => /\ call[c].fresh
                            /\ receipt'[call[c].of].status \in Terminal =>
                                 receipt[call[c].of].status \in Terminal

LEMMA FrameKeeps ==
    ASSUME NEW d \in Executions, StartInv(d), ReceiptInv(d), Frame(d)
    PROVE  StartInv(d)' /\ ReceiptInv(d)' /\ Onward(d)
<1>1. job'[d] \in InProgress <=> job[d] \in InProgress
  BY DEF Frame, InProgress
<1>2. job[d] \notin InProgress => job'[d] = job[d]
  BY DEF Frame, InProgress
<1>3. job'[d] # "none" <=> job[d] # "none"
  BY DEF Frame
<1>4. StartInv(d)'
  BY <1>1, <1>3 DEF StartInv, Frame, Started, After
<1>5. ReceiptInv(d)'
  BY <1>1, <1>2 DEF ReceiptInv, Frame, Holds
<1>6. Onward(d)
  BY <1>2 DEF Onward, Frame
<1> QED BY <1>4, <1>5, <1>6

\* k is the call before the step, n the call after it.
LEMMA KnownStays ==
    ASSUME NEW c, NEW k, NEW n, NEW e, Knows(c, k, e), k.pc # "idle", Onward(e),
           n.pc = k.pc, n.met = k.met, n.write = k.write,
           c \in Executions => starter'[c].pc = starter[c].pc,
           n.fresh => k.fresh /\ (receipt'[e].status \in Terminal => receipt[e].status \in Terminal)
    PROVE  Knows(c, n, e)'
<1>1. Asked(c, k, e) /\ Describes(k, e) /\ Writes(k, e) /\ Releases(k, e)
  BY DEF Knows
<1>2. e \in Executions
  BY <1>1 DEF Asked
<1>3. \A r : Holds(e, r) /\ starter[e].pc \in After =>
        /\ job'[e] \notin InProgress /\ (r.status = "COMPLETED" => job'[e] = "completed")
        /\ r.cleanup = "DELETED" => e \notin model'
  BY DEF Holds, Onward
<1>4. Asked(c, n, e)'
  <2>1. c \in Invocations => Started(e)'
    BY <1>1 DEF Onward, Started, Asked
  <2>2. c \in Executions => starter'[c].pc \in {"again", "give up"}
    BY <1>1 DEF Asked
  <2>3. k.pc = "missing" /\ c \in Invocations => receipt'[e] = NoReceipt
    BY <1>1 DEF Onward, Started, Asked
  <2>4. k.pc \in {"describe", "delete", "write", "release"} =>
          receipt'[e].status # "none" /\ k.write.status # "none"
    BY <1>1 DEF Onward, Asked
  <2> QED BY <1>2, <2>1, <2>2, <2>3, <2>4 DEF Asked
<1>5. Describes(n, e)'
  <2>1. k.pc = "describe" =>
          /\ k.write.status \notin Terminal /\ k.write.cleanup = "PENDING"
          /\ n.fresh => receipt'[e].status \notin Terminal
    BY <1>1 DEF Describes
  <2> QED BY <2>1 DEF Describes
<1>6. Writes(n, e)'
  <2>1. k.pc \in {"delete", "write"} =>
          /\ starter'[e].pc \in After
          /\ k.met = "closed" => k.write.status \in Terminal /\ receipt'[e].status = k.write.status
          /\ k.met # "closed" /\ n.fresh => receipt'[e].status \notin Terminal
          /\ k.met \in {"missing", "over"} => k.write.status \in Terminal
          /\ k.write.status \notin Terminal => k.pc = "write" /\ k.met = "running"
          /\ k.write.cleanup = "DELETED" => k.write.status \in Terminal
    BY <1>1 DEF Writes, Onward
  <2>2. k.pc \in {"delete", "write"} /\ k.write.status \in Terminal =>
          k.met # "running" /\ Holds(e, k.write)'
    <3>1. k.pc \in {"delete", "write"} /\ k.write.status \in Terminal =>
            k.met # "running" /\ Holds(e, k.write) /\ starter[e].pc \in After
      BY <1>1 DEF Writes
    <3> QED BY <1>3, <3>1 DEF Holds
  <2> QED BY <2>1, <2>2 DEF Writes
<1>7. Releases(n, e)'
  <2>1. k.pc = "release" =>
          /\ starter'[e].pc \in After /\ job'[e] \notin InProgress
          /\ k.write.status = "COMPLETED" => receipt'[e].status = "COMPLETED"
    BY <1>1 DEF Onward, Terminal, Releases
  <2> QED BY <2>1 DEF Releases
<1> QED BY <1>4, <1>5, <1>6, <1>7 DEF Knows

\* A call is known by what it is after the step.
LEMMA CallIs ==
    ASSUME NEW c, NEW n, n = call'[c], Knows(c, n, n.of)'
    PROVE  CallInv(c)'
BY DEF CallInv, Knows, Asked, Describes, Writes, Releases, Holds, Started

LEMMA CallKeeps ==
    ASSUME NEW c \in Callers, CallInv(c), CallKept(c),
           call[c].pc # "idle" => Onward(call[c].of)
    PROVE  CallInv(c)'
<1>1. CASE call[c].pc = "idle"
  BY <1>1 DEF CallInv, Knows, Asked, Describes, Writes, Releases, CallKept
<1>2. CASE call[c].pc # "idle"
  <2>1. PICK k, n, e : k = call[c] /\ n = call'[c] /\ e = call[c].of
    OBVIOUS
  <2>2. /\ n.of = e /\ n.pc = k.pc /\ n.met = k.met /\ n.write = k.write
        /\ c \in Executions => starter'[c].pc = starter[c].pc
        /\ n.fresh => k.fresh /\ (receipt'[e].status \in Terminal => receipt[e].status \in Terminal)
    BY <1>2, <2>1 DEF CallKept
  <2>3. Knows(c, k, e) /\ Onward(e) /\ k.pc # "idle"
    BY <1>2, <2>1 DEF CallInv
  <2>4. Knows(c, n, e)'
    BY <2>2, <2>3, KnownStays
  <2> QED BY <2>1, <2>2, <2>4, CallIs
<1> QED BY <1>1, <1>2

\* It is enough to look at the execution that a step acts on and at the calls that
\* take it.
LEMMA StepKeeps ==
    ASSUME Inv, NEW e \in Executions,
           \A d \in Executions \ {e} : Frame(d),
           StartInv(e)', ReceiptInv(e)', Onward(e),
           \A c \in Callers : CallKept(c) \/ CallInv(c)'
    PROVE  Inv' /\ \A d \in Executions : Onward(d)
<1>1. \A d \in Executions : StartInv(d)' /\ ReceiptInv(d)' /\ Onward(d)
  <2> SUFFICES ASSUME NEW d \in Executions, d # e
               PROVE  StartInv(d)' /\ ReceiptInv(d)' /\ Onward(d)
    OBVIOUS
  <2> QED BY FrameKeeps DEF Inv
<1>2. \A c \in Callers : CallInv(c)'
  <2> SUFFICES ASSUME NEW c \in Callers, CallKept(c) PROVE CallInv(c)'
    OBVIOUS
  <2>1. CallInv(c)
    BY DEF Inv
  <2>2. call[c].pc # "idle" => call[c].of \in Executions
    BY <2>1 DEF CallInv, Knows, Asked
  <2> QED BY <1>1, <2>1, <2>2, CallKeeps
<1> QED BY <1>1, <1>2 DEF Inv

\* The same, of a step that acts on no execution.
LEMMA OtherStepKeeps ==
    ASSUME Inv, \A d \in Executions : Frame(d),
           \A c \in Callers : CallKept(c) \/ CallInv(c)'
    PROVE  Inv' /\ \A d \in Executions : Onward(d)
<1>1. \A d \in Executions : StartInv(d)' /\ ReceiptInv(d)' /\ Onward(d)
  BY FrameKeeps DEF Inv
<1>2. \A c \in Callers : CallInv(c)'
  <2> SUFFICES ASSUME NEW c \in Callers, CallKept(c) PROVE CallInv(c)'
    OBVIOUS
  <2>1. CallInv(c)
    BY DEF Inv
  <2>2. call[c].pc # "idle" => call[c].of \in Executions
    BY <2>1 DEF CallInv, Knows, Asked
  <2> QED BY <1>1, <2>1, <2>2, CallKeeps
<1> QED BY <1>1, <1>2 DEF Inv

-----------------------------------------------------------------------------
(* The steps of a start request.                                           *)

\* A request that has no call under way moves on, and leaves every call as it was.
LEMMA CallsGoOn ==
    ASSUME Inv, NEW e \in Executions, starter[e].pc \notin {"again", "give up"},
           \A d \in Executions \ {e} : starter'[d].pc = starter[d].pc,
           call' = call,
           \A d \in Executions : receipt'[d].status \in Terminal => receipt[d].status \in Terminal
    PROVE  \A c \in Callers : CallKept(c)
<1> SUFFICES ASSUME NEW c \in Callers, call[c].pc # "idle" PROVE CallKept(c)
  BY DEF CallKept
<1>1. Asked(c, call[c], call[c].of)
  BY DEF Inv, CallInv, Knows
<1>2. call[c].of \in Executions /\ c # e
  BY <1>1 DEF Asked
<1> QED BY <1>2 DEF CallKept

\* The same, when the request has put its receipt.
LEMMA OutdatedCallsGoOn ==
    ASSUME Types, Inv, NEW e \in Executions, starter[e].pc \notin {"again", "give up"},
           \A d \in Executions \ {e} : starter'[d].pc = starter[d].pc,
           call' = OutdatedCalls(e),
           \A d \in Executions \ {e} : receipt'[d] = receipt[d]
    PROVE  \A c \in Callers : CallKept(c)
<1> SUFFICES ASSUME NEW c \in Callers PROVE CallKept(c)
  OBVIOUS
<1>1. Asked(c, call[c], call[c].of)
  BY DEF Inv, CallInv, Knows
<1>2. call[c].pc # "idle" => call[c].of \in Executions /\ c # e
  BY <1>1 DEF Asked
<1>3. call[c] \in Calls
  BY DEF Types
<1>4. call'[c] = IF call[c].of = e THEN [call[c] EXCEPT !.fresh = FALSE] ELSE call[c]
  BY OutdatedType
<1>5. /\ call'[c].pc = call[c].pc /\ call'[c].of = call[c].of /\ call'[c].met = call[c].met
      /\ call'[c].write = call[c].write
      /\ call'[c].fresh => call[c].fresh /\ call[c].of # e
  BY <1>3, <1>4 DEF Calls
<1> QED BY <1>2, <1>5 DEF CallKept

LEMMA CreateScheduleKeeps ==
    ASSUME Types, Inv, NEW e \in Executions, CreateSchedule(e)
    PROVE  Types' /\ Inv' /\ \A d \in Executions : Onward(d)
<1>1. /\ starter[e].pc = "idle" /\ StarterGoto(e, "lock") /\ schedule' = schedule \union {e}
      /\ UNCHANGED <<lock, receipt, model, job, age, evidence, call, faults>>
  BY DEF CreateSchedule, StarterAt
<1>2. /\ starter' \in [Executions -> Starters] /\ starter'[e].pc = "lock"
      /\ \A d \in Executions \ {e} : starter'[d] = starter[d]
  BY <1>1, GotoType DEF StarterPcs
<1>3. Types'
  BY <1>1, <1>2 DEF Types
<1>4. StartInv(e) /\ ReceiptInv(e)
  BY DEF Inv
<1>5. StartInv(e)' /\ ReceiptInv(e)' /\ Onward(e)
  BY <1>1, <1>2, <1>4 DEF StartInv, ReceiptInv, Holds, Onward, After, Started
<1>6. \A d \in Executions \ {e} : Frame(d)
  BY <1>1, <1>2 DEF Frame
<1>7. \A c \in Callers : CallKept(c)
  BY <1>1, <1>2, CallsGoOn
<1> QED BY <1>3, <1>5, <1>6, <1>7, StepKeeps

LEMMA AcquireLockKeeps ==
    ASSUME Types, Inv, NEW e \in Executions, AcquireLock(e) \/ AcquireUnawares(e)
    PROVE  Types' /\ Inv' /\ \A d \in Executions : Onward(d)
<1>1. PICK pc \in {"seal", "unaware"} :
        /\ starter[e].pc = "lock" /\ StarterGoto(e, pc) /\ lock = NobodyHolds /\ lock' = e
        /\ UNCHANGED <<schedule, receipt, model, job, age, evidence, call>>
        /\ UNCHANGED faults \/ Fault
  BY DEF AcquireLock, AcquireUnawares, StarterAt
<1>2. /\ starter' \in [Executions -> Starters] /\ starter'[e].pc = pc
      /\ \A d \in Executions \ {e} : starter'[d] = starter[d]
  BY <1>1, GotoType DEF StarterPcs
<1>3. Types'
  BY <1>1, <1>2, FaultsType DEF Types
<1>4. StartInv(e) /\ ReceiptInv(e)
  BY DEF Inv
<1>5. StartInv(e)' /\ ReceiptInv(e)' /\ Onward(e)
  BY <1>1, <1>2, <1>4 DEF StartInv, ReceiptInv, Holds, Onward, After, Started
<1>6. \A d \in Executions \ {e} : Frame(d)
  BY <1>1, <1>2, CallerAssumption DEF Frame, NobodyHolds
<1>7. \A c \in Callers : CallKept(c)
  BY <1>1, <1>2, CallsGoOn
<1> QED BY <1>3, <1>5, <1>6, <1>7, StepKeeps

\* A request ends, or goes on to end, and changes no more than its lock or schedule.
LEMMA RefuseKeeps ==
    ASSUME Types, Inv, NEW e \in Executions, Refuse(e)
    PROVE  Types' /\ Inv' /\ \A d \in Executions : Onward(d)
<1>1. PICK pc \in {"disowned", "ended"} :
        /\ starter[e].pc \in {"refused", "unaware"} /\ StarterGoto(e, pc)
        /\ schedule' = schedule \ {e}
        /\ UNCHANGED <<lock, receipt, model, job, age, evidence, call, faults>>
  BY DEF Refuse
<1>2. /\ starter' \in [Executions -> Starters] /\ starter'[e].pc = pc
      /\ \A d \in Executions \ {e} : starter'[d] = starter[d]
  BY <1>1, GotoType DEF StarterPcs
<1>3. Types'
  BY <1>1, <1>2 DEF Types
<1>4. StartInv(e) /\ ReceiptInv(e)
  BY DEF Inv
<1>5. StartInv(e)' /\ ReceiptInv(e)' /\ Onward(e)
  BY <1>1, <1>2, <1>4 DEF StartInv, ReceiptInv, Holds, Onward, After, Started
<1>6. \A d \in Executions \ {e} : Frame(d)
  BY <1>1, <1>2 DEF Frame
<1>7. \A c \in Callers : CallKept(c)
  BY <1>1, <1>2, CallsGoOn
<1> QED BY <1>3, <1>5, <1>6, <1>7, StepKeeps

LEMMA CreateReceiptKeeps ==
    ASSUME Types, Inv, NEW e \in Executions, CreateReceipt(e)
    PROVE  Types' /\ Inv' /\ \A d \in Executions : Onward(d)
<1>1. /\ starter[e].pc = "seal" /\ receipt' = [receipt EXCEPT ![e] = Submitted]
      /\ starter' = [starter EXCEPT ![e] = [pc |-> "model", fresh |-> TRUE]]
      /\ UNCHANGED <<lock, schedule, model, job, age, evidence, call, faults>>
  BY DEF CreateReceipt, StarterAt
<1>a. /\ starter' \in [Executions -> Starters] /\ starter'[e].pc = "model"
      /\ \A d \in Executions \ {e} : starter'[d] = starter[d]
  BY <1>1 DEF Types, Starters, StarterPcs
<1>b. /\ receipt' \in [Executions -> Receipts] /\ receipt'[e] = Submitted
      /\ \A d \in Executions \ {e} : receipt'[d] = receipt[d]
  BY <1>1, NoneAreReceipts DEF Types
<1>c. Submitted.status \notin Terminal /\ Submitted.status # "none" /\ Submitted # NoReceipt
      /\ NoReceipt.status \notin Terminal /\ Submitted.cleanup # "DELETED"
      /\ NoReceipt.status # "COMPLETED" /\ Submitted.status # "COMPLETED"
  BY NoneAreReceipts DEF Terminal
<1>3. Types'
  BY <1>1, <1>a, <1>b DEF Types
<1>4. StartInv(e) /\ ReceiptInv(e)
  BY DEF Inv
<1>5. StartInv(e)' /\ ReceiptInv(e)' /\ Onward(e)
  BY <1>1, <1>a, <1>4, <1>b, <1>c DEF StartInv, ReceiptInv, Holds, Onward, After, Started
<1>6. \A d \in Executions \ {e} : Frame(d)
  BY <1>1, <1>a, <1>b DEF Frame
<1>7. \A c \in Callers : CallKept(c)
  BY <1>1, <1>a, <1>b, <1>c, CallsGoOn
<1> QED BY <1>3, <1>5, <1>6, <1>7, StepKeeps

LEMMA CreateModelKeeps ==
    ASSUME Types, Inv, NEW e \in Executions, CreateModel(e)
    PROVE  Types' /\ Inv' /\ \A d \in Executions : Onward(d)
<1>1. /\ starter[e].pc = "model" /\ StarterGoto(e, "submit") /\ model' = model \union {e}
      /\ UNCHANGED <<lock, schedule, receipt, job, age, evidence, call, faults>>
  BY DEF CreateModel, StarterAt
<1>2. /\ starter' \in [Executions -> Starters] /\ starter'[e].pc = "submit"
      /\ \A d \in Executions \ {e} : starter'[d] = starter[d]
  BY <1>1, GotoType DEF StarterPcs
<1>r. Submitted.status \notin Terminal /\ Submitted # NoReceipt /\ Submitted.cleanup # "DELETED"
  BY NoneAreReceipts DEF Terminal
<1>3. Types'
  BY <1>1, <1>2 DEF Types
<1>4. StartInv(e) /\ ReceiptInv(e)
  BY DEF Inv
<1>5. StartInv(e)' /\ ReceiptInv(e)' /\ Onward(e)
  BY <1>1, <1>2, <1>4, <1>r DEF StartInv, ReceiptInv, Holds, Onward, After, Started
<1>6. \A d \in Executions \ {e} : Frame(d)
  BY <1>1, <1>2 DEF Frame
<1>7. \A c \in Callers : CallKept(c)
  BY <1>1, <1>2, CallsGoOn
<1> QED BY <1>3, <1>5, <1>6, <1>7, StepKeeps

LEMMA CreateJobKeeps ==
    ASSUME Types, Inv, NEW e \in Executions, CreateJob(e)
    PROVE  Types' /\ Inv' /\ \A d \in Executions : Onward(d)
<1>1. PICK pc \in {"arn", "ended"} :
        /\ starter[e].pc = "submit" /\ StarterGoto(e, pc)
        /\ job' = [job EXCEPT ![e] = "running"]
        /\ UNCHANGED <<lock, schedule, receipt, model, age, evidence, call>>
        /\ UNCHANGED faults \/ Fault
  BY DEF CreateJob, StarterAt
<1>2. /\ starter' \in [Executions -> Starters] /\ starter'[e].pc = pc
      /\ \A d \in Executions \ {e} : starter'[d] = starter[d]
  BY <1>1, GotoType DEF StarterPcs
<1>j. /\ job' \in [Executions -> {"none", "running", "stopping", "completed", "failed", "stopped"}]
      /\ job'[e] = "running" /\ \A d \in Executions \ {e} : job'[d] = job[d]
  BY <1>1 DEF Types
<1>r. Submitted.status \notin Terminal /\ Submitted # NoReceipt /\ Submitted.cleanup # "DELETED"
  BY NoneAreReceipts DEF Terminal
<1>3. Types'
  BY <1>1, <1>2, <1>j, FaultsType DEF Types
<1>4. StartInv(e) /\ ReceiptInv(e)
  BY DEF Inv
<1>5. StartInv(e)' /\ ReceiptInv(e)' /\ Onward(e)
  BY <1>1, <1>2, <1>4, <1>j, <1>r DEF StartInv, ReceiptInv, Holds, Onward, After, Started
<1>6. \A d \in Executions \ {e} : Frame(d)
  BY <1>1, <1>2, <1>j DEF Frame
<1>7. \A c \in Callers : CallKept(c)
  BY <1>1, <1>2, CallsGoOn
<1> QED BY <1>3, <1>5, <1>6, <1>7, StepKeeps

LEMMA WriteArnKeeps ==
    ASSUME Types, Inv, NEW e \in Executions, WriteArn(e)
    PROVE  Types' /\ Inv' /\ \A d \in Executions : Onward(d)
<1>1. /\ starter[e].pc = "arn" /\ StarterGoto(e, "ended")
      /\ call' = OutdatedCalls(e) \/ call' = call
      /\ UNCHANGED <<lock, schedule, receipt, model, job, age, evidence, faults>>
  BY DEF WriteArn, StarterAt
<1>2. /\ starter' \in [Executions -> Starters] /\ starter'[e].pc = "ended"
      /\ \A d \in Executions \ {e} : starter'[d] = starter[d]
  BY <1>1, GotoType DEF StarterPcs
<1>a. call' \in [Callers -> Calls]
  BY <1>1, OutdatedType DEF Types
<1>3. Types'
  BY <1>1, <1>2, <1>a DEF Types
<1>4. StartInv(e) /\ ReceiptInv(e)
  BY DEF Inv
<1>5. StartInv(e)' /\ ReceiptInv(e)' /\ Onward(e)
  BY <1>1, <1>2, <1>4 DEF StartInv, ReceiptInv, Holds, Onward, After, Started
<1>6. \A d \in Executions \ {e} : Frame(d)
  BY <1>1, <1>2 DEF Frame
<1>7. \A c \in Callers : CallKept(c)
  BY <1>1, <1>2, CallsGoOn, OutdatedCallsGoOn
<1> QED BY <1>3, <1>5, <1>6, <1>7, StepKeeps

LEMMA SealRefusedKeeps ==
    ASSUME Types, Inv, NEW e \in Executions, SealRefused(e)
    PROVE  Types' /\ Inv' /\ \A d \in Executions : Onward(d)
<1>1. /\ starter[e].pc = "seal" /\ StarterGoto(e, "release")
      /\ UNCHANGED <<lock, schedule, receipt, model, job, age, evidence, call, faults>>
  BY DEF SealRefused, StarterAt
<1>2. /\ starter' \in [Executions -> Starters] /\ starter'[e].pc = "release"
      /\ \A d \in Executions \ {e} : starter'[d] = starter[d]
  BY <1>1, GotoType DEF StarterPcs
<1>r. NoReceipt.status \notin Terminal /\ NoReceipt.cleanup # "DELETED"
      /\ Submitted.status \notin Terminal /\ Submitted.cleanup # "DELETED"
  BY NoneAreReceipts DEF Terminal
<1>3. Types'
  BY <1>1, <1>2 DEF Types
<1>4. StartInv(e) /\ ReceiptInv(e)
  BY DEF Inv
<1>5. StartInv(e)' /\ ReceiptInv(e)' /\ Onward(e)
  BY <1>1, <1>2, <1>4, <1>r DEF StartInv, ReceiptInv, Holds, Onward, After, Started
<1>6. \A d \in Executions \ {e} : Frame(d)
  BY <1>1, <1>2 DEF Frame
<1>7. \A c \in Callers : CallKept(c)
  BY <1>1, <1>2, CallsGoOn
<1> QED BY <1>3, <1>5, <1>6, <1>7, StepKeeps

LEMMA StartFailsKeeps ==
    ASSUME Types, Inv, NEW e \in Executions, StartFails(e)
    PROVE  Types' /\ Inv' /\ \A d \in Executions : Onward(d)
<1>1. PICK pc \in {"clean", "ended"} :
        /\ starter[e].pc \in {"seal", "model", "submit"}
        /\ starter' \in [Executions -> Starters] /\ starter'[e].pc = pc
        /\ \A d \in Executions \ {e} : starter'[d] = starter[d]
        /\ receipt' \in {receipt, [receipt EXCEPT ![e] = Submitted]}
        /\ receipt' # receipt => starter[e].pc = "seal" /\ pc = "clean"
        /\ model' \in {model, model \union {e}} /\ (pc = "ended" => model' = model)
        /\ UNCHANGED <<lock, schedule, job, age, evidence, call>> /\ Fault
  <2>1. CASE StarterAt(e, "seal") /\ receipt' \in {receipt, [receipt EXCEPT ![e] = Submitted]}
             /\ starter' = [starter EXCEPT ![e] = [pc |-> "clean", fresh |-> TRUE]] /\ UNCHANGED model
    <3>1. /\ starter' \in [Executions -> Starters] /\ starter'[e].pc = "clean"
          /\ \A d \in Executions \ {e} : starter'[d] = starter[d]
      BY <2>1 DEF Types, Starters, StarterPcs
    <3> QED BY <2>1, <3>1 DEF StartFails, StarterAt
  <2>2. CASE StarterAt(e, "model") /\ model' \in {model, model \union {e}}
             /\ StarterGoto(e, "clean") /\ UNCHANGED receipt
    <3>1. /\ starter' \in [Executions -> Starters] /\ starter'[e].pc = "clean"
          /\ \A d \in Executions \ {e} : starter'[d] = starter[d]
      BY <2>2, GotoType DEF StarterPcs
    <3> QED BY <2>2, <3>1 DEF StartFails, StarterAt
  <2>3. CASE StarterAt(e, "submit") /\ StarterGoto(e, "ended") /\ UNCHANGED <<receipt, model>>
    <3>1. /\ starter' \in [Executions -> Starters] /\ starter'[e].pc = "ended"
          /\ \A d \in Executions \ {e} : starter'[d] = starter[d]
      BY <2>3, GotoType DEF StarterPcs
    <3> QED BY <2>3, <3>1 DEF StartFails, StarterAt
  <2> QED BY <2>1, <2>2, <2>3 DEF StartFails
<1>2. /\ receipt' \in [Executions -> Receipts] /\ receipt'[e] \in {receipt[e], Submitted}
      /\ \A d \in Executions \ {e} : receipt'[d] = receipt[d]
  BY <1>1, NoneAreReceipts DEF Types
<1>r. NoReceipt.status \notin Terminal /\ NoReceipt.cleanup # "DELETED" /\ Submitted # NoReceipt
      /\ Submitted.status \notin Terminal /\ Submitted.cleanup # "DELETED" /\ Submitted.status # "none"
      /\ NoReceipt.status # "COMPLETED" /\ Submitted.status # "COMPLETED"
  BY NoneAreReceipts DEF Terminal
<1>3. Types'
  BY <1>1, <1>2, FaultsType DEF Types
<1>4. StartInv(e) /\ ReceiptInv(e)
  BY DEF Inv
<1>5. StartInv(e)' /\ ReceiptInv(e)' /\ Onward(e)
  BY <1>1, <1>2, <1>4, <1>r DEF StartInv, ReceiptInv, Holds, Onward, After, Started
<1>6. \A d \in Executions \ {e} : Frame(d)
  BY <1>1, <1>2 DEF Frame
<1>7. \A c \in Callers : CallKept(c)
  BY <1>1, <1>2, <1>r, CallsGoOn
<1> QED BY <1>3, <1>5, <1>6, <1>7, StepKeeps

LEMMA CleanUpKeeps ==
    ASSUME Types, Inv, NEW e \in Executions, CleanUp(e)
    PROVE  Types' /\ Inv' /\ \A d \in Executions : Onward(d)
<1>1. PICK pc \in {"close deleted", "close pending"} :
        /\ starter[e].pc = "clean" /\ StarterGoto(e, pc)
        /\ model' \in {model, model \ {e}} /\ (pc = "close deleted" => e \notin model')
        /\ UNCHANGED <<lock, schedule, receipt, job, age, evidence, call>>
        /\ UNCHANGED faults \/ Fault
  BY DEF CleanUp, StarterAt
<1>m. /\ model' \in SUBSET Executions /\ faults' \in 0 .. MaxFaults
      /\ UNCHANGED <<lock, schedule, receipt, job, age, evidence, call>>
  BY <1>1, FaultsType DEF Types
<1>2. /\ starter' \in [Executions -> Starters] /\ starter'[e].pc = pc
      /\ \A d \in Executions \ {e} : starter'[d] = starter[d]
  BY <1>1, GotoType DEF StarterPcs
<1>r. NoReceipt.status \notin Terminal /\ NoReceipt.cleanup # "DELETED"
      /\ Submitted.status \notin Terminal /\ Submitted.cleanup # "DELETED"
  BY NoneAreReceipts DEF Terminal
<1>3. Types'
  BY <1>1, <1>2, <1>m DEF Types
<1>4. StartInv(e) /\ ReceiptInv(e)
  BY DEF Inv
<1>5. StartInv(e)' /\ ReceiptInv(e)' /\ Onward(e)
  BY <1>1, <1>2, <1>4, <1>r DEF StartInv, ReceiptInv, Holds, Onward, After, Started
<1>6. \A d \in Executions \ {e} : Frame(d)
  BY <1>1, <1>2 DEF Frame
<1>7. \A c \in Callers : CallKept(c)
  BY <1>1, <1>2, CallsGoOn
<1> QED BY <1>3, <1>5, <1>6, <1>7, StepKeeps

LEMMA ReleaseStartedKeeps ==
    ASSUME Types, Inv, NEW e \in Executions, ReleaseStarted(e)
    PROVE  Types' /\ Inv' /\ \A d \in Executions : Onward(d)
<1>1. /\ starter[e].pc = "release" /\ StarterGoto(e, "refused") /\ lock' = Released(e)
      /\ UNCHANGED <<schedule, receipt, model, job, age, evidence, call, faults>>
  BY DEF ReleaseStarted, StarterAt
<1>2. /\ starter' \in [Executions -> Starters] /\ starter'[e].pc = "refused"
      /\ \A d \in Executions \ {e} : starter'[d] = starter[d]
  BY <1>1, GotoType DEF StarterPcs
<1>l. lock' \in Executions \union {NobodyHolds} /\ (lock # e => lock' = lock)
  BY <1>1, ReleasedType
<1>j. job[e] \notin InProgress
  BY <1>1 DEF Inv, StartInv, After, InProgress
<1>3. Types'
  BY <1>1, <1>2, <1>l DEF Types
<1>4. StartInv(e) /\ ReceiptInv(e)
  BY DEF Inv
<1>5. StartInv(e)' /\ ReceiptInv(e)' /\ Onward(e)
  BY <1>1, <1>2, <1>4, <1>j DEF StartInv, ReceiptInv, Holds, Onward, After, Started
<1>6. \A d \in Executions \ {e} : Frame(d)
  BY <1>1, <1>2, <1>l DEF Frame
<1>7. \A c \in Callers : CallKept(c)
  BY <1>1, <1>2, CallsGoOn
<1> QED BY <1>3, <1>5, <1>6, <1>7, StepKeeps

\* A request that asks for the holder of the lock has a call of its own.
LEMMA AskingKnows ==
    ASSUME NEW e \in Executions, NEW holder \in Executions, NEW after \in {"again", "give up"},
           Types, StarterCalls(e, holder, after)
    PROVE  CallInv(e)'
<1>a. after \in StarterPcs
  BY DEF StarterPcs
<1>1. /\ call'[e].pc = "read" /\ call'[e].of = holder
      /\ starter'[e].pc = after
  BY <1>a, StarterCallsType
<1>2. e \notin Invocations
  BY CallerAssumption
<1> QED BY <1>1, <1>2 DEF CallInv, Knows, Asked, Describes, Writes, Releases

\* A call that is not under way knows nothing.
LEMMA IdleKnows == ASSUME NEW c, call'[c].pc = "idle" PROVE CallInv(c)'
BY DEF CallInv, Knows, Asked, Describes, Writes, Releases

\* Another's call is kept by a step that changes no receipt and no other starter.
LEMMA OtherCallsStay ==
    ASSUME Types, NEW e \in Executions,
           \A d \in Executions \ {e} : starter'[d].pc = starter[d].pc,
           \A c \in Callers \ {e} : call'[c] = call[c],
           receipt' = receipt
    PROVE  \A c \in Callers \ {e} : CallKept(c)
BY DEF CallKept

LEMMA MeetLockKeeps ==
    ASSUME Types, Inv, NEW e \in Executions, MeetLock(e)
    PROVE  Types' /\ Inv' /\ \A d \in Executions : Onward(d)
<1>1. /\ starter[e].pc = "lock" /\ lock \in Executions
      /\ UNCHANGED <<lock, schedule, receipt, model, age, evidence, faults>>
  BY DEF MeetLock, Types, StarterAt
<1>2. StartInv(e) /\ ReceiptInv(e)
  BY DEF Inv
<1>3. CASE StarterGoto(e, "refused") /\ UNCHANGED call
           /\ (job' = job \/ job' = [job EXCEPT ![lock] = IF @ = "running" THEN "stopping" ELSE @])
  <2>1. /\ starter' \in [Executions -> Starters] /\ starter'[e].pc = "refused"
        /\ \A d \in Executions \ {e} : starter'[d] = starter[d]
    BY <1>3, GotoType DEF StarterPcs
  <2>2. /\ job' \in [Executions -> {"none", "running", "stopping", "completed", "failed", "stopped"}]
        /\ \A d \in Executions : job'[d] = job[d] \/ (job[d] = "running" /\ job'[d] = "stopping")
    BY <1>1, <1>3 DEF Types
  <2>3. Types'
    BY <1>1, <1>3, <2>1, <2>2 DEF Types
  <2>4. job[e] = "none" /\ job'[e] = "none"
    BY <1>1, <1>2, <2>2 DEF StartInv, After
  <2>5. StartInv(e)' /\ ReceiptInv(e)' /\ Onward(e)
    BY <1>1, <1>2, <2>1, <2>4 DEF StartInv, ReceiptInv, Holds, Onward, After, Started
  <2>6. \A d \in Executions \ {e} : Frame(d)
    BY <1>1, <2>1, <2>2 DEF Frame
  <2>7. \A c \in Callers : CallKept(c)
    BY <1>1, <1>3, <2>1, CallsGoOn
  <2> QED BY <2>3, <2>5, <2>6, <2>7, StepKeeps
<1>4. ASSUME NEW after \in {"again", "give up"}, StarterCalls(e, lock, after), UNCHANGED job
      PROVE  Types' /\ Inv' /\ \A d \in Executions : Onward(d)
  <2>a. after \in StarterPcs
    BY DEF StarterPcs
  <2>1. /\ call' \in [Callers -> Calls] /\ starter' \in [Executions -> Starters]
        /\ \A c \in Callers \ {e} : call'[c] = call[c]
        /\ starter'[e].pc = after /\ \A d \in Executions \ {e} : starter'[d] = starter[d]
    <3>1. PICK holder \in Executions : holder = lock
      BY <1>1
    <3>2. StarterCalls(e, holder, after)
      BY <1>4, <3>1
    <3> QED BY <2>a, <3>2, StarterCallsType
  <2>2. Types'
    BY <1>1, <1>4, <2>1 DEF Types
  <2>3. StartInv(e)' /\ ReceiptInv(e)' /\ Onward(e)
    BY <1>1, <1>2, <1>4, <2>1 DEF StartInv, ReceiptInv, Holds, Onward, After, Started
  <2>4. \A d \in Executions \ {e} : Frame(d)
    BY <1>1, <1>4, <2>1 DEF Frame
  <2>5. \A c \in Callers \ {e} : CallKept(c)
    BY <1>1, <2>1, OtherCallsStay
  <2>6. CallInv(e)'
    BY <1>1, <1>4, AskingKnows
  <2> QED BY <2>2, <2>3, <2>4, <2>5, <2>6, StepKeeps
<1> QED BY <1>3, <1>4 DEF MeetLock

LEMMA AfterStaleCallKeeps ==
    ASSUME Types, Inv, NEW e \in Executions, AfterStaleCall(e)
    PROVE  Types' /\ Inv' /\ \A d \in Executions : Onward(d)
<1>1. /\ starter[e].pc \in {"again", "give up"} /\ call[e].pc = "returned" /\ e \in Callers
      /\ UNCHANGED <<schedule, receipt, model, job, age, evidence, faults>>
  BY DEF AfterStaleCall, Callers
<1>2. StartInv(e) /\ ReceiptInv(e) /\ Asked(e, call[e], call[e].of)
  BY <1>1 DEF Inv, CallInv, Knows
<1>3. call[e].of \in Executions
  BY <1>1, <1>2 DEF Asked
<1>4. ASSUME NEW pc \in {"seal", "refused"}, StarterGoto(e, pc), call' = [call EXCEPT ![e] = NoCall],
             (lock = NobodyHolds /\ lock' = e) \/ (pc = "refused" /\ lock' = lock)
      PROVE  Types' /\ Inv' /\ \A d \in Executions : Onward(d)
  <2>1. /\ starter' \in [Executions -> Starters] /\ starter'[e].pc = pc
        /\ \A d \in Executions \ {e} : starter'[d] = starter[d]
    BY <1>4, GotoType DEF StarterPcs
  <2>2. /\ call' \in [Callers -> Calls] /\ call'[e].pc = "idle"
        /\ \A c \in Callers \ {e} : call'[c] = call[c]
    BY <1>1, <1>4, NoneAreReceipts DEF Types
  <2>3. Types'
    BY <1>1, <1>4, <2>1, <2>2 DEF Types
  <2>r. /\ NoReceipt.status # "COMPLETED" /\ Submitted.status # "COMPLETED"
        /\ NoReceipt.status \notin Terminal /\ Submitted.status \notin Terminal
        /\ NoReceipt.cleanup # "DELETED" /\ Submitted.cleanup # "DELETED"
    BY NoneAreReceipts DEF Terminal
  <2>4. StartInv(e)' /\ ReceiptInv(e)' /\ Onward(e)
    BY <1>1, <1>2, <1>4, <2>1, <2>r DEF StartInv, ReceiptInv, Holds, Onward, After, Started, InProgress
  <2>5. \A d \in Executions \ {e} : Frame(d)
    BY <1>1, <1>4, <2>1, CallerAssumption DEF Frame, NobodyHolds
  <2>6. \A c \in Callers \ {e} : CallKept(c)
    BY <1>1, <2>1, <2>2, OtherCallsStay
  <2>7. CallInv(e)'
    BY <2>2, IdleKnows
  <2> QED BY <2>3, <2>4, <2>5, <2>6, <2>7, StepKeeps
<1>5. ASSUME StarterCalls(e, call[e].of, "give up"), UNCHANGED lock
      PROVE  Types' /\ Inv' /\ \A d \in Executions : Onward(d)
  <2>1. /\ call' \in [Callers -> Calls] /\ starter' \in [Executions -> Starters]
        /\ \A c \in Callers \ {e} : call'[c] = call[c]
        /\ starter'[e].pc = "give up" /\ \A d \in Executions \ {e} : starter'[d] = starter[d]
    BY <1>3, <1>5, StarterCallsType DEF StarterPcs
  <2>2. Types'
    BY <1>1, <1>5, <2>1 DEF Types
  <2>3. StartInv(e)' /\ ReceiptInv(e)' /\ Onward(e)
    BY <1>1, <1>2, <1>5, <2>1 DEF StartInv, ReceiptInv, Holds, Onward, After, Started
  <2>4. \A d \in Executions \ {e} : Frame(d)
    BY <1>1, <1>5, <2>1 DEF Frame
  <2>5. \A c \in Callers \ {e} : CallKept(c)
    BY <1>1, <2>1, OtherCallsStay
  <2>6. CallInv(e)'
    BY <1>3, <1>5, AskingKnows
  <2> QED BY <2>2, <2>3, <2>4, <2>5, <2>6, StepKeeps
<1> QED BY <1>4, <1>5 DEF AfterStaleCall

LEMMA CloseReceiptKeeps ==
    ASSUME Types, Inv, NEW e \in Executions, CloseReceipt(e)
    PROVE  Types' /\ Inv' /\ \A d \in Executions : Onward(d)
<1> DEFINE closed == [status |-> "FAILED",
                      cleanup |-> IF StarterAt(e, "close deleted") THEN "DELETED" ELSE "PENDING"]
<1>1. PICK pc \in {"release", "ended"} :
        /\ starter[e].pc \in {"close deleted", "close pending"} /\ StarterGoto(e, pc)
        /\ evidence' = [evidence EXCEPT ![e] = @ \union {"failed"}]
        /\ UNCHANGED <<lock, schedule, model, job, age, faults>>
  BY DEF CloseReceipt
<1>2. /\ starter' \in [Executions -> Starters] /\ starter'[e].pc = pc
      /\ \A d \in Executions \ {e} : starter'[d] = starter[d]
  BY <1>1, GotoType DEF StarterPcs
<1>3. /\ evidence' \in [Executions -> SUBSET {"completed", "failed"}]
      /\ "completed" \in evidence'[e] <=> "completed" \in evidence[e]
      /\ \A d \in Executions \ {e} : evidence'[d] = evidence[d]
  BY <1>1 DEF Types
<1>4. /\ closed \in Receipts /\ closed.status = "FAILED"
      /\ closed.cleanup = "DELETED" => starter[e].pc = "close deleted"
  BY DEF Receipts, Terminal, StarterAt
<1>5. \/ receipt' = [receipt EXCEPT ![e] = closed] /\ call' = OutdatedCalls(e)
      \/ UNCHANGED <<receipt, call>>
  BY DEF CloseReceipt
<1> HIDE DEF closed
<1>6. /\ receipt' \in [Executions -> Receipts] /\ receipt'[e] \in {receipt[e], closed}
      /\ \A d \in Executions \ {e} : receipt'[d] = receipt[d]
  BY <1>4, <1>5 DEF Types
<1>c. call' \in [Callers -> Calls]
  BY <1>5, OutdatedType DEF Types
<1>7. Types'
  BY <1>1, <1>2, <1>3, <1>6, <1>c DEF Types
<1>8. StartInv(e) /\ ReceiptInv(e)
  BY DEF Inv
<1>r. /\ NoReceipt.status # "COMPLETED" /\ Submitted.status # "COMPLETED"
      /\ NoReceipt.status \notin Terminal /\ Submitted.status \notin Terminal
      /\ NoReceipt.cleanup # "DELETED" /\ Submitted.cleanup # "DELETED"
      /\ NoReceipt.status = "none" /\ closed.status \in Terminal /\ closed # NoReceipt
      /\ closed.status # "none"
  BY <1>4, NoneAreReceipts DEF Terminal
<1>9. StartInv(e)' /\ ReceiptInv(e)' /\ Onward(e)
  <2>1. /\ job[e] = "none" /\ job'[e] = "none" /\ receipt[e] \in {NoReceipt, Submitted}
        /\ starter[e].pc = "close deleted" => e \notin model'
    BY <1>1, <1>8 DEF StartInv, After
  <2>s. receipt[e].status # "COMPLETED" /\ receipt[e].status \notin Terminal
        /\ receipt[e].cleanup # "DELETED"
    <3>1. CASE receipt[e] = NoReceipt
      BY <1>r, <3>1
    <3>2. CASE receipt[e] = Submitted
      BY <1>r, <3>2
    <3> QED BY <2>1, <3>1, <3>2
  <2>2. "completed" \notin evidence'[e]
    <3>1. "completed" \notin evidence[e]
      BY <1>8, <2>s DEF ReceiptInv
    <3> QED BY <1>3, <3>1
  <2>3. StartInv(e)'
    BY <1>1, <1>2, <1>8, <2>1 DEF StartInv, After, InProgress, Started
  <2>4. ReceiptInv(e)'
    <3>1. \/ receipt'[e] = receipt[e]
          \/ /\ receipt'[e].status = "FAILED" /\ receipt'[e].status \in Terminal
             /\ receipt'[e].cleanup = "DELETED" => starter[e].pc = "close deleted"
      BY <1>4, <1>6 DEF Terminal
    <3>2. CASE receipt'[e] = receipt[e]
      BY <2>s, <2>2, <3>2 DEF ReceiptInv
    <3>3. CASE receipt'[e] # receipt[e]
      BY <1>1, <1>2, <2>1, <2>2, <3>1, <3>3 DEF ReceiptInv, Holds, After, InProgress
    <3> QED BY <3>2, <3>3
  <2>5. Onward(e)
    <3>1. receipt'[e].status # "none" \/ receipt'[e] = receipt[e]
      BY <1>4, <1>6
    <3> QED BY <1>1, <1>2, <3>1, <2>s, <2>1 DEF Onward, After
  <2> QED BY <2>3, <2>4, <2>5
<1>10. \A d \in Executions \ {e} : Frame(d)
  BY <1>1, <1>2, <1>3, <1>6 DEF Frame
<1>11. \A c \in Callers : CallKept(c)
  BY <1>1, <1>2, <1>5, <1>6, CallsGoOn, OutdatedCallsGoOn
<1> QED BY <1>7, <1>9, <1>10, <1>11, StepKeeps

LEMMA StarterDiesKeeps ==
    ASSUME Types, Inv, NEW e \in Executions, StarterDies(e)
    PROVE  Types' /\ Inv' /\ \A d \in Executions : Onward(d)
<1>1. /\ starter[e].pc \notin {"ended", "disowned"} /\ StarterGoto(e, "ended") /\ e \in Callers
      /\ call' = [call EXCEPT ![e] = NoCall] /\ Fault
      /\ UNCHANGED <<lock, schedule, receipt, model, job, age, evidence>>
  BY DEF StarterDies, Starting, Started, Callers
<1>2. /\ starter' \in [Executions -> Starters] /\ starter'[e].pc = "ended"
      /\ \A d \in Executions \ {e} : starter'[d] = starter[d]
  BY <1>1, GotoType DEF StarterPcs
<1>3. /\ call' \in [Callers -> Calls] /\ call'[e].pc = "idle"
      /\ \A c \in Callers \ {e} : call'[c] = call[c]
  BY <1>1, NoneAreReceipts DEF Types
<1>4. faults' \in 0 .. MaxFaults
  BY <1>1, FaultsType
<1>5. Types'
  BY <1>1, <1>2, <1>3, <1>4 DEF Types
<1>6. StartInv(e) /\ ReceiptInv(e)
  BY DEF Inv
<1>7. StartInv(e)' /\ ReceiptInv(e)' /\ Onward(e)
  BY <1>1, <1>2, <1>6 DEF StartInv, ReceiptInv, Holds, Onward, After, Started
<1>8. \A d \in Executions \ {e} : Frame(d)
  BY <1>1, <1>2 DEF Frame
<1>9. \A c \in Callers \ {e} : CallKept(c)
  BY <1>1, <1>2, <1>3, OtherCallsStay
<1>10. CallInv(e)'
  BY <1>3, IdleKnows
<1> QED BY <1>5, <1>7, <1>8, <1>9, <1>10, StepKeeps

-----------------------------------------------------------------------------
(* The job and the clock.                                                  *)

LEMMA JobStepKeeps ==
    ASSUME Types, Inv, NEW e \in Executions, JobEnds(e) \/ JobFails(e)
    PROVE  Types' /\ Inv' /\ \A d \in Executions : Onward(d)
<1>1. PICK over \in {"completed", "failed", "stopped"} :
        /\ job[e] \in InProgress /\ job' = [job EXCEPT ![e] = over]
        /\ UNCHANGED <<starter, lock, schedule, receipt, model, age, evidence, call, faults>>
  BY DEF JobEnds, JobFails, InProgress, Types
<1>2. /\ job' \in [Executions -> {"none", "running", "stopping", "completed", "failed", "stopped"}]
      /\ job'[e] = over /\ over \notin InProgress /\ over # "none" /\ job[e] # "none"
      /\ \A d \in Executions \ {e} : job'[d] = job[d]
  BY <1>1 DEF Types, InProgress
<1>3. Types'
  BY <1>1, <1>2 DEF Types
<1>4. StartInv(e) /\ ReceiptInv(e)
  BY DEF Inv
<1>5. receipt[e].status \notin Terminal
  BY <1>1, <1>4 DEF ReceiptInv, Holds
<1>6. StartInv(e)' /\ ReceiptInv(e)' /\ Onward(e)
  BY <1>1, <1>2, <1>4, <1>5 DEF StartInv, ReceiptInv, Onward, Started
<1>7. \A d \in Executions \ {e} : Frame(d)
  BY <1>1, <1>2 DEF Frame
<1>8. \A c \in Callers : CallKept(c)
  BY <1>1 DEF CallKept
<1> QED BY <1>3, <1>6, <1>7, <1>8, StepKeeps

LEMMA TimePassesKeeps ==
    ASSUME Types, Inv, NEW e \in Executions, TimePasses(e)
    PROVE  Types' /\ Inv' /\ \A d \in Executions : Onward(d)
<1>1. /\ Started(e) /\ age' = [age EXCEPT ![e] = @ + 1]
      /\ UNCHANGED <<starter, lock, schedule, receipt, model, job, evidence, call, faults>>
  BY DEF TimePasses
<1>2. age[e] < 3
  BY DEF TimePasses, Types
<1>3. /\ age' \in [Executions -> 0 .. 3] /\ \A d \in Executions \ {e} : age'[d] = age[d]
  BY <1>1, <1>2 DEF Types
<1>4. Types'
  BY <1>1, <1>3 DEF Types
<1>5. StartInv(e) /\ ReceiptInv(e)
  BY DEF Inv
<1>6. StartInv(e)' /\ ReceiptInv(e)' /\ Onward(e)
  BY <1>1, <1>5 DEF StartInv, ReceiptInv, Holds, Onward, Started
<1>7. \A d \in Executions \ {e} : Frame(d)
  BY <1>1, <1>3 DEF Frame
<1>8. \A c \in Callers : CallKept(c)
  BY <1>1 DEF CallKept
<1> QED BY <1>4, <1>6, <1>7, <1>8, StepKeeps

-----------------------------------------------------------------------------
(* The steps of a call of get_execution.                                   *)

\* What a call c knows, e being the execution that it asked for.
LEMMA CallKnows ==
    ASSUME Types, Inv, NEW c \in Callers, call[c].pc # "idle"
    PROVE  /\ call[c].of \in Executions /\ call[c] \in Calls
           /\ Asked(c, call[c], call[c].of) /\ Describes(call[c], call[c].of)
           /\ Writes(call[c], call[c].of) /\ Releases(call[c], call[c].of)
BY DEF Types, Inv, CallInv, Knows, Asked

LEMMA AsksKeeps ==
    ASSUME Types, Inv, NEW c \in Readers \union Invocations, NEW e \in Executions, Asks(c, e),
           c \in Invocations => Started(e)
    PROVE  Types' /\ Inv' /\ \A d \in Executions : Onward(d)
<1>1. /\ call[c].pc = "idle" /\ call' = [call EXCEPT ![c] = [NoCall EXCEPT !.pc = "read", !.of = e]]
      /\ UNCHANGED <<starter, lock, schedule, receipt, model, job, age, evidence, faults>>
      /\ c \in Callers /\ c \notin Executions
  BY CallerAssumption DEF Asks, Callers
<1>2. /\ call' \in [Callers -> Calls] /\ call'[c].pc = "read" /\ call'[c].of = e
      /\ \A b \in Callers \ {c} : call'[b] = call[b]
  BY <1>1, ReadCall DEF Types
<1>3. Types'
  BY <1>1, <1>2 DEF Types
<1>4. CallInv(c)'
  BY <1>1, <1>2 DEF CallInv, Knows, Asked, Describes, Writes, Releases, Started
<1>5. \A b \in Callers \ {c} : CallKept(b)
  BY <1>1, <1>2 DEF CallKept
<1>6. \A d \in Executions : Frame(d)
  BY <1>1 DEF Frame
<1> QED BY <1>3, <1>4, <1>5, <1>6, OtherStepKeeps

LEMMA ReadReceiptKeeps ==
    ASSUME Types, Inv, NEW c \in Callers, ReadReceipt(c)
    PROVE  Types' /\ Inv' /\ \A d \in Executions : Onward(d)
<1>1. PICK e, seen : e = call[c].of /\ seen = receipt[e]
  OBVIOUS
<1>2. /\ call[c].pc = "read"
      /\ UNCHANGED <<starter, lock, schedule, receipt, model, job, age, evidence, faults>>
      /\ IF seen = NoReceipt
         THEN CallGoto(c, "missing")
         ELSE call' = [call EXCEPT ![c].fresh = TRUE, ![c].write = seen, ![c].met = "closed",
                ![c].pc = IF seen.status \notin Terminal THEN "describe"
                          ELSE IF seen.cleanup # "DELETED" THEN "delete" ELSE "release"]
  BY <1>1 DEF ReadReceipt
<1>3. e \in Executions /\ call[c] \in Calls /\ Asked(c, call[c], e) /\ seen \in Receipts
  BY <1>1, <1>2, CallKnows DEF Types
<1>4. CASE seen = NoReceipt
  <2>1. /\ call' \in [Callers -> Calls] /\ call'[c] = [call[c] EXCEPT !.pc = "missing"]
        /\ \A b \in Callers \ {c} : call'[b] = call[b]
    BY <1>2, <1>4, CallGotoType DEF CallPcs
  <2>2. call'[c].pc = "missing" /\ call'[c].of = e
    BY <1>1, <1>3, <2>1 DEF Calls
  <2>3. Types'
    BY <1>2, <2>1 DEF Types
  <2>4. CallInv(c)'
    BY <1>1, <1>2, <1>3, <1>4, <2>2 DEF CallInv, Knows, Asked, Describes, Writes, Releases, Started
  <2>5. \A b \in Callers \ {c} : CallKept(b)
    BY <1>2, <2>1 DEF CallKept
  <2>6. \A d \in Executions : Frame(d)
    BY <1>2 DEF Frame
  <2> QED BY <2>3, <2>4, <2>5, <2>6, OtherStepKeeps
<1>5. CASE seen # NoReceipt
  <2>1. PICK pc \in {"describe", "delete", "release"} :
          /\ call' = [call EXCEPT ![c].fresh = TRUE, ![c].write = seen, ![c].met = "closed",
                                  ![c].pc = pc]
          /\ pc = "describe" => seen.status \notin Terminal
          /\ pc # "describe" => seen.status \in Terminal
    BY <1>2, <1>5
  <2>2. /\ call' \in [Callers -> Calls] /\ call'[c].pc = pc /\ call'[c].of = e
        /\ call'[c].fresh = TRUE /\ call'[c].write = seen /\ call'[c].met = "closed"
        /\ \A b \in Callers \ {c} : call'[b] = call[b]
    <3>1. pc \in CallPcs /\ call \in [Callers -> Calls]
      BY DEF CallPcs, Types
    <3> QED BY <1>1, <1>3, <2>1, <3>1 DEF Calls
  <2>3. Types'
    BY <1>2, <2>2 DEF Types
  <2>4. StartInv(e) /\ ReceiptInv(e)
    BY <1>3 DEF Inv
  <2>5. seen.status # "none" /\ (seen.status \notin Terminal => seen.cleanup = "PENDING")
    BY <1>1, <1>3, <1>5, <2>4 DEF ReceiptInv, Receipts, NoReceipt, Terminal
  <2>6. seen.status \in Terminal => starter[e].pc \in After /\ Holds(e, seen)
    BY <1>1, <2>4 DEF ReceiptInv
  <2>7. CallInv(c)'
    <3>1. PICK n : n = call'[c]
      OBVIOUS
    <3>2. n.pc = pc /\ n.of = e /\ n.write = seen /\ n.met = "closed" /\ n.fresh = TRUE
      BY <2>2, <3>1
    <3>3. Asked(c, n, e)'
      BY <1>1, <1>2, <1>3, <2>5, <3>2 DEF Asked, Started
    <3>4. Describes(n, e)'
      BY <1>1, <1>2, <2>1, <2>5, <3>2 DEF Describes
    <3>5. Writes(n, e)'
      BY <1>1, <1>2, <2>1, <2>6, <3>2 DEF Writes, Holds
    <3>6. Releases(n, e)'
      BY <1>1, <1>2, <2>1, <2>6, <3>2 DEF Releases, Holds
    <3> QED BY <3>1, <3>2, <3>3, <3>4, <3>5, <3>6, CallIs DEF Knows
  <2>8. \A b \in Callers \ {c} : CallKept(b)
    BY <1>2, <2>2 DEF CallKept
  <2>9. \A d \in Executions : Frame(d)
    BY <1>2 DEF Frame
  <2> QED BY <2>3, <2>7, <2>8, <2>9, OtherStepKeeps
<1> QED BY <1>4, <1>5

\* The job of e may be told to stop; no other execution is touched.
LEMMA DescribeJobKeeps ==
    ASSUME Types, Inv, NEW c \in Callers, DescribeJob(c)
    PROVE  Types' /\ Inv' /\ \A d \in Executions : Onward(d)
<1>1. PICK e, k : e = call[c].of /\ k = call[c]
  OBVIOUS
<1>2. /\ k.pc = "describe" /\ e \in Executions /\ k \in Calls /\ k.of = e
      /\ Asked(c, k, e) /\ Describes(k, e)
      /\ UNCHANGED <<starter, lock, schedule, receipt, model, age, evidence>>
  BY <1>1, CallKnows DEF DescribeJob
<1>3. StartInv(e) /\ ReceiptInv(e)
  BY <1>2 DEF Inv
<1>4. CASE job[e] = "none" /\ age[e] = 0
  <2>1. call' = [call EXCEPT ![c] = NoCall] /\ UNCHANGED <<job, faults>>
    BY <1>1, <1>4 DEF DescribeJob
  <2>2. /\ call' \in [Callers -> Calls] /\ call'[c].pc = "idle"
        /\ \A b \in Callers \ {c} : call'[b] = call[b]
    BY <2>1, NoneAreReceipts DEF Types
  <2>3. Types'
    BY <1>2, <2>1, <2>2 DEF Types
  <2>4. CallInv(c)'
    BY <2>2, IdleKnows
  <2>5. \A b \in Callers \ {c} : CallKept(b)
    BY <1>2, <2>2 DEF CallKept
  <2>6. \A d \in Executions : Frame(d)
    BY <1>2, <2>1 DEF Frame
  <2> QED BY <2>3, <2>4, <2>5, <2>6, OtherStepKeeps
<1>5. CASE ~(job[e] = "none" /\ age[e] = 0)
  <2>1. PICK unread \in BOOLEAN :
          /\ IF unread THEN Fault ELSE UNCHANGED faults
          /\ call' = [call EXCEPT ![c].write.status = Verdict(e, unread),
               ![c].met = CASE job[e] = "none" -> "missing"
                            [] job[e] \in InProgress -> "running"
                            [] OTHER -> "over",
               ![c].pc = IF Verdict(e, unread) \in Terminal THEN "delete" ELSE "write"]
          /\ job' = IF job[e] = "running" /\ age[e] > 1
                    THEN [job EXCEPT ![e] = "stopping"] ELSE job
    BY <1>1, <1>5 DEF DescribeJob
  <2>2. PICK status, met, pc :
          /\ status = Verdict(e, unread)
          /\ met = CASE job[e] = "none" -> "missing" [] job[e] \in InProgress -> "running"
                     [] OTHER -> "over"
          /\ pc = IF status \in Terminal THEN "delete" ELSE "write"
    OBVIOUS
  <2>3. job[e] \in {"none", "running", "stopping", "completed", "failed", "stopped"}
    BY <1>2 DEF Types
  <2>4. /\ status \in Terminal \union {"IN_PROGRESS"} /\ status # "none"
        /\ status \in Terminal <=> job[e] \notin InProgress
        /\ status = "COMPLETED" => job[e] = "completed"
    BY <2>2, <2>3 DEF Verdict, Terminal, InProgress
  <2>5. /\ met \in {"missing", "running", "over"}
        /\ met = "running" <=> job[e] \in InProgress
    BY <2>2, <2>3 DEF InProgress
  <2>6. pc \in {"delete", "write"} /\ (pc = "delete" <=> status \in Terminal)
    BY <2>2
  <2>7. call' = [call EXCEPT ![c].write.status = status, ![c].met = met, ![c].pc = pc]
    BY <2>1, <2>2
  <2>8. /\ call' \in [Callers -> Calls] /\ call'[c].pc = pc /\ call'[c].of = e
        /\ call'[c].fresh = k.fresh /\ call'[c].met = met
        /\ call'[c].write.status = status /\ call'[c].write.cleanup = k.write.cleanup
        /\ \A b \in Callers \ {c} : call'[b] = call[b]
    <3>1. call \in [Callers -> Calls]
      BY DEF Types
    <3>3. PICK n : n = [k EXCEPT !.write.status = status, !.met = met, !.pc = pc]
      OBVIOUS
    <3>4. status \in Terminal \union {"none", "SUBMITTED", "IN_PROGRESS"}
          /\ met \in {"none", "closed", "missing", "running", "over"} /\ pc \in CallPcs
      BY <2>4, <2>5, <2>6 DEF CallPcs
    <3>5. /\ n \in Calls /\ n.pc = pc /\ n.of = e /\ n.fresh = k.fresh /\ n.met = met
          /\ n.write.status = status /\ n.write.cleanup = k.write.cleanup
      BY <1>2, <3>3, <3>4 DEF Calls, Receipts
    <3>6. call'[c] = n /\ call' \in [Callers -> Calls] /\ \A b \in Callers \ {c} : call'[b] = call[b]
      BY <1>1, <2>7, <3>1, <3>3, <3>5
    <3> QED BY <3>5, <3>6
  <2>9. /\ job' \in [Executions -> {"none", "running", "stopping", "completed", "failed", "stopped"}]
        /\ \A d \in Executions \ {e} : job'[d] = job[d]
        /\ job'[e] = job[e] \/ (job[e] = "running" /\ job'[e] = "stopping")
    BY <2>1 DEF Types
  <2>10. faults' \in 0 .. MaxFaults
    BY <2>1, FaultsType
  <2>11. Types'
    BY <1>2, <2>8, <2>9, <2>10 DEF Types
  <2>12. starter[e].pc \in After
    <3>1. age[e] \in 0 .. 3
      BY <1>2 DEF Types
    <3>2. age[e] # 0 => Started(e)
      <4>1. age[e] # 0 => age[e] > 0
        BY <3>1
      <4> QED BY <1>3, <4>1 DEF StartInv
    <3>3. job[e] # "none" => starter[e].pc \in After
      BY <1>3 DEF StartInv
    <3> QED BY <1>5, <3>2, <3>3 DEF Started, After
  <2>13. CallInv(c)'
    <3>1. PICK n : n = call'[c]
      OBVIOUS
    <3>2. /\ n.pc = pc /\ n.of = e /\ n.fresh = k.fresh /\ n.met = met
          /\ n.write.status = status /\ n.write.cleanup = k.write.cleanup
      BY <2>8, <3>1
    <3>3. Asked(c, n, e)'
      BY <1>2, <2>4, <2>6, <3>2 DEF Asked, Started
    <3>4. Describes(n, e)'
      BY <2>6, <3>2 DEF Describes
    <3>5. Writes(n, e)'
      <4>1. status \in Terminal => job'[e] = job[e] /\ job'[e] \notin InProgress
        BY <2>4, <2>9 DEF InProgress
      <4>2. k.write.cleanup = "PENDING" /\ (k.fresh => receipt'[e].status \notin Terminal)
        BY <1>2 DEF Describes
      <4>3. status \in Terminal => Holds(e, n.write)'
        BY <2>4, <3>2, <4>1, <4>2 DEF Holds
      <4>4. starter'[e].pc \in After
        BY <1>2, <2>12
      <4> QED BY <2>4, <2>5, <2>6, <3>2, <4>2, <4>3, <4>4 DEF Writes
    <3>6. Releases(n, e)'
      BY <2>6, <3>2 DEF Releases
    <3> QED BY <3>1, <3>2, <3>3, <3>4, <3>5, <3>6, CallIs DEF Knows
  <2>14. \A b \in Callers \ {c} : CallKept(b)
    BY <1>2, <2>8 DEF CallKept
  <2>15. \A d \in Executions : Frame(d)
    BY <1>2, <2>9 DEF Frame
  <2> QED BY <2>11, <2>13, <2>14, <2>15, OtherStepKeeps
<1> QED BY <1>4, <1>5

LEMMA DeleteModelKeeps ==
    ASSUME Types, Inv, NEW c \in Callers, DeleteModel(c)
    PROVE  Types' /\ Inv' /\ \A d \in Executions : Onward(d)
<1>1. PICK e, k : e = call[c].of /\ k = call[c]
  OBVIOUS
<1>2. /\ k.pc = "delete" /\ e \in Executions /\ k \in Calls /\ k.of = e
      /\ Asked(c, k, e) /\ Writes(k, e)
      /\ UNCHANGED <<starter, lock, schedule, receipt, job, age, evidence>>
  BY <1>1, CallKnows DEF DeleteModel
<1>3. PICK n \in Calls :
        /\ call' = [call EXCEPT ![c] = n]
        /\ n.pc = "write" /\ n.of = e /\ n.fresh = k.fresh /\ n.met = k.met
        /\ n.write.status = k.write.status
        /\ \/ n.write.cleanup = "DELETED" /\ model' = model \ {e} /\ UNCHANGED faults
           \/ n.write.cleanup = k.write.cleanup /\ UNCHANGED model /\ Fault
  <2>1. CASE /\ model' = model \ {e} /\ UNCHANGED faults
             /\ call' = [call EXCEPT ![c].pc = "write", ![c].write.cleanup = "DELETED"]
    <3>1. PICK n : n = [k EXCEPT !.pc = "write", !.write.cleanup = "DELETED"]
      OBVIOUS
    <3>2. /\ n \in Calls /\ n.pc = "write" /\ n.of = e /\ n.fresh = k.fresh /\ n.met = k.met
          /\ n.write.status = k.write.status /\ n.write.cleanup = "DELETED"
      BY <1>2, <3>1 DEF Calls, Receipts, CallPcs
    <3>3. call' = [call EXCEPT ![c] = n]
      BY <1>1, <2>1, <3>1 DEF Types
    <3> QED BY <2>1, <3>2, <3>3
  <2>2. CASE CallGoto(c, "write") /\ UNCHANGED model /\ Fault
    <3>1. PICK n : n = [k EXCEPT !.pc = "write"]
      OBVIOUS
    <3>2. /\ n \in Calls /\ n.pc = "write" /\ n.of = e /\ n.fresh = k.fresh /\ n.met = k.met
          /\ n.write.status = k.write.status /\ n.write.cleanup = k.write.cleanup
      BY <1>2, <3>1 DEF Calls, CallPcs
    <3>3. call' = [call EXCEPT ![c] = n]
      BY <1>1, <2>2, <3>1 DEF Types, CallGoto
    <3> QED BY <2>2, <3>2, <3>3
  <2> QED BY <1>1, <2>1, <2>2 DEF DeleteModel
<1>4. /\ call' \in [Callers -> Calls] /\ call'[c] = n
      /\ \A b \in Callers \ {c} : call'[b] = call[b]
  BY <1>3 DEF Types
<1>5. model' \in SUBSET Executions /\ faults' \in 0 .. MaxFaults /\ model' \subseteq model
  BY <1>3, FaultsType DEF Types
<1>6. Types'
  BY <1>2, <1>4, <1>5 DEF Types
<1>7. n.write.cleanup = "DELETED" => e \notin model'
  BY <1>2, <1>3 DEF Writes, Holds
<1>8. k.write.status \in Terminal
  BY <1>2 DEF Writes
<1>9. CallInv(c)'
  <2>1. Asked(c, n, e)'
    BY <1>2, <1>3 DEF Asked, Started
  <2>2. Describes(n, e)' /\ Releases(n, e)'
    BY <1>3 DEF Describes, Releases
  <2>3. Holds(e, n.write)'
    <3>1. /\ job'[e] \notin InProgress
          /\ n.write.status = "COMPLETED" => job'[e] = "completed"
      BY <1>2, <1>3, <1>8 DEF Writes, Holds
    <3> QED BY <1>7, <3>1 DEF Holds
  <2>4. Writes(n, e)'
    BY <1>2, <1>3, <1>8, <2>3 DEF Writes
  <2> QED BY <1>3, <1>4, <2>1, <2>2, <2>4, CallIs DEF Knows
<1>10. \A b \in Callers \ {c} : CallKept(b)
  BY <1>2, <1>4 DEF CallKept
<1>11. \A d \in Executions : Frame(d)
  BY <1>2, <1>5 DEF Frame
<1> QED BY <1>6, <1>9, <1>10, <1>11, OtherStepKeeps

\* A call that reaches WriteReceipt: what it returns, and what it leaves to do.
LEMMA WriteReceiptKeeps ==
    ASSUME Types, Inv, NEW c \in Callers, WriteReceipt(c)
    PROVE  Types' /\ Inv' /\ \A d \in Executions : Onward(d)
<1>1. PICK e, k : e = call[c].of /\ k = call[c]
  OBVIOUS
<1>2. PICK result : result = IF k.fresh THEN k.write ELSE receipt[e]
  OBVIOUS
<1>3. PICK others : others = IF k.fresh THEN OutdatedCalls(e) ELSE call
  OBVIOUS
<1>4. PICK done : done = (/\ k.met \in {"closed", "missing", "over"}
                          /\ (IF k.met = "missing" THEN result.cleanup ELSE k.write.cleanup) = "DELETED")
  OBVIOUS
<1>5. PICK n : n = IF done THEN [k EXCEPT !.pc = "release", !.write = result, !.fresh = FALSE]
                           ELSE Returned(c, result)
  OBVIOUS
<1>6. /\ k.pc = "write" /\ e \in Executions /\ k \in Calls /\ k.of = e
      /\ Asked(c, k, e) /\ Writes(k, e)
  BY <1>1, CallKnows DEF WriteReceipt
<1>7. /\ receipt' = [receipt EXCEPT ![e] = result]
      /\ starter' = IF k.fresh THEN Outdated(starter, e) ELSE starter
      /\ call' = [others EXCEPT ![c] = n]
      /\ evidence' = Recorded(e, k.write, result) \/ evidence' = evidence
      /\ UNCHANGED <<lock, schedule, model, job, age, faults>>
  BY <1>1, <1>2, <1>3, <1>4, <1>5 DEF WriteReceipt
<1>8. k.write \in Receipts /\ receipt[e] \in Receipts /\ result \in Receipts
  BY <1>2, <1>6 DEF Types, Calls
<1>9. /\ receipt' \in [Executions -> Receipts] /\ receipt'[e] = result
      /\ \A d \in Executions \ {e} : receipt'[d] = receipt[d]
  BY <1>6, <1>7, <1>8 DEF Types
<1>10. /\ starter' \in [Executions -> Starters]
       /\ \A d \in Executions : starter'[d].pc = starter[d].pc
  BY <1>6, <1>7, OutdatedStarters DEF Types
<1>11. /\ evidence' \in [Executions -> SUBSET {"completed", "failed"}]
       /\ "completed" \in evidence'[e] => "completed" \in evidence[e] \/ result.status = "COMPLETED"
       /\ \A d \in Executions \ {e} : evidence'[d] = evidence[d]
  <2>1. CASE evidence' = evidence
    BY <2>1 DEF Types
  <2>2. CASE evidence' = Recorded(e, k.write, result)
    BY <1>6, <2>2, RecordedType
  <2> QED BY <1>7, <2>1, <2>2
<1>12. /\ others \in [Callers -> Calls]
       /\ \A b \in Callers : /\ others[b].pc = call[b].pc /\ others[b].of = call[b].of
                             /\ others[b].met = call[b].met /\ others[b].write = call[b].write
                             /\ others[b].fresh => call[b].fresh /\ (k.fresh => call[b].of # e)
  <2>1. CASE k.fresh
    <3>1. others = OutdatedCalls(e)
      BY <1>3, <2>1
    <3>2. \A x \in Calls : LET y == [x EXCEPT !.fresh = FALSE]
                           IN  /\ y.pc = x.pc /\ y.of = x.of /\ y.met = x.met
                               /\ y.write = x.write /\ ~y.fresh
      BY DEF Calls
    <3>3. \A b \in Callers : call[b] \in Calls
      BY DEF Types
    <3>4. /\ others \in [Callers -> Calls]
          /\ \A b \in Callers : others[b] = IF call[b].of = e THEN [call[b] EXCEPT !.fresh = FALSE]
                                                              ELSE call[b]
      BY <1>6, <3>1, OutdatedType
    <3>5. ASSUME NEW b \in Callers
          PROVE  /\ others[b].pc = call[b].pc /\ others[b].of = call[b].of
                 /\ others[b].met = call[b].met /\ others[b].write = call[b].write
                 /\ others[b].fresh => call[b].fresh /\ call[b].of # e
      <4>1. CASE call[b].of = e
        <5>1. others[b] = [call[b] EXCEPT !.fresh = FALSE] /\ call[b] \in Calls
          BY <3>3, <3>4, <4>1
        <5> QED BY <3>2, <5>1
      <4>2. CASE call[b].of # e
        BY <3>4, <4>2
      <4> QED BY <4>1, <4>2
    <3> QED BY <3>4, <3>5
  <2>2. CASE ~k.fresh
    BY <1>3, <2>2 DEF Types
  <2> QED BY <2>1, <2>2
<1>13. /\ n \in Calls
       /\ done => n.pc = "release" /\ n.of = e /\ n.write = result
       /\ ~done => /\ n.pc \in {"idle", "returned", "unschedule"}
                   /\ n.pc # "idle" => n.of = e
                   /\ n.pc = "returned" => c \in Executions
                   /\ n.pc = "unschedule" => c \in Invocations
  <2>1. CASE done
    BY <1>5, <1>6, <1>8, <2>1 DEF Calls, CallPcs
  <2>2. CASE ~done
    BY <1>1, <1>5, <1>8, <2>2, ReturnedType
  <2> QED BY <2>1, <2>2
<1>14. call' \in [Callers -> Calls] /\ call'[c] = n /\ \A b \in Callers \ {c} : call'[b] = others[b]
  BY <1>7, <1>12, <1>13
<1>15. Types'
  BY <1>7, <1>9, <1>10, <1>11, <1>14 DEF Types
<1>16. StartInv(e) /\ ReceiptInv(e)
  BY <1>6 DEF Inv
<1>17. /\ starter[e].pc \in After /\ receipt[e].status # "none" /\ result.status # "none"
       /\ receipt[e].status \in Terminal => result.status = receipt[e].status
  BY <1>2, <1>6 DEF Asked, Writes
<1>18. /\ result.status \in Terminal => Holds(e, result)
       /\ result.cleanup = "DELETED" => result.status \in Terminal
  <2>1. CASE k.fresh
    BY <1>2, <1>6, <2>1 DEF Writes
  <2>2. CASE ~k.fresh
    BY <1>2, <1>16, <2>2 DEF ReceiptInv
  <2> QED BY <2>1, <2>2
<1>19. result # NoReceipt /\ receipt[e] # NoReceipt
  BY <1>17, NoneAreReceipts
<1>20. StartInv(e)' /\ ReceiptInv(e)' /\ Onward(e)
  <2>1. StartInv(e)'
    <3>1. starter'[e].pc = starter[e].pc
      BY <1>6, <1>10
    <3>2. starter[e].pc \notin {"seal", "model", "submit", "close deleted"}
      BY <1>17 DEF After
    <3> QED BY <1>7, <1>9, <1>16, <1>17, <1>19, <3>1, <3>2 DEF StartInv, Started
  <2>2. "completed" \in evidence'[e] => result.status = "COMPLETED"
    <3>1. receipt[e].status = "COMPLETED" => result.status = "COMPLETED"
      BY <1>17 DEF Terminal
    <3>2. "completed" \in evidence[e] => receipt[e].status = "COMPLETED"
      BY <1>16 DEF ReceiptInv
    <3> QED BY <1>11, <3>1, <3>2
  <2>3. ReceiptInv(e)'
    BY <1>7, <1>9, <1>10, <1>17, <1>18, <2>2 DEF ReceiptInv, Holds
  <2>4. Onward(e)
    BY <1>7, <1>9, <1>10, <1>17, <1>19 DEF Onward
  <2> QED BY <2>1, <2>3, <2>4
<1>21. CallInv(c)'
  <2>1. CASE done
    <3>1. job[e] \notin InProgress
      <4>1. k.met \in {"closed", "missing", "over"}
        BY <1>4, <2>1
      <4>2. k.write.status \in Terminal
        BY <1>6, <4>1 DEF Writes
      <4> QED BY <1>6, <4>2 DEF Writes, Holds
    <3>2. Asked(c, n, e)'
      BY <1>6, <1>9, <1>10, <1>13, <1>17, <2>1 DEF Asked, Started
    <3>3. Describes(n, e)' /\ Writes(n, e)'
      BY <1>13, <2>1 DEF Describes, Writes
    <3>4. Releases(n, e)'
      BY <1>7, <1>9, <1>10, <1>13, <1>17, <2>1, <3>1 DEF Releases
    <3>5. n.of = e
      BY <1>13, <2>1
    <3> QED BY <1>14, <3>2, <3>3, <3>4, <3>5, CallIs DEF Knows
  <2>2. CASE ~done
    <3>1. CASE n.pc = "idle"
      BY <1>14, <3>1, IdleKnows
    <3>2. CASE n.pc # "idle"
      <4>1. Asked(c, n, e)'
        BY <1>6, <1>10, <1>13, <2>2, <3>2 DEF Asked, Started
      <4>2. Describes(n, e)' /\ Writes(n, e)' /\ Releases(n, e)'
        BY <1>13, <2>2 DEF Describes, Writes, Releases
      <4>3. n.of = e
        BY <1>13, <2>2, <3>2
      <4> QED BY <1>14, <4>1, <4>2, <4>3, CallIs DEF Knows
    <3> QED BY <3>1, <3>2
  <2> QED BY <2>1, <2>2, <1>4
<1>22. \A b \in Callers \ {c} : CallKept(b)
  <2> SUFFICES ASSUME NEW b \in Callers \ {c} PROVE CallKept(b)
    OBVIOUS
  <2>1. /\ call'[b].pc = call[b].pc /\ call'[b].of = call[b].of
        /\ call'[b].met = call[b].met /\ call'[b].write = call[b].write
        /\ call'[b].fresh => call[b].fresh /\ (k.fresh => call[b].of # e)
    BY <1>12, <1>14
  <2>2. call[b].pc # "idle" => call[b].of \in Executions
    BY CallKnows
  <2>3. call[b].pc # "idle" /\ call'[b].fresh =>
          receipt'[call[b].of] = receipt[call[b].of]
    BY <1>2, <1>9, <2>1, <2>2
  <2>4. b \in Executions => starter'[b].pc = starter[b].pc
    BY <1>10
  <2> QED BY <2>1, <2>3, <2>4 DEF CallKept
<1>23. \A d \in Executions \ {e} : Frame(d)
  BY <1>7, <1>9, <1>10, <1>11 DEF Frame
<1>24. \A b \in Callers : CallKept(b) \/ CallInv(b)'
  BY <1>21, <1>22
<1> QED BY <1>6, <1>15, <1>20, <1>23, <1>24, StepKeeps

\* What a released lock leaves: e has no job that runs, and the others keep theirs.
LEMMA ReleaseLockKeeps ==
    ASSUME Types, Inv, NEW c \in Callers, ReleaseLock(c)
    PROVE  Types' /\ Inv' /\ \A d \in Executions : Onward(d)
<1>1. PICK e, k, result, n : /\ e = call[c].of /\ k = call[c] /\ result = k.write
                             /\ n = Returned(c, result)
  OBVIOUS
<1>2. /\ k.pc = "release" /\ e \in Executions /\ k \in Calls /\ k.of = e
      /\ Asked(c, k, e) /\ Releases(k, e)
      /\ lock' = Released(e) /\ evidence' = Recorded(e, result, result)
      /\ call' = [call EXCEPT ![c] = n]
      /\ UNCHANGED <<starter, schedule, receipt, model, job, age, faults>>
  BY <1>1, CallKnows DEF ReleaseLock
<1>3. result \in Receipts
  BY <1>1, <1>2 DEF Calls
<1>4. lock' \in Executions \union {NobodyHolds} /\ (lock # e => lock' = lock)
  BY <1>2, ReleasedType
<1>5. /\ evidence' \in [Executions -> SUBSET {"completed", "failed"}]
      /\ "completed" \in evidence'[e] => "completed" \in evidence[e] \/ result.status = "COMPLETED"
      /\ \A d \in Executions \ {e} : evidence'[d] = evidence[d]
  BY <1>2, RecordedType
<1>6. /\ n \in Calls /\ n.pc \in {"idle", "returned", "unschedule"}
      /\ n.pc # "idle" => n.of = e
      /\ n.pc = "returned" => c \in Executions
      /\ n.pc = "unschedule" => c \in Invocations
  BY <1>1, <1>3, ReturnedType
<1>7. call' \in [Callers -> Calls] /\ call'[c] = n /\ \A b \in Callers \ {c} : call'[b] = call[b]
  BY <1>2, <1>6 DEF Types
<1>8. Types'
  BY <1>2, <1>4, <1>5, <1>7 DEF Types
<1>9. StartInv(e) /\ ReceiptInv(e)
  BY <1>2 DEF Inv
<1>10. /\ starter[e].pc \in After /\ job[e] \notin InProgress
       /\ result.status = "COMPLETED" => receipt[e].status = "COMPLETED"
  BY <1>1, <1>2 DEF Releases
<1>11. StartInv(e)' /\ ReceiptInv(e)' /\ Onward(e)
  <2>1. starter[e].pc \notin {"seal", "model", "submit", "close deleted"}
    BY <1>10 DEF After
  <2>2. StartInv(e)'
    BY <1>2, <1>9, <1>10, <2>1 DEF StartInv, Started
  <2>3. ReceiptInv(e)'
    BY <1>2, <1>5, <1>9, <1>10 DEF ReceiptInv, Holds
  <2>4. Onward(e)
    BY <1>2 DEF Onward
  <2> QED BY <2>2, <2>3, <2>4
<1>12. CallInv(c)'
  <2>1. CASE n.pc = "idle"
    BY <1>7, <2>1, IdleKnows
  <2>2. CASE n.pc # "idle"
    <3>1. Asked(c, n, e)'
      BY <1>2, <1>6, <2>2 DEF Asked, Started
    <3>2. Describes(n, e)' /\ Writes(n, e)' /\ Releases(n, e)'
      BY <1>6 DEF Describes, Writes, Releases
    <3>3. n.of = e
      BY <1>6, <2>2
    <3> QED BY <1>7, <3>1, <3>2, <3>3, CallIs DEF Knows
  <2> QED BY <2>1, <2>2
<1>13. \A b \in Callers \ {c} : CallKept(b)
  BY <1>2, <1>7 DEF CallKept
<1>14. \A d \in Executions \ {e} : Frame(d)
  BY <1>2, <1>4, <1>5 DEF Frame
<1> QED BY <1>2, <1>8, <1>11, <1>12, <1>13, <1>14, StepKeeps

LEMMA ReceiptMissingKeeps ==
    ASSUME Types, Inv, NEW c \in Callers, ReceiptMissing(c)
    PROVE  Types' /\ Inv' /\ \A d \in Executions : Onward(d)
<1>1. PICK e, k : e = call[c].of /\ k = call[c]
  OBVIOUS
<1>2. /\ k.pc = "missing" /\ e \in Executions /\ k \in Calls /\ k.of = e /\ Asked(c, k, e)
      /\ UNCHANGED <<starter, schedule, receipt, model, job, age, evidence, faults>>
  BY <1>1, CallKnows DEF ReceiptMissing
<1>3. PICK n \in Calls :
        /\ call' = [call EXCEPT ![c] = n]
        /\ n.pc \in {"idle", "returned", "unschedule"} /\ (n.pc # "idle" => n.of = e)
        /\ c \in Invocations \/ lock' = lock
        /\ lock' = Released(e) \/ lock' = lock
  <2>1. CASE c \in Invocations
    <3>1. PICK n : n = [k EXCEPT !.pc = "unschedule"]
      OBVIOUS
    <3>2. n \in Calls /\ n.pc = "unschedule" /\ n.of = e
      BY <1>2, <3>1 DEF Calls, CallPcs
    <3>3. call' = [call EXCEPT ![c] = n] /\ lock' = Released(e)
      BY <1>1, <2>1, <3>1 DEF Types, CallGoto, ReceiptMissing
    <3> QED BY <2>1, <3>2, <3>3
  <2>2. CASE c \notin Invocations
    <3>1. PICK n : n = Returned(c, NoReceipt)
      OBVIOUS
    <3>2. /\ n \in Calls /\ n.pc \in {"idle", "returned", "unschedule"}
          /\ n.pc # "idle" => n.of = e
      BY <1>1, <3>1, NoneAreReceipts, ReturnedType
    <3>3. call' = [call EXCEPT ![c] = n] /\ lock' = lock
      BY <1>1, <2>2, <3>1 DEF ReceiptMissing
    <3> QED BY <2>2, <3>2, <3>3
  <2> QED BY <2>1, <2>2
<1>4. call' \in [Callers -> Calls] /\ call'[c] = n /\ \A b \in Callers \ {c} : call'[b] = call[b]
  BY <1>3 DEF Types
<1>5. lock' \in Executions \union {NobodyHolds} /\ (lock # e => lock' = lock)
  BY <1>2, <1>3, ReleasedType DEF Types
<1>6. Types'
  BY <1>2, <1>4, <1>5 DEF Types
<1>7. StartInv(e) /\ ReceiptInv(e)
  BY <1>2 DEF Inv
<1>8. c \in Invocations => starter[e].pc \in {"ended", "disowned"} /\ job[e] = "none"
  BY <1>2, <1>7 DEF Asked, Started, StartInv
<1>9. StartInv(e)' /\ ReceiptInv(e)' /\ Onward(e)
  <2>1. StartInv(e)'
    <3>1. CASE lock' = lock
      BY <1>2, <1>7, <3>1 DEF StartInv, Started
    <3>2. CASE c \in Invocations
      BY <1>2, <1>7, <1>8, <3>2 DEF StartInv, Started, InProgress
    <3> QED BY <1>3, <3>1, <3>2
  <2>2. ReceiptInv(e)' /\ Onward(e)
    BY <1>2, <1>7 DEF ReceiptInv, Holds, Onward
  <2> QED BY <2>1, <2>2
<1>10. CallInv(c)'
  <2>1. CASE n.pc = "idle"
    BY <1>4, <2>1, IdleKnows
  <2>2. CASE n.pc # "idle"
    <3>1. Asked(c, n, e)'
      BY <1>2, <1>3, <2>2 DEF Asked, Started
    <3>2. Describes(n, e)' /\ Writes(n, e)' /\ Releases(n, e)'
      BY <1>3 DEF Describes, Writes, Releases
    <3>3. n.of = e
      BY <1>3, <2>2
    <3> QED BY <1>4, <3>1, <3>2, <3>3, CallIs DEF Knows
  <2> QED BY <2>1, <2>2
<1>11. \A b \in Callers \ {c} : CallKept(b)
  BY <1>2, <1>4 DEF CallKept
<1>12. \A d \in Executions \ {e} : Frame(d)
  BY <1>2, <1>5 DEF Frame
<1> QED BY <1>2, <1>6, <1>9, <1>10, <1>11, <1>12, StepKeeps

LEMMA DeleteScheduleKeeps ==
    ASSUME Types, Inv, NEW c \in Callers, DeleteSchedule(c)
    PROVE  Types' /\ Inv' /\ \A d \in Executions : Onward(d)
<1>1. /\ schedule' \in SUBSET Executions /\ call' = [call EXCEPT ![c] = NoCall]
      /\ UNCHANGED <<starter, lock, receipt, model, job, age, evidence, faults>>
  BY DEF DeleteSchedule, Types
<1>2. /\ call' \in [Callers -> Calls] /\ call'[c].pc = "idle"
      /\ \A b \in Callers \ {c} : call'[b] = call[b]
  BY <1>1, NoneAreReceipts DEF Types
<1>3. Types'
  BY <1>1, <1>2 DEF Types
<1>4. CallInv(c)'
  BY <1>2, IdleKnows
<1>5. \A b \in Callers \ {c} : CallKept(b)
  BY <1>1, <1>2 DEF CallKept
<1>6. \A d \in Executions : Frame(d)
  BY <1>1 DEF Frame
<1> QED BY <1>3, <1>4, <1>5, <1>6, OtherStepKeeps

LEMMA CallDiesKeeps ==
    ASSUME Types, Inv, NEW c \in Callers, CallDies(c)
    PROVE  Types' /\ Inv' /\ \A d \in Executions : Onward(d)
<1>1. /\ call[c].pc # "idle" /\ call' = [call EXCEPT ![c] = NoCall] /\ Fault
      /\ UNCHANGED <<lock, schedule, receipt, model, job, age, evidence>>
  BY DEF CallDies
<1>2. /\ call' \in [Callers -> Calls] /\ call'[c].pc = "idle"
      /\ \A b \in Callers \ {c} : call'[b] = call[b]
  BY <1>1, NoneAreReceipts DEF Types
<1>3. faults' \in 0 .. MaxFaults
  BY <1>1, FaultsType
<1>4. CallInv(c)'
  BY <1>2, IdleKnows
<1>5. CASE c \in Executions
  <2>1. StarterGoto(c, "refused") /\ starter[c].pc \in {"again", "give up"}
    BY <1>1, <1>5, CallKnows DEF CallDies, Asked
  <2>2. /\ starter' \in [Executions -> Starters] /\ starter'[c].pc = "refused"
        /\ \A d \in Executions \ {c} : starter'[d] = starter[d]
    BY <1>5, <2>1, GotoType DEF StarterPcs
  <2>3. Types'
    BY <1>1, <1>2, <1>3, <2>2 DEF Types
  <2>4. StartInv(c) /\ ReceiptInv(c)
    BY <1>5 DEF Inv
  <2>5. StartInv(c)' /\ ReceiptInv(c)' /\ Onward(c)
    BY <1>1, <2>1, <2>2, <2>4 DEF StartInv, ReceiptInv, Holds, Onward, After, Started
  <2>6. \A d \in Executions \ {c} : Frame(d)
    BY <1>1, <2>2 DEF Frame
  <2>7. \A b \in Callers \ {c} : CallKept(b)
    BY <1>1, <1>2, <1>5, <2>2, OtherCallsStay
  <2> QED BY <1>4, <1>5, <2>3, <2>5, <2>6, <2>7, StepKeeps
<1>6. CASE c \notin Executions
  <2>1. UNCHANGED starter
    BY <1>6 DEF CallDies
  <2>2. Types'
    BY <1>1, <1>2, <1>3, <2>1 DEF Types
  <2>3. \A b \in Callers \ {c} : CallKept(b)
    BY <1>1, <1>2, <2>1 DEF CallKept
  <2>4. \A d \in Executions : Frame(d)
    BY <1>1, <2>1 DEF Frame
  <2> QED BY <1>4, <2>2, <2>3, <2>4, OtherStepKeeps
<1> QED BY <1>5, <1>6

-----------------------------------------------------------------------------
(* The theorems.                                                           *)

LEMMA InitHolds == Init => Types /\ Inv
<1> SUFFICES ASSUME Init PROVE Types /\ Inv
  OBVIOUS
<1>1. Types
  <2>1. /\ lock = NobodyHolds /\ schedule = {} /\ model = {} /\ faults = 0
        /\ receipt = [e \in Executions |-> NoReceipt]
        /\ job = [e \in Executions |-> "none"] /\ age = [e \in Executions |-> 0]
        /\ evidence = [e \in Executions |-> {}] /\ call = [c \in Callers |-> NoCall]
    BY DEF Init
  <2>2. starter \in [Executions -> Starters]
    BY DEF Init, Starters, StarterPcs
  <2>3. faults \in 0 .. MaxFaults
    BY <2>1, FaultAssumption
  <2> QED BY <2>1, <2>2, <2>3, NoneAreReceipts DEF Types
<1>2. ASSUME NEW e \in Executions PROVE StartInv(e) /\ ReceiptInv(e)
  <2>1. /\ starter[e].pc = "idle" /\ receipt[e] = NoReceipt /\ job[e] = "none" /\ age[e] = 0
        /\ evidence[e] = {}
    BY DEF Init
  <2>2. NoReceipt.status \notin Terminal /\ NoReceipt.cleanup # "DELETED"
    BY NoneAreReceipts DEF Terminal
  <2> QED BY <2>1, <2>2 DEF StartInv, ReceiptInv, InProgress
<1>3. ASSUME NEW c \in Callers PROVE CallInv(c)
  <2>1. call[c].pc = "idle"
    BY NoneAreReceipts DEF Init
  <2> QED BY <2>1 DEF CallInv, Knows, Asked, Describes, Writes, Releases
<1> QED BY <1>1, <1>2, <1>3 DEF Inv

LEMMA StartStepKeeps ==
    ASSUME Types, Inv, NEW e \in Executions, StartStep(e)
    PROVE  Types' /\ Inv' /\ \A d \in Executions : Onward(d)
<1>1. CASE CreateSchedule(e) \/ AcquireLock(e) \/ AcquireUnawares(e) \/ MeetLock(e)
  BY <1>1, CreateScheduleKeeps, AcquireLockKeeps, MeetLockKeeps
<1>2. CASE AfterStaleCall(e) \/ Refuse(e) \/ CreateReceipt(e) \/ CreateModel(e)
  BY <1>2, AfterStaleCallKeeps, RefuseKeeps, CreateReceiptKeeps, CreateModelKeeps
<1>3. CASE CreateJob(e) \/ WriteArn(e) \/ SealRefused(e) \/ StartFails(e)
  BY <1>3, CreateJobKeeps, WriteArnKeeps, SealRefusedKeeps, StartFailsKeeps
<1>4. CASE CleanUp(e) \/ CloseReceipt(e) \/ ReleaseStarted(e) \/ StarterDies(e)
  BY <1>4, CleanUpKeeps, CloseReceiptKeeps, ReleaseStartedKeeps, StarterDiesKeeps
<1> QED BY <1>1, <1>2, <1>3, <1>4 DEF StartStep

LEMMA CallStepKeeps ==
    ASSUME Types, Inv, NEW c \in Callers, CallStep(c) \/ CallDies(c)
    PROVE  Types' /\ Inv' /\ \A d \in Executions : Onward(d)
<1>1. CASE ReadReceipt(c) \/ DescribeJob(c) \/ DeleteModel(c) \/ WriteReceipt(c)
  BY <1>1, ReadReceiptKeeps, DescribeJobKeeps, DeleteModelKeeps, WriteReceiptKeeps
<1>2. CASE ReleaseLock(c) \/ ReceiptMissing(c) \/ DeleteSchedule(c) \/ CallDies(c)
  BY <1>2, ReleaseLockKeeps, ReceiptMissingKeeps, DeleteScheduleKeeps, CallDiesKeeps
<1> QED BY <1>1, <1>2 DEF CallStep

LEMMA NextKeeps ==
    ASSUME Types, Inv, [Next]_vars
    PROVE  Types' /\ Inv' /\ \A d \in Executions : Onward(d)
<1>1. ASSUME NEW e \in Executions, StartStep(e)
      PROVE  Types' /\ Inv' /\ \A d \in Executions : Onward(d)
  BY <1>1, StartStepKeeps
<1>2. ASSUME NEW e \in Executions, JobEnds(e) \/ JobFails(e) \/ TimePasses(e)
      PROVE  Types' /\ Inv' /\ \A d \in Executions : Onward(d)
  BY <1>2, JobStepKeeps, TimePassesKeeps
<1>3. ASSUME NEW e \in Executions, NEW r \in Readers, Read(r, e)
      PROVE  Types' /\ Inv' /\ \A d \in Executions : Onward(d)
  <2>1. Asks(r, e) /\ r \notin Invocations
    BY <1>3, CallerAssumption DEF Read
  <2> QED BY <2>1, AsksKeeps
<1>4. ASSUME NEW e \in Executions, NEW i \in Invocations, Invoke(i, e)
      PROVE  Types' /\ Inv' /\ \A d \in Executions : Onward(d)
  <2>1. Asks(i, e) /\ Started(e)
    BY <1>4 DEF Invoke, Inv, StartInv
  <2> QED BY <2>1, AsksKeeps
<1>5. ASSUME NEW c \in Callers, CallStep(c) \/ CallDies(c)
      PROVE  Types' /\ Inv' /\ \A d \in Executions : Onward(d)
  BY <1>5, CallStepKeeps
<1>6. CASE UNCHANGED vars
  <2>1. UNCHANGED <<starter, lock, schedule, receipt, model, job, age, evidence, call, faults>>
    BY <1>6 DEF vars
  <2>2. Types'
    BY <2>1 DEF Types
  <2>3. \A d \in Executions : Frame(d)
    BY <2>1 DEF Frame
  <2>4. \A c \in Callers : CallKept(c)
    BY <2>1 DEF CallKept
  <2> QED BY <2>2, <2>3, <2>4, OtherStepKeeps
<1> QED BY <1>1, <1>2, <1>3, <1>4, <1>5, <1>6 DEF Next

LEMMA InvHolds == Spec => [](Types /\ Inv)
<1>1. Init => Types /\ Inv
  BY InitHolds
<1>2. Types /\ Inv /\ [Next]_vars => (Types /\ Inv)'
  BY NextKeeps
<1> QED BY <1>1, <1>2, PTL DEF Spec

\* The variables have their types; a job has a receipt before it is submitted.
THEOREM TypeCorrect == Spec => []TypeOK
<1>1. Types /\ Inv => TypeOK
  <2> SUFFICES ASSUME Types, Inv PROVE TypeOK
    OBVIOUS
  <2>1. ASSUME NEW e \in Executions
        PROVE  /\ starter[e] \in Starters /\ receipt[e] \in Receipts
               /\ evidence[e] \subseteq {"completed", "failed"} /\ age[e] \in 0 .. 3
               /\ job[e] # "none" => receipt[e] # NoReceipt
    BY DEF Types, Inv, StartInv
  <2> QED BY <2>1 DEF TypeOK, Types, Starters, Receipts
<1> QED BY <1>1, InvHolds, PTL

\* A transform job runs only for the execution that the lock names, so that at most
\* one runs: nobody releases the lock of an execution whose job may still run.
THEOREM LockHeld == Spec => []JobHoldsLock
<1>1. Types /\ Inv => JobHoldsLock
  BY DEF Inv, StartInv, JobHoldsLock
<1> QED BY <1>1, InvHolds, PTL

\* A terminal receipt is true for ever: no job of its execution runs or can still
\* be submitted, COMPLETED stands for a completed job, DELETED for a deleted model.
THEOREM ReceiptTrue == Spec => []TerminalReceiptIsTrue
<1>1. Types /\ Inv => TerminalReceiptIsTrue
  BY DEF Inv, ReceiptInv, Holds, After, StarterAt, TerminalReceiptIsTrue
<1> QED BY <1>1, InvHolds, PTL

\* The signal "completed" is recorded only for an execution whose receipt says
\* COMPLETED and whose job did complete, whichever call recorded it.
THEOREM EvidenceTrue == Spec => []EvidenceIsTrue
<1>1. Types /\ Inv => EvidenceIsTrue
  BY DEF Inv, ReceiptInv, Holds, Terminal, EvidenceIsTrue
<1> QED BY <1>1, InvHolds, PTL

\* No step changes the status of a terminal receipt, however late a writer comes:
\* what it read is outdated by the put that closed the receipt.
THEOREM TerminalKept == Spec => TerminalIsFinal
<1> DEFINE Final == \A e \in Executions : receipt[e].status \in Terminal =>
                                            receipt'[e].status = receipt[e].status
<1>1. Types /\ Inv /\ [Next]_vars => Final
  BY NextKeeps DEF Onward
<1>2. (Final => [Final]_vars)
  OBVIOUS
<1> QED BY <1>1, <1>2, InvHolds, PTL DEF Spec, TerminalIsFinal
=============================================================================
