----------------------------- MODULE Acquisition -----------------------------
(* One public source of functions/public_acquisition/app.py.  A run fetches a
   bounded page of the source, retains it, compares the hashes of its records with
   those of the accepted snapshot, which an alias item names, puts its own snapshot
   in their place, and publishes what was added or changed to a Kinesis stream.
   The schedule starts runs as long as an operator leaves it on, operators start
   others, and nothing keeps two runs apart.  Sources share nothing but the
   operators' switch, and run_acquisition, which follows the awards, and
   run_feed_acquisition, which follows each of the others, take the same steps in
   the same order; they differ in what they report of a stream that refuses
   events. *)
EXTENDS Naturals, FiniteSets

CONSTANTS
  Records,          \* source_record_id
  FirstPage,        \* the records that a run of the profile "quick" sees
  Polls,            \* scheduled invocations that run at once
  Requests,         \* requests of operators that run at once
  MaxChanges,       \* bound on the changes of the source
  MaxSwitches,      \* bound on the operators' use of the switch
  MaxFailures       \* bound on failed calls and dead invocations

ASSUME PageAssumption == FirstPage \subseteq Records
ASSUME BoundAssumption == {MaxChanges, MaxSwitches, MaxFailures} \subseteq Nat

VARIABLES
  world,            \* the version of each record at the source; 0: there is none
  enabled,          \* the item PUBLIC_ACQUISITION_CONTROL
  alias,            \* the item ACQUISITION_ALIAS: the accepted record_hashes
  accepted,         \* the <<record, version>> that were ever in the alias
  run,              \* the runs under way
  told,             \* the <<record, version>> published to the stream
  withheld,         \* those of a run that reported a failure, or that died
  changes, switches, failures

data == <<alias, accepted, told, withheld>>
acquisitionVars == <<world, enabled, data, run, changes, switches, failures>>

Runners == Polls \union Requests

Nothing == [r \in Records |-> 0]
Idle == [pc |-> "idle", quick |-> FALSE, snapshot |-> Nothing, owed |-> {}]

AcquisitionInit ==
  /\ world = [r \in Records |-> 1]
  /\ enabled = TRUE
  /\ alias = Nothing
  /\ accepted = {} /\ told = {} /\ withheld = {}
  /\ run = [i \in Runners |-> Idle]
  /\ changes = 0 /\ switches = 0 /\ failures = 0

Failure == failures < MaxFailures /\ failures' = failures + 1
At(i, pc) == run[i].pc = pc
Becomes(i, r) == run' = [run EXCEPT ![i] = r]
Ends(i) == Becomes(i, Idle)

Pairs(snapshot) == {<<r, snapshot[r]>> : r \in {s \in Records : snapshot[s] # 0}}

MutantDiff(previous, current) ==  \* mutant: a changed record is not seen
  {<<r, current[r]>> : r \in {s \in Records : current[s] # 0 /\ previous[s] = 0}}

\* _diff: what there is to tell, added and changed records alike. A record that is
\* not observed is dropped in silence.
Diff(previous, current) == Pairs(current) \ Pairs(previous)

-----------------------------------------------------------------------------
(* Operators and the source *)

\* set_continuous_acquisition
Switch ==
  /\ switches < MaxSwitches
  /\ switches' = switches + 1
  /\ enabled' = ~enabled
  /\ UNCHANGED <<world, data, run, changes, failures>>

\* A record changes, disappears, or comes back.
SourceChanges(r) ==
  /\ changes < MaxChanges
  /\ changes' = changes + 1
  /\ \E version \in 0 .. changes + 2 :
       version # world[r] /\ world' = [world EXCEPT ![r] = version]
  /\ UNCHANGED <<enabled, data, run, switches, failures>>

-----------------------------------------------------------------------------
(* run_acquisition and run_feed_acquisition *)

\* The schedule invokes the handler, which skips the poll of a stopped control.
Poll(p) ==
  /\ At(p, "idle")
  /\ enabled
  /\ Becomes(p, [Idle EXCEPT !.pc = "fetch"])
  /\ UNCHANGED <<world, enabled, data, changes, switches, failures>>

\* An operator asks for a run of any profile, whatever the switch says.
Request(q) ==
  /\ At(q, "idle")
  /\ \E quick \in BOOLEAN : Becomes(q, [Idle EXCEPT !.pc = "fetch", !.quick = quick])
  /\ UNCHANGED <<world, enabled, data, changes, switches, failures>>

Page(i) == IF run[i].quick THEN FirstPage ELSE Records

\* The page is fetched and each record reduced to the fields that are kept, then to
\* their digest: a record that is not on the page, or that has no identity there, is
\* not of the snapshot.
Snapshot(i) == [r \in Records |-> IF r \in Page(i) THEN world[r] ELSE 0]

\* The snapshot is retained as two objects. A page without a valid record fails the
\* run.
Fetch(i) ==
  /\ At(i, "fetch")
  /\ IF Snapshot(i) = Nothing
     THEN Ends(i)
     ELSE Becomes(i, [Idle EXCEPT !.pc = "compare", !.snapshot = Snapshot(i)])
  /\ UNCHANGED <<world, enabled, data, changes, switches, failures>>

\* The alias is read, long before it is written: the narratives are classified and
\* the identities of the records indexed in between.
Compare(i) ==
  /\ At(i, "compare")
  /\ Becomes(i, [run[i] EXCEPT !.pc = "accept", !.owed = Diff(alias, run[i].snapshot)])
  /\ UNCHANGED <<world, enabled, data, changes, switches, failures>>

AliasIsPut(i) ==
  /\ alias' = run[i].snapshot
  /\ accepted' = accepted \union Pairs(run[i].snapshot)

MutantAccept(i) ==  \* mutant: a page without news is not put
  /\ At(i, "accept")
  /\ IF run[i].owed = {} THEN UNCHANGED <<alias, accepted>> ELSE AliasIsPut(i)
  /\ Becomes(i, [Idle EXCEPT !.pc = "publish", !.owed = run[i].owed])
  /\ UNCHANGED <<world, enabled, told, withheld, changes, switches, failures>>

\* _put_acquisition, then _put_alias, which nothing guards.
Accept(i) ==
  /\ At(i, "accept")
  /\ AliasIsPut(i)
  /\ Becomes(i, [Idle EXCEPT !.pc = "publish", !.owed = run[i].owed])
  /\ UNCHANGED <<world, enabled, told, withheld, changes, switches, failures>>

\* _publish_stream
Publish(i) ==
  /\ At(i, "publish")
  /\ told' = told \union run[i].owed
  /\ Ends(i)
  /\ UNCHANGED <<world, enabled, alias, accepted, withheld, changes, switches, failures>>

\* put_records raises, or takes only some of the events. A run of the awards signals
\* that the delivery is degraded; that of another source is recorded as failed, with
\* a signal that no snapshot was accepted.
PublishFails(i) ==
  /\ At(i, "publish")
  /\ Failure
  /\ \E some \in SUBSET run[i].owed : some # run[i].owed /\ told' = told \union some
  /\ withheld' = withheld \union run[i].owed
  /\ Ends(i)
  /\ UNCHANGED <<world, enabled, alias, accepted, changes, switches>>

\* The source, S3 or DynamoDB raises: the run is recorded as failed, in which case
\* the alias was put all the same if its answer was what was lost.
Fails(i) ==
  /\ run[i].pc \in {"fetch", "compare", "accept"}
  /\ Failure
  /\ Ends(i)
  /\ \/ UNCHANGED data
     \/ /\ At(i, "accept")
        /\ AliasIsPut(i)
        /\ withheld' = withheld \union run[i].owed
        /\ UNCHANGED told
  /\ UNCHANGED <<world, enabled, changes, switches>>

\* Lambda ends the invocation. Whatever it had accepted and not published, nobody
\* publishes: the next run finds it in the alias.
Dies(i) ==
  /\ ~At(i, "idle")
  /\ Failure
  /\ withheld' = IF At(i, "publish") THEN withheld \union run[i].owed ELSE withheld
  /\ Ends(i)
  /\ UNCHANGED <<world, enabled, alias, accepted, told, changes, switches>>

-----------------------------------------------------------------------------
RunStep(i) == Fetch(i) \/ Compare(i) \/ Accept(i) \/ Publish(i)

AcquisitionNext ==
  \/ Switch
  \/ \E r \in Records : SourceChanges(r)
  \/ \E p \in Polls : Poll(p)
  \/ \E q \in Requests : Request(q)
  \/ \E i \in Runners : RunStep(i) \/ PublishFails(i) \/ Fails(i) \/ Dies(i)

\* The schedule keeps invoking the handler, and Lambda ends what it begins.
Fairness ==
  /\ \A p \in Polls : WF_acquisitionVars(Poll(p))
  /\ \A i \in Runners : WF_acquisitionVars(RunStep(i))

AcquisitionSpec == AcquisitionInit /\ [][AcquisitionNext]_acquisitionVars /\ Fairness

-----------------------------------------------------------------------------
(* Properties *)

Snapshots == [Records -> 0 .. MaxChanges + 1]
News == Records \X (1 .. MaxChanges + 1)

\* Every variable has its type.
AcquisitionTypeOK ==
  /\ world \in Snapshots
  /\ enabled \in BOOLEAN
  /\ alias \in Snapshots
  /\ {accepted, told, withheld} \subseteq SUBSET News
  /\ run \in [Runners -> [pc : {"idle", "fetch", "compare", "accept", "publish"},
                              quick : BOOLEAN, snapshot : Snapshots, owed : SUBSET News]]
  /\ changes \in 0 .. MaxChanges /\ switches \in 0 .. MaxSwitches /\ failures \in 0 .. MaxFailures

OwedBy(pc) == UNION {run[i].owed : i \in {j \in Runners : At(j, pc)}}

\* What is or ever was in the accepted snapshot has been told to the stream, is about
\* to be, or was withheld by a run that reported a failure or died, however runs
\* overlap and whichever snapshot each of them compared its own with: a run may take
\* for old only what another run has to tell.
NoSilentChange == accepted \subseteq told \union withheld \union OwedBy("publish")

\* Nothing is told that was not accepted first ("emits only the accepted change
\* summary to Kinesis"), failed and dead runs included.
OnlyAcceptedIsTold == told \subseteq accepted

\* While the schedule is left on and the source has a record, the accepted snapshot
\* agrees with the source again and again, whatever the runs of other profiles put
\* there.
SourceIsFollowed ==
  <>[](enabled /\ world # Nothing) => []<>(Pairs(alias) = Pairs(world))
=============================================================================
