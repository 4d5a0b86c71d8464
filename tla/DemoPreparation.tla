--------------------------- MODULE DemoPreparation ---------------------------
(***************************************************************************)
(* The preparation of the demonstration (scripts/prepare_demo.py over the  *)
(* Lambda functions migrator/demo_prep.py and analytics): the fixtures of  *)
(* a checkout are staged in S3, the database is reset and loaded with      *)
(* them, the baseline is analysed, and a receipt says whether everything   *)
(* is ready.  Meanwhile the users of the demonstration go on, and other    *)
(* operators give their commands.  An action is a call of a command or a   *)
(* statement of a READ COMMITTED transaction; statements about the same    *)
(* tables that follow each other are one.                                  *)
(***************************************************************************)
EXTENDS DemoIdentities, Sequences

CONSTANTS
    Baseline,   \* the portfolio, and with it the licenses, and their batch
    Drops,      \* the drop fixtures, and their batches
    MaxVersion  \* bound: versions of the fixtures that the checkout goes through

ASSUME PreparationAssumption ==
    /\ Baseline \notin Drops /\ "other" \notin Drops \cup {Baseline}
    /\ MaxVersion \in Nat

Fixtures    == {Baseline} \cup Drops
DemoBatches == Fixtures
Batches     == DemoBatches \cup {"other"}
Who         == {"team", "presenter"}

VARIABLES
    local,     \* the version of the fixtures in the checkout
    staged,    \* demo-stage/: the bytes of each fixture, and the hash in its metadata
    live,      \* drops/: the version of each released drop, 0 when absent
    intakes,   \* object-created events, and executions that have read their object
    migrated,  \* whether the schema and the role are there
    grants,    \* grants_curated: for each batch, the load and the version of its rows
    landed,    \* the batches with rows in grants_raw, grant_quality or lineage
    approvals, \* the approval requests: by whom, for what
    runs,      \* model_runs, and with them their topics and lineage
    links,     \* grant_topics: a run and the rows it classifies
    flags,     \* anomalies: the rows that are flagged
    reseed,    \* the demo_reseed row of audit_log that bears the latest time
    analyses,  \* open transactions of the analytics function
    web,       \* a release of a drop through the API
    prep,      \* the command of each operator
    receipt,   \* what the last command of each operator said
    counts,    \* resets begun, loads committed, analyses begun
    alone      \* history: whether since the command began only its operator did anything, and
               \* nothing failed, and whether it began where it should succeed

bucket   == <<staged, live, intakes>>
database == <<migrated, grants, landed, approvals, runs, links, flags, reseed>>
vars == <<identityVars, commands, troubles, local, bucket, database, analyses, web, prep, receipt,
          counts, alone>>

NoVersions == [f \in Fixtures |-> 0]
NoObject   == [body |-> 0, hash |-> 0]
NoRelease  == [pc |-> "idle", drop |-> Baseline, body |-> 0]
NoCommand  == [cmd |-> "none", pc |-> "idle", version |-> 0, todo |-> {}, loaded |-> NoVersions,
               at |-> 0, seen |-> {}, links |-> {}, flags |-> {}, analysis |-> 0, good |-> TRUE]

Init ==
    /\ IdentityInit /\ commands = 0 /\ troubles = 0
    /\ local = 1
    /\ staged = [f \in Fixtures |-> NoObject] /\ live = [d \in Drops |-> 0] /\ intakes = {}
    /\ migrated = FALSE /\ grants = {} /\ landed = {} /\ approvals = {}
    /\ runs = {} /\ links = {} /\ flags = {}
    /\ reseed = [at |-> 0, load |-> 0, versions |-> NoVersions]
    /\ analyses = {} /\ web = NoRelease
    /\ prep = [o \in Operators |-> NoCommand]
    /\ receipt = [o \in Operators |-> "none"]
    /\ counts = [resets |-> 0, loads |-> 0, analyses |-> 0]
    /\ alone = [o \in Operators |-> "no"]

-----------------------------------------------------------------------------
(* Commands                                                                *)

At(o, pc)      == prep[o].pc = pc
Proceed(o, pc) == prep' = [prep EXCEPT ![o].pc = pc] /\ UNCHANGED receipt
End(o, said)   == prep' = [prep EXCEPT ![o] = NoCommand] /\ receipt' = [receipt EXCEPT ![o] = said]
Only(o)        == alone' = [p \in Operators |-> IF p = o /\ troubles' = troubles THEN alone[p] ELSE "no"]
Nothing        == alone' = [p \in Operators |-> "no"]

Quiet(o) ==
    /\ \A p \in Operators \ {o} : prep[p].pc = "idle" /\ conf[p].pc = "idle"
    /\ intakes = {} /\ analyses = {} /\ web = NoRelease

Demo(rows) == {row \in rows : row.batch \in DemoBatches}

\* DEMO_USERS and DEMO_MODEL_ACTORS do not have the presenter.
DemoActors == {"team", "preparer"}
RunIds     == {run.id : run \in runs}
Orphans    == \/ \E link \in links : link.run \notin RunIds \/ link.row \notin Demo(grants)
              \/ ~(flags \subseteq Demo(grants))

OnlyDemoState ==
    /\ grants \subseteq Demo(grants) /\ landed \subseteq DemoBatches
    /\ \A x \in approvals \cup runs : x.by \in DemoActors
    /\ ~Orphans

\* Nothing is left over that only an operator of the database can remove.
Clean == OnlyDemoState /\ Posture /\ \A a \in approvals : a.subject = "export"

\* The fixtures of the checkout are read and validated at once.
BeginCommand(o, cmd, todo, pc) ==
    /\ At(o, "idle") /\ conf[o].pc = "idle" /\ commands < MaxCommands
    /\ commands' = commands + 1
    /\ prep' = [prep EXCEPT ![o] = [NoCommand EXCEPT !.cmd = cmd, !.pc = pc, !.version = local,
                                                     !.todo = todo]]
    /\ receipt' = [receipt EXCEPT ![o] = "none"]
    /\ alone' = [p \in Operators |-> IF p # o \/ ~Quiet(o) THEN "no"
                                      ELSE IF cmd = "prepare" /\ Clean THEN "healing" ELSE "alone"]
    /\ UNCHANGED <<identityVars, troubles, local, bucket, database, analyses, web, counts>>

Prepare(o) == BeginCommand(o, "prepare", Fixtures, "identities")
Check(o)   == BeginCommand(o, "check", {}, "identities")
Release(o) == \E d \in Drops, cmd \in {"release", "redrop"} : BeginCommand(o, cmd, {d}, "guard")

\* The frames of the steps that follow.
IdentitiesKept == UNCHANGED <<identityVars, commands, local, web>>

VerifyIdentities(o) ==
    /\ At(o, "identities")
    /\ IF ~Posture THEN End(o, "error")
       ELSE Proceed(o, IF prep[o].cmd = "prepare" THEN "stage" ELSE "drops")
    /\ UNCHANGED <<bucket, database, analyses, counts, troubles>> /\ IdentitiesKept

\* The file is read again for the body; the hash is that of the first reading.
Stage(o) ==
    /\ At(o, "stage")
    /\ \E f \in prep[o].todo :
        /\ f # Baseline => Baseline \notin prep[o].todo
        /\ staged' = [staged EXCEPT ![f] = [body |-> local, hash |-> prep[o].version]]
        /\ prep' = [prep EXCEPT ![o] = [@ EXCEPT !.todo = prep[o].todo \ {f},
                                                 !.pc = IF prep[o].todo = {f} THEN "clear" ELSE "stage"]]
    /\ UNCHANGED <<live, intakes, database, analyses, counts, troubles, receipt>> /\ IdentitiesKept

\* delete-objects reports which keys it could not delete in an answer that nobody reads.
ClearDrops(o) ==
    /\ At(o, "clear")
    /\ \E deleted \in SUBSET Drops :
        /\ live' = [d \in Drops |-> IF d \in deleted THEN 0 ELSE live[d]]
        /\ IF deleted = Drops THEN UNCHANGED troubles ELSE Trouble
    /\ Proceed(o, "drops")
    /\ UNCHANGED <<staged, intakes, database, analyses, counts>> /\ IdentitiesKept

CheckDrops(o) ==
    /\ At(o, "drops")
    /\ LET absent == \A d \in Drops : live[d] = 0
       IN IF prep[o].cmd = "check"
          THEN /\ prep' = [prep EXCEPT ![o].pc = "preflight", ![o].good = absent]
               /\ UNCHANGED receipt
          ELSE IF absent THEN Proceed(o, "migrate") ELSE End(o, "error")
    /\ UNCHANGED <<bucket, database, analyses, counts, troubles>> /\ IdentitiesKept

\* Every migration can be applied again.
Migrate(o) ==
    /\ At(o, "migrate")
    /\ migrated' = TRUE
    /\ Proceed(o, "reset")
    /\ UNCHANGED <<bucket, grants, landed, approvals, runs, links, flags, reseed, analyses, counts,
                   troubles>>
    /\ IdentitiesKept

\* Every version of a fixture meets its contract.
MeetsContract(body) == body # 0
Valid(object) == MeetsContract(object.body) /\ object.hash = object.body

\* load_staged_fixtures, on the way to a reset or to the checks.
LoadStaged(o) ==
    /\ prep[o].pc \in {"reset", "preflight"}
    /\ IF migrated /\ \A f \in Fixtures : Valid(staged[f])
       THEN /\ prep' = [prep EXCEPT ![o].loaded = [f \in Fixtures |-> staged[f].body],
                                    ![o].pc = IF @ = "reset" THEN "begin" ELSE "rows"]
            /\ UNCHANGED receipt
       ELSE End(o, "error")
    /\ UNCHANGED <<bucket, database, analyses, counts, troubles>> /\ IdentitiesKept

-----------------------------------------------------------------------------
(* prepare: one transaction that resets and loads                          *)

BeginReset(o) ==
    /\ At(o, "begin")
    /\ counts' = [counts EXCEPT !.resets = @ + 1]
    /\ IF OnlyDemoState
       THEN /\ prep' = [prep EXCEPT ![o] = [@ EXCEPT !.pc = "delete", !.at = counts'.resets,
                           !.seen = {run.id : run \in {r \in runs : r.by \in DemoActors}}]]
            /\ UNCHANGED receipt
       ELSE End(o, "error")
    /\ UNCHANGED <<bucket, database, analyses, troubles>> /\ IdentitiesKept

\* What is deleted is gone for the others at the commit.
DeleteAnalytics(o) ==
    /\ At(o, "delete")
    /\ prep' = [prep EXCEPT ![o] = [@ EXCEPT !.pc = "load",
                    !.links = {l \in links : l.row \in Demo(grants) \/ l.run \in prep[o].seen},
                    !.flags = flags \cap Demo(grants)]]
    /\ UNCHANGED <<bucket, database, analyses, counts, troubles, receipt>> /\ IdentitiesKept

\* Mutants: the reset clears the tables; it forgets the approval requests.
MutantOwned(x) == TRUE
MutantOwnedRows(x) == "batch" \in DOMAIN x /\ x.batch \in DemoBatches
\* What the reset may delete: by batch, or by who asked for what.
Owned(x) == IF "batch" \in DOMAIN x THEN x.batch \in DemoBatches
            ELSE x.by \in DemoActors /\ x.subject = "export"

LoadBaseline(o) ==
    /\ At(o, "load")
    /\ LET load == counts.loads + 1
       IN /\ counts' = [counts EXCEPT !.loads = load]
          /\ grants' = {g \in grants : ~Owned(g)} \cup
                       {[batch |-> Baseline, load |-> load, version |-> prep[o].loaded[Baseline]]}
          /\ reseed' = IF prep[o].at > reseed.at
                       THEN [at |-> prep[o].at, load |-> load, versions |-> prep[o].loaded]
                       ELSE reseed
    /\ landed' = (landed \ DemoBatches) \cup {Baseline}
    /\ approvals' = {a \in approvals : ~Owned(a)}
    /\ runs' = {run \in runs : run.id \notin prep[o].seen}
    /\ links' = links \ prep[o].links
    /\ flags' = flags \ prep[o].flags
    /\ Proceed(o, "analyse")
    /\ UNCHANGED <<bucket, migrated, analyses, troubles>> /\ IdentitiesKept

\* Of two that delete before either commits, the second meets the grant numbers of the first.
ResetCollides(o) ==
    /\ At(o, "load") /\ \E p \in Operators \ {o} : At(p, "load")
    /\ End(o, "error")
    /\ UNCHANGED <<bucket, database, analyses, counts, troubles>> /\ IdentitiesKept

-----------------------------------------------------------------------------
(* Analytics: a transaction that reads the grants, for the topics and once *)
(* more for the amounts, and writes a run                                  *)

BeginAnalysis(by) ==
    /\ grants # {}
    /\ counts' = [counts EXCEPT !.analyses = @ + 1]
    /\ analyses' = analyses \cup {[id |-> counts'.analyses, by |-> by, pc |-> "amounts",
                                   rows |-> grants, amounts |-> {}]}

Analyse(o) ==
    /\ At(o, "analyse")
    /\ BeginAnalysis("preparer")
    /\ prep' = [prep EXCEPT ![o] = [@ EXCEPT !.pc = "analysing", !.analysis = counts'.analyses]]
    /\ UNCHANGED <<bucket, database, troubles, receipt>> /\ IdentitiesKept

\* _fetch_amounts, whose rows are flagged when the transaction commits.
ReadAmounts(a) ==
    /\ a.pc = "amounts"
    /\ analyses' = (analyses \ {a}) \cup {[a EXCEPT !.pc = "write", !.amounts = grants]}
    /\ UNCHANGED <<bucket, database, counts, troubles, prep, receipt>> /\ IdentitiesKept

\* The number of documents is that of the baseline.
Exact(rows) == {row.batch : row \in rows} = {Baseline}

CommitAnalysis(a) ==
    /\ a.pc = "write"
    /\ analyses' = analyses \ {a}
    /\ runs'  = runs \cup {[id |-> a.id, by |-> a.by, exact |-> Exact(a.rows), tagged |-> FALSE]}
    /\ links' = links \cup [run : {a.id}, row : a.rows]
    /\ flags' = flags \cup a.amounts
    /\ UNCHANGED <<bucket, migrated, grants, landed, approvals, reseed, counts, troubles>>
    /\ IdentitiesKept

Waits(o, a) == At(o, "analysing") /\ prep[o].analysis = a.id

ContinueAnalysis(o) == \E a \in analyses : Waits(o, a) /\ ReadAmounts(a)

FinishAnalysis(o) ==
    \E a \in analyses :
        /\ Waits(o, a)
        /\ CommitAnalysis(a)
        /\ IF Exact(a.rows) THEN Proceed(o, "finalize") ELSE End(o, "error")

\* Of a user, or of a command that is no more.
OtherAnalysis ==
    \E a \in analyses :
        /\ \A o \in Operators : ~Waits(o, a)
        /\ \/ ReadAmounts(a)
           \/ CommitAnalysis(a) /\ UNCHANGED <<prep, receipt>>

Finalize(o) ==
    /\ At(o, "finalize")
    /\ \/ \E run \in runs :
            /\ run.id = prep[o].analysis
            /\ \E link \in links : link.run = run.id
            /\ runs' = (runs \ {run}) \cup {[run EXCEPT !.tagged = TRUE]}
            /\ Proceed(o, "preflight")
       \/ /\ \A link \in links : link.run \in RunIds => link.run # prep[o].analysis
          /\ End(o, "error") /\ UNCHANGED runs
    /\ UNCHANGED <<bucket, migrated, grants, landed, approvals, links, flags, reseed, analyses, counts,
                   troubles>>
    /\ IdentitiesKept

-----------------------------------------------------------------------------
(* preflight: the checks, and the receipt                                  *)

\* Mutant: the checks do not look for what users left behind.
MutantRowsArePristine(loaded) ==
    /\ {g.batch : g \in grants} = {Baseline} /\ reseed.versions = loaded /\ landed = {Baseline}
RowsArePristine(loaded) ==
    /\ {g.batch : g \in grants} = {Baseline}
    /\ reseed.versions = loaded
    /\ landed = {Baseline} /\ approvals = {}
    /\ flags \subseteq grants

RunsArePristine ==
    /\ Cardinality(runs) = 1
    /\ \A run \in runs : run.tagged /\ run.exact
    /\ \A link \in links : link.run \in RunIds /\ link.row \in grants

CheckRows(o) ==
    /\ At(o, "rows")
    /\ prep' = [prep EXCEPT ![o].good = @ /\ RowsArePristine(prep[o].loaded), ![o].pc = "runs"]
    /\ UNCHANGED <<bucket, database, analyses, counts, troubles, receipt>> /\ IdentitiesKept

\* Ready also asks that what is staged are the files that were read at first.
CheckRuns(o) ==
    /\ At(o, "runs")
    /\ LET match == \A f \in Fixtures : prep[o].loaded[f] = prep[o].version
       IN End(o, IF prep[o].good /\ RunsArePristine /\ match THEN "ready" ELSE "not ready")
    /\ UNCHANGED <<bucket, database, analyses, counts, troubles>> /\ IdentitiesKept

-----------------------------------------------------------------------------
(* The release of a drop, by a command and through the API                 *)

Put(d, version) ==
    /\ live' = [live EXCEPT ![d] = version]
    /\ intakes' = intakes \cup {[drop |-> d, version |-> 0]}

DropOf(o) == CHOOSE d \in Drops : d \in prep[o].todo

ReleaseGuard(o) ==
    /\ At(o, "guard")
    /\ IF live[DropOf(o)] # 0 /\ prep[o].cmd # "redrop" THEN End(o, "error") ELSE Proceed(o, "get")
    /\ UNCHANGED <<bucket, database, analyses, counts, troubles>> /\ IdentitiesKept

\* What is staged must be the file of the checkout.
ReleaseGet(o) ==
    /\ At(o, "get")
    /\ LET object == staged[DropOf(o)]
       IN IF Valid(object) /\ object.body = prep[o].version THEN Proceed(o, "put") ELSE End(o, "error")
    /\ UNCHANGED <<bucket, database, analyses, counts, troubles>> /\ IdentitiesKept

ReleasePut(o) ==
    /\ At(o, "put")
    /\ IF prep[o].cmd = "redrop" \/ live[DropOf(o)] = 0
       THEN Put(DropOf(o), prep[o].version) /\ End(o, "released")
       ELSE UNCHANGED <<live, intakes>> /\ End(o, "error")
    /\ UNCHANGED <<staged, database, analyses, counts, troubles>> /\ IdentitiesKept

OperatorsKept == UNCHANGED <<identityVars, commands, local, prep, receipt>>
\* What others than the operators begin.
Act == Trouble /\ UNCHANGED counts

WebRead ==
    /\ web.pc = "idle" /\ migrated /\ Act
    /\ \E d \in Drops : /\ Valid(staged[d])
                        /\ web' = [pc |-> "compare", drop |-> d, body |-> staged[d].body]
    /\ UNCHANGED <<bucket, database, analyses>> /\ OperatorsKept

IsReceipted(d, body) == reseed.versions[d] = body

WebCompare ==
    /\ web.pc = "compare"
    /\ web' = IF IsReceipted(web.drop, web.body) THEN [web EXCEPT !.pc = "put"] ELSE NoRelease
    /\ UNCHANGED <<bucket, database, analyses, counts, troubles>> /\ OperatorsKept

WebPut ==
    /\ web.pc = "put"
    /\ IF live[web.drop] = 0 THEN Put(web.drop, web.body) ELSE UNCHANGED <<live, intakes>>
    /\ web' = NoRelease
    /\ UNCHANGED <<staged, database, analyses, counts, troubles>> /\ OperatorsKept

-----------------------------------------------------------------------------
(* Intake, the users of the demonstration, and the checkout                *)

IntakeReads(i) ==
    /\ i.version = 0 /\ i.drop \in Drops
    /\ intakes' = (intakes \ {i}) \cup
                  (IF live[i.drop] = 0 THEN {} ELSE {[i EXCEPT !.version = live[i.drop]]})
    /\ UNCHANGED <<staged, live, database, analyses, web, counts, troubles>> /\ OperatorsKept

\* A batch that fails its gate lands and is not curated; rows that are there keep their keys.
IntakeWrites(i) ==
    /\ i.version # 0
    /\ intakes' = intakes \ {i}
    /\ landed' = landed \cup {i.drop}
    /\ \/ UNCHANGED grants
       \/ LET old == {g \in grants : g.batch = i.drop}
          IN grants' = (grants \ old) \cup
                       (IF old = {}
                        THEN {[batch |-> i.drop, load |-> counts.loads, version |-> i.version]}
                        ELSE {[g EXCEPT !.version = i.version] : g \in old})
    /\ UNCHANGED <<staged, live, migrated, approvals, runs, links, flags, reseed, analyses, web,
                   counts, troubles>>
    /\ OperatorsKept

\* ingest_simulate: records are a batch of their own; an object that is there is taken again.
\* Without a schema the execution would fail.
Simulate ==
    /\ migrated /\ Act
    /\ \/ intakes' = intakes \cup {[drop |-> "other", version |-> 1]}
       \/ \E d \in Drops : live[d] # 0 /\ intakes' = intakes \cup {[drop |-> d, version |-> 0]}
    /\ UNCHANGED <<staged, live, database, analyses, web>> /\ OperatorsKept

RequestApproval(who, subject) ==
    /\ migrated /\ Act
    /\ approvals' = approvals \cup {[by |-> who, subject |-> subject]}
    /\ UNCHANGED <<bucket, migrated, grants, landed, runs, links, flags, reseed, analyses, web>>
    /\ OperatorsKept

UserAnalyses(who) ==
    /\ Trouble /\ BeginAnalysis(who)
    /\ UNCHANGED <<bucket, database, web>> /\ OperatorsKept

UpdateCheckout ==
    /\ local < MaxVersion /\ Act /\ local' = local + 1
    /\ UNCHANGED <<identityVars, commands, bucket, database, analyses, web, prep, receipt>>

\* An error of a call, whose Lambda may have done its work, or the death of the process.
CommandFails(o) ==
    /\ ~At(o, "idle") /\ Trouble
    /\ End(o, "error")
    /\ UNCHANGED <<bucket, database, analyses, counts>> /\ IdentitiesKept

-----------------------------------------------------------------------------
PrepareStep(o) ==
    \/ VerifyIdentities(o) \/ Stage(o) \/ ClearDrops(o) \/ CheckDrops(o) \/ Migrate(o)
    \/ LoadStaged(o) \/ BeginReset(o) \/ DeleteAnalytics(o) \/ LoadBaseline(o) \/ ResetCollides(o)
    \/ Analyse(o) \/ ContinueAnalysis(o) \/ FinishAnalysis(o) \/ Finalize(o)
    \/ CheckRows(o) \/ CheckRuns(o)
    \/ ReleaseGuard(o) \/ ReleaseGet(o) \/ ReleasePut(o)

IdentityStep(o) ==
    /\ \/ BeginConfigure(o) /\ At(o, "idle")
       \/ ConfigureStep(o) \/ ConfigureFails(o) \/ ConfigureKilled(o)
    /\ UNCHANGED <<local, bucket, database, analyses, web, prep, receipt, counts>>

Others ==
    \/ OtherAnalysis \/ UpdateCheckout
    \/ WebRead \/ WebCompare \/ WebPut
    \/ \E i \in intakes : IntakeReads(i) \/ IntakeWrites(i)
    \/ Simulate
    \/ \E who \in Who : UserAnalyses(who) \/ RequestApproval(who, "export")
    \/ RequestApproval("team", "other")
    \/ LoseFiles /\ UNCHANGED <<local, bucket, database, analyses, web, prep, receipt, counts>>

Next ==
    \/ \E o \in Operators : \/ Prepare(o) \/ Check(o) \/ Release(o)
                            \/ (PrepareStep(o) \/ IdentityStep(o) \/ CommandFails(o)) /\ Only(o)
    \/ Others /\ Nothing

Spec == Init /\ [][Next]_vars

-----------------------------------------------------------------------------
TypeOK ==
    /\ IdentityTypeOK /\ commands \in Nat /\ troubles \in Nat
    /\ local \in 1..MaxVersion
    /\ staged \in [Fixtures -> [body : 0..MaxVersion, hash : 0..MaxVersion]]
    /\ live \in [Drops -> 0..MaxVersion]
    /\ intakes \subseteq [drop : Drops \cup {"other"}, version : 0..MaxVersion]
    /\ migrated \in BOOLEAN
    /\ grants \subseteq [batch : Batches, load : Nat, version : 1..MaxVersion]
    /\ landed \subseteq Batches
    /\ approvals \subseteq [by : Who, subject : {"export", "other"}]
    /\ runs \subseteq [id : Nat, by : Who \cup {"preparer"}, exact : BOOLEAN, tagged : BOOLEAN]
    /\ receipt \in [Operators -> {"none", "error", "ready", "not ready", "released"}]
    /\ alone \in [Operators -> {"no", "alone", "healing"}]

\* The row of audit_log that bears the latest time is of the last load: no reset that began
\* earlier committed later.
InOrder == reseed.load = counts.loads

Pristine ==
    /\ Posture
    /\ \A f \in Fixtures : staged[f] = [body |-> local, hash |-> local]
    /\ live = [d \in Drops |-> 0]
    /\ InOrder => grants = {[batch |-> Baseline, load |-> counts.loads, version |-> local]}
    /\ \A g \in grants : g.batch = Baseline /\ g.load = counts.loads
    /\ landed = {Baseline} /\ approvals = {} /\ flags \subseteq grants
    /\ \E run \in runs : runs = {run} /\ links \subseteq [run : {run.id}, row : grants]

\* A command that says ready, and that nobody disturbed, is right in all its parts: the checks
\* leave out nothing that an earlier command, a user or an intake may have left behind.
ReadyIsTrue == \A o \in Operators : receipt[o] = "ready" /\ alone[o] # "no" => Pristine

\* The reset refuses, or leaves alone, what is not of the demonstration, though it decides in
\* one statement and deletes in others.
OthersAreKept ==
    [][/\ {g \in grants : g.batch = "other"} \subseteq grants'
       /\ {a \in approvals : a.by = "presenter"} \subseteq approvals'
       /\ {run \in runs : run.by = "presenter"} \subseteq runs']_<<grants, approvals, runs>>

\* A prepare command that was given where only the demonstration left its traces, and that
\* nobody disturbed, prepares it, whatever rehearsals, drops, runs, requests and commands
\* that were broken off came before.
PreparationHeals ==
    \A o \in Operators : alone[o] = "healing" => receipt[o] \in {"none", "ready"}
=============================================================================
