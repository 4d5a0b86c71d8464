# Compass: a verification of its concurrent back end

Compass turns a synthetic research portfolio into governed, exportable evidence. Its browser
client talks to Lambda functions over DynamoDB, PostgreSQL, S3, SQS, Kinesis, SageMaker and
Step Functions. What is hard in it is not any single handler but what several of them do to
one item, row or object between two calls, while invocations are retried, duplicated, killed
and answered late. The modules here model those programs call by call, check them with TLC on
small instances, and prove their main invariants with TLAPS for every value of the constants.

Paths below are relative to the repository. `PROJECT.json` maps each definition to the lines
it models and lists the hazards, each at the line where it bites.

## 1. Inventory

### 1.1 The modelled parts

**Scale workload generator** (`common/python/compass_common/scale_workload.py`). Pure: shares
out the records of a profile over the datasets, cuts each dataset into partitions, generates the
records of a partition with the defects it is told to inject, validates them, and counts them into
a receipt. Correct when every record is in one partition, no two partitions share a name, what
is generated is valid and what is injected is found.

**Scale planning and Run Gate** (`functions/scale_runs/app.py`: `_create_plan`, `_create_run`,
`_capacity_state`, `_release_lock`).
State: `PLAN#<id>` (15 minutes, consumed or not, `launch_allowed`), `IDEMP#<actor,key>`,
`LOCK#ACTIVE` (the active run, with a time to live), `PROOF#100k`, `RUN#<id>`.
Operations: make a plan; accept a launch in one four-item transaction; start the execution;
record the start; on an error mark the run failed and release the lock.
Hard: many requests read before any of them writes; the transaction, the start and the
update that follows are three calls; the lock expires by the clock although its run goes on.
Correct when: one plan and one key make one run, and a 1m run is created only with a proof.

**Scale Run workflow** (the rest of `scale_runs/app.py`, `statemachines/scale_run.asl.yaml`).
State: the run item, the execution, the Athena queries, the manifest. Operations: `_dispatch`,
`_check`, `_start_athena`, `_check_athena`, `_finalize`, `_complete_cancel`, `_fail_run`,
`_fail_orchestration`, `_cancel_run`.
Hard: each operation is a sequence of calls that may be cut off anywhere and is invoked again
by `Retry` or turned into a failure by `Catch`; several writers of the status check nothing;
the dead-letter queue is shared with older runs.
Correct when: no partition is sent twice, nothing incomplete is published, totals are
frozen once the run stops accepting, and every run ends.

**Scale partition workers** (`functions/scale_worker/app.py`), fed by the **partition queue**
and its dead-letter queue (`template.yaml`).
State: the partition row, three data objects and a receipt in S3, the counters of the run item.
Hard: two executions of one partition at once, a commit that races a failure of the same
partition, a commit after the run was canceled or sealed, an ambiguous conflict.
Correct when: a partition is counted once and its row never changes again.

**Scale export** (`_create_export` of `scale_runs/app.py`, `functions/scale_export/app.py`).
State: `RUN#<id>/EXPORT#<id>` (status, owner, lease, hash), the `export_receipt` inside the run
item, the manifest, the queue. Operations: request, claim under a lease, list, hash,
put-if-absent, commit on both items, put back, cancel.
Hard: leases against redelivery, a lost answer of the commit, a run that fails meanwhile,
sources deleted between two attempts, two writes for one cancellation, an item that lives a day
while its manifest lives two.
Correct when: an item of an export is released once, with the manifest that is stored for it, and is
never lost.

**Approvals** (`functions/approvals/app.py`) and **governed export** (`functions/export/app.py`).
State: the tables `approvals` and `audit_log`, row locks, the tokens in the hands of callers.
Operations: request, approve or reject, and the export: count, guard, check and spend the
approval, read the rows, write the audit row, deliver.
Hard: all of it runs under READ COMMITTED, where each statement sees another state; two
deciders or two exports meet on one row; the use commits before the bytes are delivered.
Correct when: an approval is decided once, by somebody else, and spent once; whatever leaves
is on record and was allowed.

**Intake pipeline** (`functions/intake/pipeline.py`, `functions/quality_gate/app.py`,
`statemachines/intake.asl.yaml`) with its **quality rules** (`quality_gate/rules.py`).
State: the dropped objects, `grants_raw`, `grants_curated`, the executions. Operations: Fetch,
Validate, Persist, Quarantine, each a transaction that may be repeated.
Hard: nothing keeps two executions of one batch apart, a file is dropped again with another
content, raw rows have no unique index, verdicts are read in one transaction and used in the next.
Correct when: only clean rows of a batch that passed are curated, every raw row bears a verdict,
and no passing row is left behind.

**Demonstration stream** (`functions/intake/app.py`, `statemachines/demo_stream.asl.yaml`).
State: `DEMO_STREAM/CURRENT`, the objects and the Kinesis records of a session, the executions.
Operations: start, stop, tick, rotation to the next execution, failure.
Hard: a stop races a tick and a rotation; answers are lost and ticks repeated; a pulse is
landed, announced and counted by three calls.
Correct when: pulses land in order, each is announced at most once, a running session is not
replaced, and it goes on.

**Public model executions** (`functions/public_intelligence/model_execution.py`).
State: the S3 lock, the receipt of each execution with its ETag, the temporary model, the
transform job, the reconciliation schedule, the evidence. Operations: start, read, reconcile.
Hard: starters, readers and the schedule reconcile one receipt at once; each call may be lost
between the job and the receipt; cleanup may fail and come later.
Correct when: one job runs at a time, a terminal receipt is true and stays, and whatever holds
the lock is going to be cleaned up.

**Public acquisition** (`functions/public_acquisition/app.py`).
State: the alias that names the accepted snapshot, the switch, the stream. Operations: fetch a
page, compare it with the accepted snapshot, put the alias, publish what changed.
Hard: runs overlap, the alias is read long before it is written, unguarded, and publication is a
call of its own.
Correct when: no change is accepted in silence and the snapshot follows the source.

**Document intelligence** (`functions/document_ml`, `statemachines/document_ml.asl.yaml`).
State: the record of each run, the object, bronze, silver, gold and the quality receipt, the
model registry with its champion alias. Operations: upload, inspect, quality, curate,
quarantine, failure; train, deploy, classify, evaluate drift.
Hard: other bytes may be posted to the same key while executions run; `merge_record` reads and
puts back without a condition; a deployment is three writes beside other trainings.
Correct when: gold is of the declared bytes, a completed run has its gold, the champion was
promoted.

**Snapshot collector** (`public_intelligence/src/public_intelligence`: `cli.py`,
`writers.py`, `checkpoint.py`, `http.py`, `connectors/`).
State: the checkpoint file, the output (JSON lines, a gzip file of parts, a Parquet dataset), its
manifest, and what the source lists. Operations: prepare the output for a resume, walk a source
page by page or file by file, write a batch, record it, save the checkpoint, complete.
Hard: the process dies between any two of these, or in the middle of an append; a stream is cut
short; the source publishes, or replaces its file, between two invocations; limits and page
budgets end an invocation anywhere.
Correct when: what a checkpoint counts is in the output without a gap and is never touched
again, a complete snapshot lacks nothing, and the command given again and again completes it.

**Demo preparation and identities** (`scripts/configure_demo_identity_posture.py` over
`scripts/provision_demo_identities.py`; `scripts/prepare_demo.py` over
`functions/migrator/demo_prep.py` and `functions/analytics/app.py`).
State: the users of the pool, two credential files and their lock, a temporary client; the
staged fixtures and released drops in S3, every table the demonstration writes, open transactions
of analytics, a receipt file. Operations: bring the users into posture; prepare (verify, stage,
clear the drops, migrate, reset and load in one transaction, analyse, finalize, check); check;
release and redrop.
Hard: a command may be killed or fail at any call and is given again; two operators overlap;
users analyse, request and drop meanwhile, and an intake may be under way; the reset decides in
one statement and deletes in others under READ COMMITTED.
Correct when: the presenter is not locked out by a factor nobody has, what is not of the
demonstration stays, a command that says ready is right, and a preparation heals what rehearsals
and broken commands left.

### 1.2 How they interact

    browser -> API -> _create_plan, _create_run -(transaction)-> DynamoDB
                         |  start_execution
                         v
                  Step Functions --Task--> control Lambda --send--> partition queue -> DLQ
                         ^                     |   ^                      |
                         |                     v   | counters, rows       v
                         +------ status ---- DynamoDB <-------------- partition workers -> S3
                                               |  ^
    browser -> API -> _create_export --send--> |  export queue -> export workers -> S3

    drop in S3 -> EventBridge -> Fetch, Validate, Persist | Quarantine -> PostgreSQL
    demo stream: API -> item -> Step Functions -> tick -> S3 (a drop) and Kinesis
    approvals: API -> rows in PostgreSQL <- export: guard, spend, audit, deliver
    acquisition: schedule, API -> S3, alias in DynamoDB, Kinesis -> classification by the champion
    documents: browser -> S3 -> EventBridge -> stages -> bronze, silver, gold; champion alias
    model executions: API, schedule -> S3 lock and receipts <-> SageMaker
    snapshot collector: operator -> command -> public sources; files and checkpoint (stands alone)
    demo preparation: operator -> posture command -> Cognito, files; prepare_demo -> S3, migrator,
                      analytics -> PostgreSQL <- users (analyses, approvals, drops) and intake

The parts of a Scale Run share items of one table; `ScaleWorkload` gives `ScaleRun` its
partitions, and both run together. Intake and its rules, approvals and exports, documents and
registry are composed too, and so are the identities and the preparation of the demonstration. Between
the groups the coupling is loose: the export only sees that
rows arrive (`RowsArrive`), the documents module has the classification of acquired narratives
among the uses of the champion, and a tick of the stream drops an object like any other.

### 1.3 Not modelled

| Part | Why |
|---|---|
| Scale cost envelope (`scale_cost.py`), texts of generated records | decimal arithmetic and text; `launch_allowed` and which records are refused are parameters |
| SageMaker adapter of the document registry | its promotions need a model status (`approved`, `document_ml/app.py:1086`) that nothing in the repository sets |
| Public intelligence answers, summaries, chat, the topic model of analytics | retrieval, generated text and numerical computation, no state between calls; what an analytics run persists is in `DemoPreparation` |
| Operations, evidence, dashboard, catalog and license views | reads and single-statement writes; nothing interleaves |
| Authorizer, RMF artifact, the export's OpenAPI description | stateless request handlers and constant documents |
| Database schema, SQL passthrough of the migrator | statements that one invocation runs per deployment; their constraints are in `Approvals`, `Intake` and `DemoPreparation`, which also has the call that applies them |
| The provisioning command of the demonstration, contents of its fixtures | an earlier posture, represented by the users it leaves (`Legacy`); a fixture is its version |
| Field mapping and redaction of the collector | conversions of text; which entries they refuse is in `Connectors` |
| Download cache of the collector (USPTO) | `http.download` returns a cached table as it is, so a walk reads one set of files whatever the source does; but `--fresh` without `--uspto-refresh-cache` reads the old tables again, and a download that failed after one table leaves tables of two releases, which no property of a single walk can tell |
| Common library | connections, serialisation, logging |
| Frontend, deployment scripts | call the API or the platform; every call they can make on modelled state is an action already |

Most of the lines outside the map are of these kinds: the OpenAPI description alone has 3,453
lines, and the parsing of feeds, the layout of views and the wording of evidence make up most
of the larger handlers. They have no state that a model checker could follow.

## 2. Modules

| Module | What it is | Theorems |
|---|---|---|
| `ScaleWorkload` | the plan of a run: counts, partitions, receipts | `ScaleRunProofs` |
| `ScaleRecords` | the records of a partition, their schemas, and the defects injected | `ScaleRunProofs` |
| `ScaleRun` | one run: the request that starts it, the workflow, the workers, the queue | `ScaleRunProofs` |
| `RunLedger` | what a run promises about its partitions; `ScaleRun` implements it | `ScaleRunProofs` |
| `ScaleExport` | the exports of one published run | `ScaleExportProofs` |
| `ExportJob` | what an export promises; `ScaleExport` implements it | `ScaleExportProofs` |
| `ScaleGate` | plans, keys, lock and proof over several runs | `ScaleGateProofs` |
| `Approvals` | approvals and governed exports, statement by statement | `ApprovalsProofs` |
| `Capability` | what an approval promises; `Approvals` implements it | `ApprovalsProofs` |
| `QualityRules` | the rules, the row verdict and the gate over one batch | `IngestProofs` |
| `Intake` | executions of the intake pipeline over two tables; extends `QualityRules` | `IngestProofs` |
| `DemoStream` | sessions of the demonstration stream | `DemoProofs` |
| `ModelExecution` | start, reading and reconciliation of public model executions | `PublicProofs` |
| `Acquisition` | overlapping runs of one public source | `PublicProofs` |
| `ModelRegistry` | training, promotion and the uses of the champion | `IngestProofs` |
| `Documents` | the document pipeline; extends `ModelRegistry` | `IngestProofs` |
| `Connectors` | how twelve public sources are walked: pages, filters, refusals, offsets | |
| `Collector` | the collecting command over an output and a checkpoint; extends `Connectors` | `CollectorProofs` |
| `DemoIdentities` | the posture command over the user pool, its files, lock and client | `DemoProofs` |
| `DemoPreparation` | the preparation of the demonstration beside its users; extends `DemoIdentities` | `DemoProofs` |
| `MC...` | the instances that TLC checks | |

`ScaleGate` sees a run from outside (it starts, ends, may be reopened, releases its lock, leaves
a proof); `ScaleRun` is its inside, from the committed transaction on; `ScaleExport` starts from
a published run, and takes from `ScaleRun` the fact that an error after publication may still
mark it failed (`RunFails`). `MCScaleRun` takes its partitions, their rows and their refused
rows from `ScaleWorkload`, and checks `ScaleRecords` on draws at the edges of the slots.

### 2.1 State and code

An action is named for the piece of a handler up to its next external call. Where a handler
has several such pieces, the program counter of the actor is named for what comes next.

`ScaleRun`

| Variable | Code |
|---|---|
| `run` | `RUN#<id>/META`: status, `partitions_total`, counters, `dlq_baseline_count`, whether query identifiers are stored |
| `parts` | `RUN#<id>/PART#<p>`: status, `dispatch_status`, receipt hash |
| `lock`, `proof` | whether `LOCK#ACTIVE` and `PROOF#100k` name this run |
| `receipts`, `manifest` | receipt objects and run manifest in S3, by the execution whose bytes they hold |
| `msgs`, `receives`, `sends`, `foreign`, `arrivals` | the queue and the shared DLQ |
| `workers` | worker invocations: program counter, partition, receive count |
| `creator`, `wf`, `call` | the creating request, the state of the execution, the control invocation in it |
| `athena`, `late`, `faults`, `duplicates` | the UNLOAD queries, the deadline, and the two budgets |

`_dispatch` is `DispatchRead` to `DispatchAnnounce`; `_check` is `CheckRead` and
`CheckAggregate`; the Athena handlers are `AthenaStart`, `AthenaStore`, `AthenaCheck`;
`_finalize` is `FinalizeEvidence`, `FinalizePublish`, `CallReleases`, `FinalizeProof`;
cancellation and failure are `RecordCancel` or `RecordFailure`, then `CallReleases`. A worker is
`Receive` or `ReceiveDuplicate`, `ReadRun`, `MarkRunning`, `WritePartitionFiles`, `Commit`,
and on its error branch `MarkFailed`. `Return` and `InvocationFails` are the `Retry` and
`Catch` blocks: an invocation that dies is invoked again or caught, and so is one whose answer
is lost after its last write.

`ScaleExport`: `exports`, `run.receipt`, `lake` (how many Parquet objects are left),
`manifests` (how many objects a stored manifest lists, and for which item), queue, `requests`,
`workers`, and `lives`: which of its items, one after the other, an export has. When 24 hours have
gone by an item is `past` (`DayPasses`: `_get_export` gives no link any more), then DynamoDB deletes it
(`ItemExpires`) and the same request makes another; the rule for `exports/` deletes the manifest
(`ManifestExpires`) before or after that. A worker walks
through `ReadRun`, `ReadExport`, `Claim`, then `AssertRun`, `AssertOwner` before each of
`ListSources`, `HashSources`, `PutManifest`, `Commit` (`_assert_active`), with `Conflict`,
`Recheck`, `Reset`, `CancelExport`, `CancelReceipt` as its side branches.

`ScaleGate`: `plans`, `idem`, `lock`, `proof`, `runs`, `requests`, `workflows`. A run is named
by the request that made its identifier.

`Approvals`: `approvals` and `exports` are the two tables (of `audit_log`, the rows of action
`export`), `locks` the row locks, `tokens` the approvals whose secret reached somebody,
`delivered` the exports whose bytes were handed out, `dataset` how many rows match, `sessions`
the open transactions. `create_or_advance` is `RequestApproval`, `Insert`, `SelectPending`,
`LockPending`, `NothingPending`, `RefuseSelfApproval`, `Decide`; `run_export` is `CountRows`,
`CheckApproval`, `FetchRows`, `CommitExport`, `Deliver`.

`Intake`: `objects` and `dropped` are what lies and ever lay under a key, `raw` and `curated`
the tables, `intake` the executions with what their open transaction will write. Fetch is
`ReadObject`, `UpsertRawRow` per record, `CommitFetch`; Validate is `LoadBatch`, `EvaluateBatch`,
`StampVerdicts`; Persist is `ReadPassingRows`, `CurateRows`; Quarantine is `HoldBatch`. `Answer`
and `Die` are the retries.

`DemoStream`: `item`, `landings`, `announced`, `execs`, `ticks`, `starts`, `stops`. A tick is
`TickRead`, `PutObject`, `Announce`, `Advance` and, every `Chunk` pulses, `BindNext`,
`StartNext`, `AnswerRotation`.

`ModelExecution`: `lock`, `schedule`, `receipt`, `model`, `job`, `evidence` are the objects
outside, `starter` the start request of each execution and `call` one reconciliation per
caller: a start request that meets a stale lock, a reader, an invocation of the schedule.
Whether an ETag still matches is the Boolean `fresh`.

`Acquisition`: `alias` is `ACQUISITION_ALIAS`, `enabled` the switch, `told` what the stream got;
`accepted` and `withheld` remember what the alias ever held and what a failed run kept back.

`Documents` and `ModelRegistry`: `run`, `object`, `bronze`, `quality`, `silver`, `gold`,
`exec`; `artifact`, `model`, `deployments`, `alias`, `request`, `evidence`. `merge_record` is
`GetRun`, `PutRun` (and `GetModel`, `PutModel`). `Retried` and `Raises` are the `Retry` and `Catch`
blocks; when the answer of an invocation is lost (`LosesAnswer`) or the execution reaches its limit of
five minutes (`TimesOut`), the invocation may work on, not `awaited` by anybody. `passed` and
`unattributed` remember what no item does.

`Collector`: `saved` is the checkpoint file, `data` the rows of the output by their number,
`manifest` where its parts end, `run` the invocation, `source` how many records were published
since. `_collect` is `Start`, then `prepare_resume` (`PrepareJsonl`, `PrepareGzip`,
`PrepareParquet`, `SaveRetained`), the loop over records (`Fetch`, `Take`, `EndOfPage`), `commit`
(`WriteBatch`, `RecordPart`, `SaveCheckpoint`), and `Finish`, `Close`. `Read` has one operator per
connector: which page a token names, what the next token is, and whether the page is the last.

`DemoIdentities`: `pool` is the user pool, `team` and `presenter` the credential files, `lock`
the lock of their directory, `conf` the posture command of each operator. `main` of the posture
script is `BeginConfigure`, `LockAndLoad`, per user `EnsureAccount`, `EnsurePassword`,
`LeaveGroups`, `JoinGroup`, `PasswordOnly`, and for the presenter `LoadPresenter`,
`CreateClient`, `SignIn`, `Associate`, `Verify`, `PreferFactor`, `CompletePresenter`,
`DeleteClient`; `Raise` and `Leave` are its `with` blocks.

`DemoPreparation`: `local` is the checkout, `staged` and `live` the two prefixes of the bucket,
`grants`, `landed`, `approvals`, `runs`, `links`, `flags` and `reseed` the tables by what the checks
read of them, `analyses` the open transactions of analytics, `prep` the command of each operator
and `receipt` what it said last. `prepare` is `VerifyIdentities`, `Stage`, `ClearDrops`,
`CheckDrops`, `Migrate`, `LoadStaged`, then `BeginReset`, `DeleteAnalytics`, `LoadBaseline` in one
transaction, `Analyse`, `ContinueAnalysis`, `FinishAnalysis`, `Finalize`, and the checks `CheckRows`, `CheckRuns`;
`release` and `redrop` are `ReleaseGuard`, `ReleaseGet`, `ReleasePut`. `alone` is history: whether
only this operator has acted since the command began, and whether it began where it should succeed.

### 2.2 Abstractions

- Records are counted, objects are named by the execution or bytes that made them, hashes are
  equal when their contents are. Nothing in the control flow reads more.
- The six Athena queries are one: any failure fails the run, success needs all of them, and
  `ClientRequestToken` makes a repeated start join the first.
- Clocks are events whose order the configuration settles: the visibility timeout (960 s)
  comes after the longest invocation (900 s), so `Redeliver` waits for the invocations of
  that message; a lease outlives its owner; the scale lock expires at `deadline_at` (3 h), and
  the execution's `TimeoutSeconds` (4 h) comes after it; a missing transform job fails its
  receipt after 120 s, when every start request is over. The 24 hours of an export item come after
  its request, the three receives of its message (three times 960 s) and their duplicates (`Quiet`),
  unless the queue itself stood still for a day; nothing redrives the dead-letter queue.
- A DynamoDB update or transaction is atomic and its condition is evaluated on the current
  item. Under READ COMMITTED a statement sees what was committed when it began, and an UPDATE
  or a `FOR UPDATE` waits for the holder of the row and looks again.
- A raw row of `Intake` gets its place in the order of the rows when its transaction commits
  (`CommitFetch`), in the code from the sequence at the INSERT (`pipeline.py:176`). Only the order
  between rows of two overlapping executions of one batch differs; what is claimed of numbered files
  does not read it, and `Copies` and `First` order the records of one Fetch.
- `_dispatch` of `ScaleRun` is the work of one invocation at a time, which the state machine
  awaits. An invocation that Step Functions has given up, and that works on beside its retry, is
  left out; with it, the condition under which a row is marked (`scale_runs/app.py:1386`, `Unsent`)
  could fail, and without it `MarkInv` of `ScaleRunProofs` shows that it never does.
- The state machine of a scale run may also find it completed while it waits for the conversion
  (`scale_run.asl.yaml:141`); its answer then lacks the field that the last choice reads and the
  execution would fail (`AthenaEnd`). `DoneInv` shows that nothing but a later state completes a run.
- A field of a grant record is one of the classes that the rules tell apart
  (`QualityRules`), and an uploaded document one of three kinds.
- The times to live of the lock, the plan, the proof, the export item, its manifest and the Parquet
  objects are modelled. Those of a run, its rows and its idempotency item are 14 days, and what the
  modules say of a run or a key they say of that time. The 24 hours after which a reconciliation
  schedule ends by itself are beyond the behaviours of `ModelExecution`; its history pointer, like
  lineage and anomaly rows of `Intake`, is written and never read back by these programs.
- A record of a public source is its number by age; a page is an interval of the list, and a
  cursor names what is left of it. The SBIR archive is taken to carry a version, which the code
  checks when the server sends one. A row that was torn while it was appended counts as one row.
- A secret is a number, and a code answers a challenge when it is made of the factor that the pool
  knows. A fixture is its version, and the rows it becomes are one row per batch and load.
- An approval is decided once with one secret, so that a token is named by its approval.

## 3. Runs

All bounds are constants in the configuration files: `MaxFaults` (`MaxLosses` in `Intake`,
`MaxTroubles` in `DemoIdentities`) counts crashes, errors and lost answers together, `MaxDuplicates`
extra deliveries. Two of each actor are enough for the races the code can have, since every guard
compares one item with itself or with one other; the proofs remove the bounds for the invariants
they cover.

| Run | Instance | Distinct states | What it shows |
|---|---|---|---|
| `ScaleRunWorkers` | a plan of 3 records over 2 datasets in partitions of 2, 2 workers, 2 receives, 1 duplicate, 1 fault, 1 retained message, creator may fail, execution timeout | 1,042,694 | counters, totals down to the last record of the profile, manifest, proof, cause of failure, and `ImplementsRunLedger` |
| `ScaleRunLive` | the same plan, 1 worker, 1 fault, 1 foreign poison message, fair | 82,740 | `SentAtMostOnce`, `RunSettles`, `LockIsReleased` |
| `ScaleExportRaces` | 1 export, 2 requests, 2 workers, 2 objects, 3 receives, 2 faults, 1 duplicate, 2 items one after the other, dying requests, failing run, expiring objects, manifests and items, fair | 993,672 | the manifest, the loss and the receipt of an export, `ImplementsExportJob` and `ExportSettles` |
| `ScaleGateRaces` | a 100k and a 1m plan, 2 keys, 3 requests, 2 faults, lost starts | 290,615 | one run per plan, no 1m run without a proof |
| `ApprovalsRaces` | 2 actors of whom one is a reviewer, a request for everything and one with a limit of 1 (only this one is brought before the reviewer), 2 sessions, 4 calls, 2 approvals, 1 fault, a cap of 1, no row free of the guard | 2,371,041 | an approval is spent once and whatever leaves is governed, and `ImplementsCapability` |
| `DemoStreamSessions` | 2 sessions, bounded or continuous, rotation every 2 pulses, 2 ticks, 1 stop, 1 fault, fair | 371,246 | order, single announcement, no replacement, and `StreamGoesOn` |
| `IntakeRaces` | 2 batches that share a grant, one of them dropped with different files, 3 executions, 1 fault | 2,154,356 | what is curated, what is settled, no passing row left behind |
| `ModelExecutionRaces` | 2 executions, 1 reader, 1 scheduled invocation, 1 fault | 1,918,487 | one job, true receipts and evidence |
| `AcquisitionRuns` | 2 records, 1 scheduled and 1 requested run of either profile, 1 change, 2 switches, 1 fault, fair | 128,880 | nothing silent, the source is followed |
| `DocumentRuns` | 1 document, 2 executions, 1 duplicate event, 4 inputs of users, 2 trainings, 1 promotion, 2 uses, 1 fault | 4,664,504 | champion, gold, completion, settlement |
| `CollectorRuns` | a job of each kind over 6 records, of which some are malformed, outside the window, undated, foreign or nameless, pages of 2, batches of 2, 3 pages, limits 3 and 9, 1 `--fresh`, 2 publications, 2 faults, fair | 403,553 | the snapshot is exact, its committed rows stay, and it is completed |
| `DemoPreparations` | 2 operators, 2 team users and the presenter, 1 drop, 2 versions of the fixtures, 3 commands, 1 trouble (a failed call, a killed process, a lost file, or an act of users) | 2,118,958 | the presenter's factor, true readiness, healing, what is not of the demonstration stays |

Why those bounds suffice for the interesting cases: with `MaxReceive = 2` a message can fail, be
redelivered and be dead-lettered; the plan of 3 records has a dataset without records, one that also
gets what the division loses, and a short last partition; two objects let a manifest list fewer than
an earlier one; four calls are a request, a decision and two exports; two ticks are a tick and its
retry; three executions are two of one batch and one of another; one fault may strike at any call of
any actor, and its consequences are then followed to the end. Six records in pages and batches of
two, with limits of three and nine, end an invocation inside a page, at the end of one and after the
last; `MaxPages = 3` is the least budget that lets a batch be filled. Three commands are a rehearsal
that leaves traces, one that is broken off, and the preparation that has to heal both; the
constraint `Apart` of `DemoPreparations` runs the posture command while no other command does, since
the two share only the users, whom a preparation reads once.

Deadlock is not checked: a finished run, an answered request and an acknowledged message are
the ends of these systems.

Every property of these runs has a mutant of the mapped code (`mutants` in `PROJECT.json`) that
breaks it: a batch that is not marked before it is sent, a commit without its condition, a
baseline that is not subtracted, a lease that is not respected, a transaction without the run,
a row used as it was read before the lock, a stage that keeps an old verdict, a put without
`If-None-Match`.

### 3.1 Fairness

Each fair specification assumes weak fairness of what the platform keeps going and nothing of
users, faults, duplicates, other runs or lifecycle rules.

- `ScaleRun`, `ScaleExport`: an invocation that has started, the state machine, delivery and
  redelivery of a visible or timed-out message, the end of a query, the deadline, the expiry
  of a lease.
- `DemoStream`: a start request after its first call, an execution, a tick.
- `Collector`: an invocation goes on, and the command is given again with each limit.
- `Acquisition`: the schedule's next poll (`Poll` is not fair while the switch is off, because it
  is not enabled) and the steps of a run.

Faults are bounded, so that "one error anywhere" is a property of the whole behaviour and
not of its beginning.

`RunSettles` is checked without the execution timeout and without a failing creator, which break
it, as the next section says. `ExportSettles` is about exports that were queued, in behaviours
with fewer than two faults and extra deliveries, no expired object and no manifest of an earlier
item: with more of them the message may be dead-lettered, which is for an operator to see.
`LockIsReleased` is about behaviours in which the error does not strike. `StreamGoesOn` excludes
dead requests and lost answers. `SourceIsFollowed` needs the switch on and a record at the source;
`SnapshotSettles` names the two cases that only `--fresh` or another source can end. What a
preparation achieves is stated without fairness: a command given where it should succeed,
undisturbed, never says anything but ready (`PreparationHeals`).

### 3.2 Where the code does something else than its documents say

Found while modelling, each by a counterexample of TLC at the time; the properties that hold
all the same are those of section 3. Some modules still state the formula that is refuted; no run
checks it.

Scale runs

- `_check` reads an accepting run, the analyst cancels, and `_check` writes `aggregating`
  without a condition (`scale_runs/app.py:1519`): the cancellation is gone and the run may be
  published, though "cancellation is cooperative, durable, and safe to retry" (`CONTEXT.md:66`):
  `CancellationIsDurable` is false.
- Two executions of one partition write the receipt object in turn, with different durations
  (`scale_worker/app.py:459`); the first commits, the second overwrites. The manifest carries
  a hash that no object has (`CONTEXT.md:13`): `ManifestHashesMatch` is false. It is the
  hash of the ledger (`ImplementsRunLedger`).
- The baseline of the shared DLQ is taken at dispatch (`scale_runs/app.py:1299`, `:1508`). A
  message of an older run that dies later fails the new run. `FailureHasOwnCause` holds for
  the messages that were there before.
- A request that dies after the transaction and before `start_execution`
  (`scale_runs/app.py:657`) leaves an accepted run that no retry starts
  (`docs/PRODUCTION_ARCHITECTURE.md:136`): `AcceptedRunStarts` of `ScaleGate` is false.
- The execution's own timeout is no error that a `Catch` sees: a run that times out during the
  conversion stays in `aggregating`.
- The proof is read by the plan, not by the launch: a 1m run is launched when a 100k run left
  its proof once (`BigRunNeedsProof`). The run that a proof names may be marked failed by an
  error after publication; its evidence is complete (`ProofIsBacked`).

Scale exports

- A worker that dies between the two writes of `_mark_canceled` (`scale_export/app.py:291`)
  leaves the run item at `building` for ever: the redelivered message is acknowledged.
- A request that dies between its put and its send (`scale_runs/app.py:1231`) leaves an item
  `queued` that nobody queues; a retry with the key returns it as it is, for a day.
- The item of an export lives 24 hours (`scale_runs/app.py:1213`, `template.yaml:1179`), its manifest
  two days under a key without a time (`template.yaml:1121`, `scale_export/app.py:520`). A request
  that is repeated after the first and before the second finds no item and makes another; the
  manifest then built differs in `created_at` from the one stored, each attempt raises, and the
  message ends in the dead-letter queue with the item queued again and the run item showing
  `building` where it had shown `ready`. `ExportSettles` and `ReceiptIsTrue` leave the case out.

Approvals and exports

- Two identical requests at once both insert a pending row (`approvals/app.py:248`), though
  a double-click is not to fan out the queue (`:219`): `PendingIsUnique` is false. Each row is
  decided and spent at most once.
- The guard decides on a count; the rows are read by a later statement (`export/app.py:680`,
  `:777`) and may be more, so that an export nobody approved may exceed the guard, and one without
  a limit the cap, by the rows committed in between (`DeliveriesAreGoverned` admits no other way).
- The guard looks at all rows that match, the cap at those the request's limit leaves
  (`export/app.py:698`, `:720`): with an approval and a limit, an export leaves whose filters match
  more rows than the cap.

Intake

- A required column whose value has a type that normalization turns into null passes
  `not_null_required_fields` and stops the insert (`PassedRowsCanBeCurated` is false), and two
  executions can insert the raw rows of one batch twice (`RawRowsAreKeyed` is false;
  `pipeline.py:167`).
- When a key is dropped again with other content, a verdict read before may stand over the new
  record, a shorter file leaves rows of the longer one, and a row's link is wiped.
- The decision of the gate belongs to an execution and the verdicts to the rows. Persist of an
  execution that passed curates every row of the batch that bears `passed` by then
  (`pipeline.py:356`), also the clean rows that another execution has stamped for a file dropped
  later, although the gate "rejects the batch as a whole and no rows are curated at all, even the
  clean ones" (`quality_gate/app.py:21`): `FailingBatchIsHeld` is false.
- Even with one content a file that fails the gate may be curated in part. An overlapping Fetch
  inserts the first records of the file again, up to the one at which the other Fetch commits. Copies
  of a numbered record fail as duplicates, but a record whose number has a type that normalization
  turns into null is never a duplicate: where such records stand before the bad ones of the file, the
  pass rate of the table exceeds that of the file. `CuratedIsClean` therefore claims the gate of the
  file for files of numbered records only.
- After Persist has committed and its answer is lost, the failure signal says that no
  unverified output was published (`quality_gate/app.py:435`), with the rows curated.

Demonstration stream

- A lost answer of the last tick, or a request that dies before its execution, leaves a session
  `running` that nobody ticks; the next start is refused until an operator stops it.

Public model executions

- A lock whose put took effect while its answer was lost is taken for another's, and nothing
  releases it (`docs/ARCHITECTURE.md:224`).
- A transient failure to read the output of a completed job closes its receipt as `FAILED`; a
  call that loses the race for the receipt may record "failed" evidence for a run that completes.

Public acquisition

- When the stream refuses events of a feed, the run is recorded as failed and its signal says
  that no snapshot was accepted (`public_acquisition/app.py:1313`), with the alias in place.
- An invocation that dies between the alias and the stream loses its events for good; a run of
  the quick profile puts a page of few records in place of the whole snapshot, and the next
  full run tells the rest again.

Documents

- A failure of Inspect is recorded under a name of its own: the run stays `awaiting-upload` or
  `running` (`RunHasSettled` names the case).
- An execution that reaches its limit of five minutes (`template.yaml:3181`) records nothing, and a
  stage that is retried while its first invocation works on may put back `running` over a terminal
  status (`document_ml/repository.py:151`); `RunHasSettled` names these cases too.
- Bytes posted again move a completed run to `quarantined` or `running` with its gold in place,
  and two executions that curate may leave a record that names another model than gold.
- A version is the digest of its training samples only (`engine.py:431`): training again replaces
  the metrics and the status of a deployed champion (`document_ml/app.py:1012`).

Snapshot collector (`public_intelligence/src/public_intelligence`)

- A connection that is lost ends the stream of a download like its end (`http.py:73`): an SBIR
  snapshot may be saved as complete with rows missing (`cut` in `saved`, which `SnapshotIsExact`
  names), and a truncated USPTO table is kept in the cache.
- OSTI drops malformed entries before it compares the page with the page size, and ends early
  (`StopsEarly`).
- A walk by pages or by cursor that is resumed, or merely goes on, after the source has
  published repeats records; with a cursor whose server keeps its own scroll state, as a comment of
  the Crossref connector has it, an offset into the page may also skip some.
- A batch that needs more pages than `--max-pages` is never written: such a command makes no
  progress however often it is given.
- One entry may block a walk for ever (`IsRefused`): SAM.gov raises on a record outside its window,
  without a posted date or with a foreign path, Grants.gov and the Federal Register on a foreign
  agency, PubMed on an identifier without an article and on a missing PMID.

Demo preparation

- An analysis that read its rows before a reset and commits after it leaves `grant_topics` and
  anomalies of deleted rows; every later `prepare` is refused.
- `DEMO_USERS` (`migrator/demo_prep.py:52`) lacks the presenter, whom `prepare_demo.py:60` expects:
  an approval or an analysis of his makes every later `prepare` refuse.
- The reset deletes approvals of subject type `export` only (`demo_prep.py:480`); another one of a
  demo user fails `approval_inbox_pristine` for ever.
- `audit_log.at` is the time at which a transaction began, so that of two overlapping preparations
  the later row may be of the earlier load (`InOrder` names the case).
- An intake that is under way when the checks are made changes what they have found ready.
- `_stage_fixtures` reads each file a second time for its body, with the hash of the first reading
  (`prepare_demo.py:231`), and does not read the errors that a `delete-objects` answer lists.
- Overlapping preparations can leave a finalized run without rows in `grant_topics`, and `check` says
  ready: `topic_assignments_bound` counts foreign assignments only.
- A command that is killed leaves the receipt file of an earlier one.

## 4. Proofs

Theorems hold for every value of the constants that the assumptions of the module admit
(`ScaleRunAssumption`, `ScaleExportAssumption`, `ScaleGateAssumption`, `ScaleWorkloadAssumption`,
`ApprovalsAssumption`, `PageAssumption` and `BoundAssumption` of `Acquisition`, `BoundAssumption`,
`VersionAssumption`, `DuplicateAssumption` and `DocumentAssumption` of `Documents`,
`FaultAssumption` and `CallerAssumption` of `ModelExecution`, `ConnectorsAssumption` and
`CollectorAssumption`, `LossAssumption` and `FilesAssumption` of `Intake`, `ThresholdAssumption` of
`QualityRules`, `DemoStreamAssumption`, `IdentitiesAssumption`, `PreparationAssumption`): any number of
partitions, workers, executions, exports, sessions, batches, documents, operators or records, any files
under a key, any redrive limit, threshold, page, chunk or batch size, and any number of faults and
duplicates. They say what
kind of value a constant is. `ScaleWorkloadAssumption` alone asks for more: that the shares of the
datasets are natural numbers, which follows from a sum and is therefore evaluated by TLC on the
instance rather than proved. TLC evaluates all of them, and two facts about the instance besides: the
rows of the plan add up to the profile (`PlanAssumption`), and records drawn at the edges of their
slots are valid until they are damaged (`RecordsAssumption`).

**`ScaleRunProofs`, the workload.** Partitions of a dataset start a partition apart and end where
the next begins (`Apart`), so that every record of a dataset is in exactly one partition and no two
partitions share a name (`RecordsAreTiled`, `NamesAreUnique`). `ReceiptsAreExact` says that a receipt
balances its counts and that the plan meets what `ScaleRunAssumption` asks of one, which is how the
modules fit. Of `ScaleRecords`: whatever is drawn, a generated record has no issue
(`GeneratedIsValid`), a damaged one has (`DefectIsFound`), and so a record has issues exactly when a
defect was injected (`IssuesAreInjected`): the counts of a receipt are those of the injection.

**`ScaleRunProofs`, the run.** `TypeCorrect` goes handler by handler over lemmas about what the helpers
return (`GotoType`, `ReturnType`, `AckType`, ...). Beyond types, almost every step leaves
counters and finished rows alone; `LedgerStep` says so once, and singles out the two steps
that do not: a commit and a guarded failure. `CompletesEffect` and `FailsEffect` give their
exact effect under their conditions, and from these four facts follow `CountersCorrect` (with
the cardinality theorems: a row not yet finished joins one of the two sets),
`RecordsBalanced`, the action properties `CompletedFinal` and `ClosedRunFrozen`, and `TotalsExact`:
the totals of the run are the cardinality of the set of records of its completed partitions, which a
commit enlarges by those of one partition.

Each of the other properties has an invariant of its own, over lemmas that give the effect of a step
field by field:

- `SentOnce`: a row that `_dispatch` is about to send has not been sent, one that has been sent is
  never again `queued` for dispatch, and an uncertain batch is not in the hands of two (`SendInv`).
- `ProofBacked`: from the read of `_finalize` on, every partition is completed and the manifest is that
  of the ledger, and no step that follows takes this back (`ProofInv`).
- `FailureCaused`: a failed run has a cause, which is an error, the deadline, a failed partition, a
  dead letter of its own, or one that another run added after dispatch. The argument says where
  each message is (`QueueInv`), how far the run is in each state of the workflow (`StageInv`), and that
  the recorded baseline covers what was in the dead-letter queue before (`BaselineInv`); and an error
  that `_dispatch` raises over the condition of a mark would be a cause of its own, so that the
  argument shows it cannot happen (`MarkInv`). `FailureIsOwn`
  assumes `MaxForeign = 0`, because a message of another run that dies later is
  the divergence of section 3.2 and does fail a run without a cause of its own.
- `LedgerRefinement`: a run is published only from the workflow's last state, with all partitions
  completed (`DoneInv`), and then every step of `ScaleRun` is a step of `RunLedger` or a stutter.

**`PublicProofs`, the model executions.** The invariant has a part for each execution and one for
each call of `get_execution`, which holds nothing while it works: what it has read or decided must
still be so whatever the start request, the other calls and the schedule did since. It rests on the
order of `start_execution`: while a request may still submit a job or close its own receipt, the
receipt is at most `SUBMITTED` and the request holds the lock (`StartInv`); a call decides on a
terminal receipt only when the request is past that point, and then nothing makes the decision
untrue (`Writes`, `Holds`). `Onward` says what no step takes back of any execution, `Frame` and
`CallKept` what a step leaves of the executions and calls it is not about, so that each action is
followed only where it acts. From it follow `LockHeld` (a job in progress holds the lock, so that
there is one), `ReceiptTrue`, `EvidenceTrue` and the action property `TerminalKept`, for any number
of executions, readers and scheduled invocations and any number of faults. `ModelExecutionRaces`
checked the same invariant before it was proved.

**`ScaleExportProofs`.** The invariant `ExportInv` says, for each program counter of a worker,
what it has already seen: a worker about to cancel knows that the run is closed, one about to
write the canceled receipt that the export is canceled, one about to commit that the stored
manifest is the one it listed, and each of them that the item is there and valid; for each item, that
ready means a manifest stored for this item and the same hash as long as it is valid, and that a
deleted message belongs to a finished export; for a request, that it sends only for an item it
created. None of the stated properties is inductive without these: the hash of
a ready export is right only because of what its worker had compared before. `Monotone`
(finished exports stay, stored manifests stay, a closed run stays closed) carries one worker's
knowledge over the steps of the others; what a day takes away is followed apart (`AgingSafe`), and
there `Quiet` says that nobody has knowledge to lose. From it follow `ReadyHashIsStored`,
`DeletedMeansEnded`, `OneMessagePerItem`, `FinalReceiptIsTrue` (for any number of exports,
where the run checks one) and the refinement `ExportRefinement`. `LeaseInv` adds that request
identifiers are unique and that an owner that still runs has its lease, which gives
`OwnerIsKept`. `OnlyExportIsShown` assumes a single export: with two, the later one takes the
receipt over, and one receipt cannot show both.

**`ScaleGateProofs`.** `LaunchInv` ties a created run to its plan and key (both name it, and a
request before the transaction has none), hence `PlanLaunchesOnce` and `KeyNamesOneRun` (two
requests with one key and one plan get the same run). `LockInv` ties the workflow to the status and
gives `ActiveRunHoldsLock` and `RunsOverlapOnlyLate`, under `~LostStart`: a request that fails after
its workflow started marks an active run terminal, and its lock may go. `ProofInv` follows the proof
from the run that wrote it to the plan it allowed and the run that plan launched, and gives
`BigRunsAreProven`; it needs that a request keeps its plan and that a workflow that wrote the
proof takes no further step (`PlanKept`, `ProvedStays`).

**`ApprovalsProofs`.** The invariant has six parts: the types, what the rows of `approvals` say of
each other, what each session has read and locked, what an uncommitted export stands on, that
spent approvals and committed exports correspond one to one, and that whatever was delivered had
committed. The argument is about isolation: what a session has read is only worth something while it
holds the row, and `Kept` says that a row locked by one session is the same after any step of
another. From it follow single use, governance of every delivery, and the refinement of
`Capability`, whose abstract promise includes that nobody decides his own request. For the cap the
invariant carries what was counted and what was read, each as the limit leaves it (`Capped`,
`WithinLimit`): an overrun needs a request without a limit within the cap, of which the cap then saw
every row counted.

**`PublicProofs`, the acquisition.** Three facts make publication accountable: what the alias names
has been accepted; at the put, the changes a run is to tell are the difference of the two snapshots,
up to what was accepted in between; and while it publishes, everything it tells has been accepted.
`NoSilentChange` follows, and with it a theorem that no run checks: nothing is told that was not
accepted first.

**`IngestProofs`, the documents.** `RegistryInv` says what the registry and its requests know;
trained and promoted versions and recorded evidence only grow (`Grows`). `DocumentInv` says, for
every stage an execution is in, which objects its earlier stages left (`Active`), that the lake has
a silver object behind every gold one, and what a completed and a settled run have. The champion
theorem and the one about evidence (every classification names a champion of its time, or the
baseline) hold for any number of racing trainings, promotions and uses.

**`IngestProofs`, the intake.** Nothing keeps executions of one batch apart, so that what an
execution holds may be contradicted by the table at any moment. `IntakeInv` says what nevertheless
stays true: an execution holds rows of its own batch, and an open Fetch has accounted for every
record that it has gone through (`Sound`); while a single file was dropped under a key (`OneFile`),
its rows are copies of the records of that file (`Copies`), the first copies stand in the order of
the file because the first Fetch that commits inserts each record once (`First`), and what an
execution has read obeys the rules and has passed a gate which the file itself passes (`Vets`). That
last part is the hard one, because the gate has looked at a table with copies: `TableGate` shows
that copies never help a file of numbered records. Only the first row of each number can pass, so
that the passing rows map one to one to passing records of the file, while every record has a row:
with no more that pass and no fewer in all, the rate of the table is not above that of the file
(`ScoreRises`). `Owed` is about completeness: each row that lacks its verdict, its batch status or
its place among the curated has an execution that still owes it, and a Fetch that wipes a verdict
takes that debt over. `TableTurn` and `Turn` say once what a step that does or does not write the
tables leaves as it was. From it follow `OnlyCleanIsCurated`, `NoRowIsLeftOpen` and
`NoPassedRowIsLost`. The proof corrected the model's claim: that a file is held whole was first
stated for every file, and TLC refuted it when the step of Validate would not go through (section
3.2).

**`DemoProofs`, the stream.** `Reached` measures a session by the count in its item, or by the last
count it had there when another session has taken its place: the objects are a run of pulses without
a gap up to that count or one more, no execution and no invocation is further, and whoever is about to
announce or to advance has landed its pulse. `ChunksAreFull` (every chunk before the present one was
full) makes the next execution begin where the last one ended, and `NothingBefore` gives a new
session a clean start. `OneAnnouncer` adds that among all invocations of a pulse only the one whose
conditional put succeeded announces it. Hence `StreamLandsInOrder`, `StreamAnnouncesOnce`,
`StreamKeepsItsSession`, and one theorem that no run checks: what was stopped, failed or completed
stays so with its count until another session replaces it (`StreamStaysStopped`).

**`DemoProofs`, the identities and the preparation.** `IdentityInv` is about the order in which the
presenter is enrolled: the file is saved, then the factor is verified, then it is preferred, under a
lock that keeps the commands apart (`Exclusive`, `Enrolls`); it does not matter where a command is
killed (`PresenterKeepsItsFactor`). `DataInv` keeps what belongs to others apart from what the reset
may delete, for any number of operators and open analyses (`ResetKeepsOthers`). What a command says
is true only of a world that nobody else changes meanwhile; so `AloneInv` says that while a command
is undisturbed (`Undisturbed`) what its checks have found so far is still so, and one that ends with
ready leaves everything pristine (`ReadyMeansPristine`); `HealingInv` says what each stage of a
preparation that began where it should succeed has put right (`Heals`), whatever rehearsals and
broken commands had left, so that it ends with ready and never refuses (`AloneItHeals`).

**`CollectorProofs`.** `CheckpointOK` ties the count of an invocation to the checkpoint it began
from; `OutputOK` says that the output has no gap, holds what the checkpoint counts, and that the
manifest names it; `RunOK` says that while a command walks the output is exactly what the checkpoint
counts, and between write and save that and the batch. A torn append is then only another row behind
the checkpoint, which the next preparation cuts off. Hence committed rows stay, and `prepare_resume`
never raises over files that only the command has written (`AlwaysResumable`), for all twelve
connectors, the three formats, and any page and batch size.

`SnapshotExact` is about the place where a resumed command goes on, and has a second invariant,
`ExactInv`, in terms of a *frontier*: the age up to which the walk has passed the records. A token and
an offset name one (`Names`): the offset is the number of entries that count between the beginning of
the page and the frontier. `Reached` says that every record younger than the frontier is among the
rows, and, while the source is the same, that no older one is. Each checkpoint, and each mark that the
next one will be made of, names a frontier that has been reached in the version of the source it was
made in. The argument has three parts. `FirstMoves`: what is published later only adds to the front
of a page, whether its token is a cursor, an offset or nothing. `Resume`: the page of the same token,
read in a source that may have grown, is entered at a frontier that is not behind the named one but for
entries that do not count, and not before it either if the source is the same; this is a matter of
cardinalities, because the code counts entries and never sees the frontier. `NextPage` and `LastPage`:
the next token begins where a page ends, and nothing is left behind the last one, except for OSTI, which
stops at a page that seems short once an entry is no object (`StopsEarly`). `CollectorRuns` checked
`ExactInv` on its instance before it was proved.

**Only model-checked.** Every invariant, action property and refinement that a run checks is stated by a
theorem. Out of the prover's reach stay liveness (`RunSettles`, `LockIsReleased`, `ExportSettles`,
`StreamGoesOn`, `SourceIsFollowed`, `SnapshotSettles`), which needs ENABLED and fairness, and that the
rows of a plan add up to its profile, an induction over the datasets (`PlanAssumption`). TLC checks
these on the instances of section 3.

## 5. Plan

Done: the Scale Run group with its workload; approvals and governed exports; intake with its
rules; the demonstration stream; public model executions; public acquisition; documents with their
registry; the snapshot collector; the preparation of the demonstration with its identities; and the
proof modules above, which cover every safety, action and refinement property that the runs check.

What would come next:

1. The cost envelope (`scale_cost.py`) as a bounded decimal computation, which would make
   `launch_allowed` of `ScaleGate` a result instead of a parameter.
2. The answers of public intelligence, as far as they read evidence that an acquisition or a model
   execution is about to replace.
3. The table of the collector's download cache, so that a walk over tables of two releases can be told.

Runs stay few: a new component gets one safety run and, where something must happen, one
liveness run, and properties that a theorem has made redundant leave the configuration files.
