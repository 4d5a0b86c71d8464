------------------------------- MODULE Intake -------------------------------
(* The structured intake: an EventBridge event for an object under drops/
   starts one execution of statemachines/intake.asl.yaml, which runs Fetch and
   Persist (functions/intake/pipeline.py) and Validate and Quarantine
   (functions/quality_gate/app.py) over the tables grants_raw and
   grants_curated. Nothing keeps two executions of one batch apart: the same
   file is dropped again, an event is delivered twice, an operator starts one.
   Every statement of a transaction sees what is committed when it runs (READ
   COMMITTED), so that a read and the write that depends on it are two steps. *)
EXTENDS QualityRules

CONSTANTS
  Batches,          \* the batch ids; a batch is the object key it derives from
  Files(_),         \* what may be dropped under a batch: sequences of records
  Intakes,          \* the executions of the state machine
  MaxLosses         \* bound on the invocations that are lost, killed or repeated

ASSUME LossAssumption == MaxLosses \in Nat
ASSUME FilesAssumption == \A b \in Batches : \A file \in Files(b) : file \in Seq(Record)

VARIABLES
  objects,          \* batch -> the current object under its key
  dropped,          \* batch -> every file ever dropped under its key
  raw,              \* grants_raw, in the order of id
  curated,          \* grants_curated: grant_no -> its row
  intake,           \* the executions
  losses

intakeVars == <<objects, dropped, raw, curated, intake, losses>>

NoFile == <<>>
Idle == [pc |-> "idle", batch |-> "none", file |-> NoFile, inserts |-> {},
         updates |-> {}, next |-> 1, read |-> NoFile, gate |-> FALSE]

Ended == {"idle", "skipped", "curated", "quarantined", "failed"}

NoLink == "none"

IntakeInit ==
  /\ objects = [b \in Batches |-> NoFile]
  /\ dropped = [b \in Batches |-> {}]
  /\ raw = <<>>
  /\ curated = <<>>
  /\ intake = [e \in Intakes |-> Idle]
  /\ losses = 0

\* The state an execution is in, with everything its last stage held dropped.
Stage(e, pc) == [Idle EXCEPT !.pc = pc, !.batch = intake[e].batch]
Goto(e, pc) == intake' = [intake EXCEPT ![e] = Stage(e, pc)]

RowsOf(b) == {id \in DOMAIN raw : raw[id].batch = b}

\* The members of a finite set of numbers, in order: the only sequence of its kind.
Ordered(S) ==
  {s \in [1 .. Cardinality(S) -> S] :
     /\ \A i, j \in DOMAIN s : i < j => s[i] < s[j]
     /\ \A k \in S : \E i \in DOMAIN s : s[i] = k}

\* A stage's transaction has committed. Its answer arrives, or it is lost: then
\* Retry invokes the stage again, or Catch ends the execution in RecordFailure.
Answer(e, next, again) ==
  \/ Goto(e, next) /\ UNCHANGED losses
  \/ /\ losses < MaxLosses
     /\ losses' = losses + 1
     /\ \/ Goto(e, again)
        \/ Goto(e, "failed")

\* The rows that an open transaction of another execution has updated.
LockedByOthers(e) ==
  UNION {intake[f].updates : f \in Intakes \ {e}}

-----------------------------------------------------------------------------
(* Events *)

\* A file lands under a key and its event starts an execution.
Drop(e, b, file) ==
  /\ intake[e].pc = "idle"
  /\ objects' = [objects EXCEPT ![b] = file]
  /\ dropped' = [dropped EXCEPT ![b] = @ \union {file}]
  /\ intake' = [intake EXCEPT ![e] = [Idle EXCEPT !.pc = "fetch", !.batch = b]]
  /\ UNCHANGED <<raw, curated, losses>>

\* An event for an object that is_ingestible refuses: FetchGate ends there.
Skip(e) ==
  /\ intake[e].pc = "idle"
  /\ Goto(e, "skipped")
  /\ UNCHANGED <<objects, dropped, raw, curated, losses>>

-----------------------------------------------------------------------------
(* Fetch *)

\* read_object takes the current object of the key, not the version of the event.
ReadObject(e) ==
  /\ intake[e].pc = "fetch"
  /\ intake' = [intake EXCEPT ![e] =
       [Stage(e, "rows") EXCEPT !.file = objects[intake[e].batch]]]
  /\ UNCHANGED <<objects, dropped, raw, curated, losses>>

\* UPDATE ... WHERE batch_id AND row_index, which waits for the transaction
\* that holds a row; with no such row, an INSERT that nobody else sees yet.
UpsertRawRow(e) ==
  LET k == intake[e].next
      ids == {id \in RowsOf(intake[e].batch) : raw[id].row_index = k} IN
  /\ intake[e].pc = "rows"
  /\ k <= Len(intake[e].file)
  /\ ids \intersect LockedByOthers(e) = {}
  /\ intake' = [intake EXCEPT ![e] = [intake[e] EXCEPT
       !.next = k + 1,
       !.updates = intake[e].updates \union ids,
       !.inserts = intake[e].inserts \union {j \in {k} : ids = {}}]]
  /\ UNCHANGED <<objects, dropped, raw, curated, losses>>

\* What a raw row holds when Fetch has written it: raw_jsonb is replaced, so the
\* verdict, the batch status and the link of an earlier run go with it.
RawRow(b, k, record) ==
  [batch |-> b, row_index |-> k, record |-> record, verdict |-> "none",
   batch_status |-> "none", curated |-> NoLink]

\* The transaction commits.
CommitFetch(e) ==
  LET x == intake[e]
      Written(k) == RawRow(x.batch, k, x.file[k]) IN
  /\ x.pc = "rows"
  /\ x.next > Len(x.file)
  /\ \E inserted \in Ordered(x.inserts) :
       raw' = [id \in DOMAIN raw |->
                 IF id \in x.updates THEN Written(raw[id].row_index) ELSE raw[id]]
              \o [n \in DOMAIN inserted |-> Written(inserted[n])]
  /\ Answer(e, "validate", "fetch")
  /\ UNCHANGED <<objects, dropped, curated>>

-----------------------------------------------------------------------------
(* Validate *)

\* _load_batch; a batch without rows raises.
LoadBatch(e) ==
  LET ids == RowsOf(intake[e].batch) IN
  /\ intake[e].pc = "validate"
  /\ IF ids = {} THEN Goto(e, "failed")
     ELSE intake' = [intake EXCEPT ![e] =
            [Stage(e, "evaluate") EXCEPT !.read = [id \in ids |-> raw[id].record]]]
  /\ UNCHANGED <<objects, dropped, raw, curated, losses>>

\* _existing_grant_nos of the other batches, which may have been curated since, then
\* evaluate_batch in memory: what the stage will write is settled here.
EvaluateBatch(e) ==
  LET rows == intake[e].read
      existing == {g \in DOMAIN curated : curated[g].batch # intake[e].batch}
      passing == PassingRows(rows, existing) IN
  /\ intake[e].pc = "evaluate"
  /\ intake' = [intake EXCEPT ![e] =
       [Stage(e, "stamp") EXCEPT !.read =
          [id \in DOMAIN rows |-> IF id \in passing THEN "passed" ELSE "quarantined"],
          !.gate = GatePasses(rows, existing)]]
  /\ UNCHANGED <<objects, dropped, raw, curated, losses>>

\* Mutant: Only the quarantined rows are stamped.
MutantStampVerdicts(e) ==
  LET verdicts == intake[e].read IN
  /\ intake[e].pc = "stamp"
  /\ DOMAIN verdicts \intersect LockedByOthers(e) = {}
  /\ raw' = [id \in DOMAIN raw |->
       IF id \in DOMAIN verdicts /\ verdicts[id] = "quarantined"
       THEN [raw[id] EXCEPT !.verdict = "quarantined"] ELSE raw[id]]
  /\ Answer(e, IF intake[e].gate THEN "persist" ELSE "quarantine", "validate")
  /\ UNCHANGED <<objects, dropped, curated>>

\* The verdict of a row is written WHERE id, on whatever the row holds by then.
StampVerdicts(e) ==
  LET verdicts == intake[e].read IN
  /\ intake[e].pc = "stamp"
  /\ DOMAIN verdicts \intersect LockedByOthers(e) = {}
  /\ raw' = [id \in DOMAIN raw |->
       IF id \in DOMAIN verdicts THEN [raw[id] EXCEPT !.verdict = verdicts[id]] ELSE raw[id]]
  /\ Answer(e, IF intake[e].gate THEN "persist" ELSE "quarantine", "validate")
  /\ UNCHANGED <<objects, dropped, curated>>

-----------------------------------------------------------------------------
(* Persist and Quarantine *)

\* Mutant: Persist takes every row of the batch.
MutantReadPassingRows(e) ==
  /\ intake[e].pc = "persist"
  /\ intake' = [intake EXCEPT ![e] = [Stage(e, "curate") EXCEPT !.read =
       [id \in RowsOf(intake[e].batch) |-> raw[id].record]]]
  /\ UNCHANGED <<objects, dropped, raw, curated, losses>>

\* _passing_rows: an autocommit read; the embeddings are computed after it.
ReadPassingRows(e) ==
  /\ intake[e].pc = "persist"
  /\ intake' = [intake EXCEPT ![e] = [Stage(e, "curate") EXCEPT !.read =
       [id \in {id \in RowsOf(intake[e].batch) : raw[id].verdict = "passed"} |->
          raw[id].record]]]
  /\ UNCHANGED <<objects, dropped, raw, curated, losses>>

\* Mutant: One number that is curated already keeps the whole batch out.
MutantInserted(rows) ==
  {id \in DOMAIN rows :
     \A other \in DOMAIN rows : rows[other].grant_no \notin DOMAIN curated}

\* The rows of the read whose INSERT ... ON CONFLICT (grant_no) DO NOTHING
\* returns an id: the first of each number that is not curated yet.
Inserted(rows) ==
  {id \in DOMAIN rows :
     /\ rows[id].grant_no \notin DOMAIN curated
     /\ \A other \in DOMAIN rows :
          other < id => rows[other].grant_no # rows[id].grant_no}

\* UPDATE grants_raw SET raw_jsonb = raw_jsonb || batch_status WHERE batch_id.
MarkBatch(b, status, row) ==
  IF row.batch = b THEN [row EXCEPT !.batch_status = status] ELSE row

\* One transaction: the inserts, the link of every raw row that was inserted,
\* and the status of the batch. A null in a NOT NULL column raises, and the
\* state machine does not retry that.
CurateRows(e) ==
  LET b == intake[e].batch
      rows == intake[e].read
      new == Inserted(rows)
      RowFor(g) == CHOOSE id \in new : rows[id].grant_no = g IN
  /\ intake[e].pc = "curate"
  /\ IF \E id \in DOMAIN rows, field \in RequiredFields : IsNull(rows[id], field)
     THEN /\ Goto(e, "failed")
          /\ UNCHANGED <<raw, curated, losses>>
     ELSE /\ RowsOf(b) \intersect LockedByOthers(e) = {}
          /\ curated' = [g \in DOMAIN curated \union {rows[id].grant_no : id \in new} |->
                IF g \in DOMAIN curated THEN curated[g]
                ELSE [batch |-> b, record |-> rows[RowFor(g)]]]
          /\ raw' = [id \in DOMAIN raw |-> MarkBatch(b, "curated",
                IF id \in new THEN [raw[id] EXCEPT !.curated = rows[id].grant_no]
                ELSE raw[id])]
          /\ Answer(e, "curated", "persist")
  /\ UNCHANGED <<objects, dropped>>

\* quarantine_stage.
HoldBatch(e) ==
  /\ intake[e].pc = "quarantine"
  /\ RowsOf(intake[e].batch) \intersect LockedByOthers(e) = {}
  /\ raw' = [id \in DOMAIN raw |-> MarkBatch(intake[e].batch, "quarantined", raw[id])]
  /\ Answer(e, "quarantined", "quarantine")
  /\ UNCHANGED <<objects, dropped, curated>>

-----------------------------------------------------------------------------
(* Failures *)

StageStart ==
  [rows |-> "fetch", evaluate |-> "validate", stamp |-> "validate", curate |-> "persist"]

\* An invocation dies before it commits: its transaction rolls back, and the
\* stage is retried or the execution ends.
Die(e) ==
  /\ intake[e].pc \notin Ended
  /\ losses < MaxLosses
  /\ losses' = losses + 1
  /\ \/ intake[e].pc \in DOMAIN StageStart /\ Goto(e, StageStart[intake[e].pc])
     \/ Goto(e, "failed")
  /\ UNCHANGED <<objects, dropped, raw, curated>>

-----------------------------------------------------------------------------
ExecutionStep(e) ==
  \/ ReadObject(e) \/ UpsertRawRow(e) \/ CommitFetch(e)
  \/ LoadBatch(e) \/ EvaluateBatch(e) \/ StampVerdicts(e)
  \/ ReadPassingRows(e) \/ CurateRows(e) \/ HoldBatch(e)

IntakeNext ==
  \E e \in Intakes :
    \/ \E b \in Batches : \E file \in Files(b) : Drop(e, b, file)
    \/ Skip(e)
    \/ ExecutionStep(e)
    \/ Die(e)

IntakeSpec == IntakeInit /\ [][IntakeNext]_intakeVars

-----------------------------------------------------------------------------
(* Properties *)

\* Every table and every execution holds what its columns and its stage allow,
\* and an open Fetch accounts for exactly the records it has gone through: each
\* it has either updated or will insert (pipeline.py, _upsert_raw_rows).
IntakeTypeOK ==
  /\ raw \in Seq([batch : Batches, row_index : Nat \ {0}, record : Record,
                  verdict : {"none", "passed", "quarantined"},
                  batch_status : {"none", "curated", "quarantined"},
                  curated : GrantNos \union {NoLink}])
  /\ DOMAIN curated \subseteq GrantNos
  /\ \A g \in DOMAIN curated : curated[g] \in [batch : Batches, record : Record]
  /\ \A e \in Intakes : intake[e].pc = "rows" =>
       1 .. intake[e].next - 1 =
         intake[e].inserts \union {raw[id].row_index : id \in intake[e].updates}
  /\ losses \in 0 .. MaxLosses

\* The rules as the documentation lists them, of one record.
IsClean(record) ==
  /\ \A field \in RequiredFields : ~IsNull(record, field)
  /\ record.fiscal_year = "valid"
  /\ record.amount_usd = "valid"
  /\ record.org_unit = "valid"

\* Only one content was ever dropped under the batch's key.
SameFile(b) == \A f, g \in dropped[b] : f = g

Quiet(b) ==
  \A e \in Intakes : intake[e].batch = b => intake[e].pc \in Ended \ {"failed"}

\* The number of a record tells its copies apart, or it has none. One whose type
\* normalization turns into null counts as neither.
IsNumbered(file) == \A k \in DOMAIN file : file[k].grant_no # "invalid_type"

\* As long as the file of a batch is only ever dropped with one content, and however
\* its executions overlap, retry and fail, a record is curated only if it is one of the
\* file and clean (rules.py: "only rows that fail none are eligible to be curated"); and
\* a file whose records are numbered is held whole if it fails the gate, whatever copies
\* of them an overlapping Fetch makes.
CuratedIsClean ==
  \A g \in DOMAIN curated :
    LET c == curated[g] IN
    SameFile(c.batch) =>
      /\ c.record.grant_no = g
      /\ IsClean(c.record)
      /\ \E file \in dropped[c.batch] :
           /\ \E k \in DOMAIN file : file[k] = c.record
           /\ IsNumbered(file) => GatePasses(file, {})

\* What the documentation says of every batch (quality_gate/app.py: below the threshold "the
\* gate rejects the batch as a whole and no rows are curated at all, even the clean ones"):
\* a record is curated only out of a file that passes the gate. It does not hold once the
\* key is dropped again with a file that the gate rejects: an execution that passed before
\* curates the clean rows of the other file.
FailingBatchIsHeld ==
  \A g \in DOMAIN curated :
    \E file \in dropped[curated[g].batch] :
      /\ \E k \in DOMAIN file : file[k] = curated[g].record
      /\ GatePasses(file, {})

\* Once every execution of a batch has ended and none failed, every raw row
\* bears a verdict and a batch status, although each Fetch wipes both of a row
\* that another execution has gone past (intake.asl.yaml: "every row retained
\* with its verdict").
EveryRowIsSettled ==
  \A b \in Batches : Quiet(b) =>
    \A id \in RowsOf(b) : raw[id].verdict # "none" /\ raw[id].batch_status # "none"

\* Once they have all ended in Curated no passing row is missing from
\* grants_curated, whichever execution or batch has put it there
\* (intake.asl.yaml: "its clean rows are in grants_curated").
PassedRowsAreCurated ==
  \A b \in Batches :
    (\A e \in Intakes : intake[e].batch = b => intake[e].pc = "curated") =>
      \A id \in RowsOf(b) :
        raw[id].verdict = "passed" => raw[id].record.grant_no \in DOMAIN curated

\* A row that passed the gate has a value in every NOT NULL column, so that a
\* batch that passed is not stopped by its own records (rules.py:
\* "not_null_required_fields: every NOT NULL curated column has a value").
PassedRowsCanBeCurated ==
  \A id \in DOMAIN raw :
    raw[id].verdict = "passed" /\ SameFile(raw[id].batch)
      => \A field \in RequiredFields : ~IsNull(raw[id].record, field)

\* One raw row for each record of a batch (pipeline.py: "Re-dropping the same
\* file therefore re-runs the same batch instead of doubling it").
RawRowsAreKeyed ==
  \A i, j \in DOMAIN raw :
    raw[i].batch = raw[j].batch /\ raw[i].row_index = raw[j].row_index => i = j

=============================================================================
