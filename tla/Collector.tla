------------------------------ MODULE Collector ------------------------------
(***************************************************************************)
(* The snapshot collector (public_intelligence/cli.py): one command that   *)
(* walks a source, writes its records in batches to a file or a dataset    *)
(* and saves a checkpoint after each batch, so that the command can be     *)
(* given again after it died, failed or reached its limit.                 *)
(***************************************************************************)
EXTENDS Connectors, Sequences

CONSTANTS
    Jobs,         \* the commands considered: a connector and an output format
    BatchSize,
    MaxPages,     \* --max-pages: requests of one invocation
    Limits,       \* values of --max-records
    MaxRestarts,  \* bound: uses of --fresh
    MaxNews,      \* bound: records published during the behaviour
    MaxFaults     \* bound: deaths, failed requests and streams cut short

Formats == {"jsonl", "gzip", "parquet"}

ASSUME CollectorAssumption ==
    /\ Jobs \subseteq [connector : Connectors, format : Formats]
    /\ BatchSize \in Nat \ {0} /\ MaxPages \in Nat \ {0} /\ Limits \subseteq Nat \ {0}
    /\ MaxRestarts \in Nat /\ MaxNews \in Nat /\ MaxFaults \in Nat

VARIABLES
    job,        \* what the command collects, and how it writes
    source,     \* records published since the start
    saved,      \* the checkpoint file
    data,       \* the rows of the output, by their number
    manifest,   \* where the parts of the output end, in its manifest
    run,        \* the invocation of the command
    restarts, faults

vars == <<job, source, saved, data, manifest, run, restarts, faults>>

c == job.connector

\* "since" stands for retrieved_at, and "cut" remembers that a stream ended early.
NewCheckpoint(v) == [there |-> TRUE, records |-> 0, at |-> 0, off |-> 0, version |-> 0,
                     since |-> v, complete |-> FALSE, cut |-> FALSE]
Absent  == [NewCheckpoint(0) EXCEPT !.there = FALSE]
NoMark  == [at |-> 0, off |-> 0, version |-> 0]
IdleRun == [pc |-> "idle", cp |-> Absent, limit |-> 0, room |-> 0, at |-> 0, off |-> 0,
            page |-> Page(1, 0, 0, FALSE), index |-> 1, version |-> 0, pages |-> 0,
            emitted |-> 0, batch |-> <<>>, mark |-> NoMark,
            closing |-> FALSE, exhausted |-> FALSE]
Garbage == 0

Init ==
    /\ job \in Jobs
    /\ source = 0 /\ saved = Absent
    /\ data = <<>> /\ manifest = {}
    /\ run = IdleRun
    /\ restarts = 0 /\ faults = 0

Fault == faults < MaxFaults /\ faults' = faults + 1

Goto(pc)   == run' = [run EXCEPT !.pc = pc]
Raise      == run' = IdleRun
OutputOnly == UNCHANGED <<job, source, saved, restarts, faults>>
RunOnly    == UNCHANGED <<job, source, saved, data, manifest, restarts>>

-----------------------------------------------------------------------------
(* _collect, until the connector is asked: the checkpoint and the output.  *)

Start(limit, fresh) ==
    /\ run.pc = "idle"
    /\ fresh => restarts < MaxRestarts
    /\ restarts' = IF fresh THEN restarts + 1 ELSE restarts
    /\ saved' = IF fresh THEN Absent ELSE saved
    /\ run' = [IdleRun EXCEPT !.pc = "prepare", !.limit = limit,
                              !.cp = IF saved'.there THEN saved ELSE NewCheckpoint(source)]
    /\ UNCHANGED <<job, source, data, manifest, faults>>

Rows(n) == [i \in DOMAIN data \cap 1..n |-> data[i]]

\* Mutant: only the number of records says that nothing is left.
MutantPrepared ==
    run' = IF run.cp.records >= run.limit
           THEN IdleRun
           ELSE [run EXCEPT !.pc = "fetch", !.at = run.cp.at, !.off = run.cp.off,
                            !.room = run.limit - run.cp.records]

\* Nothing is left to do, or the walk goes on where the checkpoint says.
Prepared ==
    run' = IF run.cp.complete \/ run.cp.records >= run.limit
           THEN IdleRun
           ELSE [run EXCEPT !.pc = "fetch", !.at = run.cp.at, !.off = run.cp.off,
                            !.room = run.limit - run.cp.records]

\* JsonlWriter.prepare_resume: lines are counted and the rest is cut off.
PrepareJsonl ==
    /\ run.pc = "prepare" /\ job.format = "jsonl"
    /\ IF Cardinality(DOMAIN data) < run.cp.records
       THEN Raise /\ UNCHANGED data
       ELSE data' = Rows(run.cp.records) /\ Prepared
    /\ OutputOnly /\ UNCHANGED manifest

\* Mutant: a checkpoint of no records is not the end of a part.
MutantBoundary == run.cp.records \in manifest

\* The checkpoint names the end of a part.
AtBoundary == run.cp.records = 0 \/ run.cp.records \in manifest

PrepareGzip ==
    /\ run.pc = "prepare" /\ job.format = "gzip"
    /\ IF AtBoundary
       THEN data' = Rows(run.cp.records) /\ Goto("retain")
       ELSE Raise /\ UNCHANGED data
    /\ OutputOnly /\ UNCHANGED manifest

\* The files of parts that are not retained are removed one by one.
PrepareParquet ==
    /\ run.pc = "prepare" /\ job.format = "parquet"
    /\ IF ~AtBoundary
       THEN Raise /\ UNCHANGED data
       ELSE \/ /\ DOMAIN data \subseteq 1..run.cp.records
               /\ Goto("retain") /\ UNCHANGED data
            \/ \E left \in SUBSET DOMAIN data :
                  /\ left # DOMAIN data
                  /\ DOMAIN data \cap 1..run.cp.records \subseteq left
                  /\ data' = [i \in left |-> data[i]]
                  /\ UNCHANGED run
    /\ OutputOnly /\ UNCHANGED manifest

SaveRetained ==
    /\ run.pc = "retain"
    /\ manifest' = {e \in manifest : e <= run.cp.records}
    /\ Prepared
    /\ OutputOnly /\ UNCHANGED data

-----------------------------------------------------------------------------
(* The connector.                                                          *)

\* A source that is one file must be the one the checkpoint was made of.
Changed == c \in Files /\ run.cp.records > 0 /\ run.cp.version # source

Opened(page) == [run EXCEPT !.pc = "take", !.page = page,
                            !.index = ResumeAt(c, page, run.off, source),
                            !.version = source, !.pages = @ + 1]

Limited   == run.emitted >= run.room
NoBudget  == c \notin Files /\ run.pages >= MaxPages

Fetch ==
    /\ run.pc = "fetch"
    /\ LET page == Read(c, run.at, source) IN
         IF Limited THEN Goto("finish")
         ELSE IF Changed \/ NoBudget \/ RefusesPage(c, page, source) THEN Raise
         ELSE run' = Opened(page)
    /\ RunOnly /\ UNCHANGED faults

\* The connection of a stream is lost: it ends like a complete one (BoundedBinaryStream).
FetchCut ==
    /\ run.pc = "fetch" /\ c = "sbir" /\ ~Limited /\ ~Changed /\ Fault
    /\ \E to \in 0..Latest(source) - 1 :
          run' = [Opened(Page(1, to, 0, TRUE)) EXCEPT !.cp.cut = TRUE]
    /\ RunOnly

\* The retries of RetryHttpClient are used up, for a page or for the detail of a record.
RequestFails ==
    /\ run.pc \in {"fetch", "take"} /\ Fault
    /\ Raise
    /\ RunOnly

EndOfPage ==
    /\ run.pc = "take" /\ run.index > run.page.to
    /\ run' = IF StopsAtLimit(c) /\ Limited THEN [run EXCEPT !.pc = "finish"]
              ELSE IF run.page.last
              THEN [run EXCEPT !.pc = "finish", !.exhausted = TRUE]
              ELSE [run EXCEPT !.pc = "fetch", !.at = run.page.next, !.off = 0]
    /\ RunOnly /\ UNCHANGED faults

\* Mutant: the offset is that of the record, not of the one after it.
MutantMark == [at |-> run.at, off |-> Listed(c, run.page.from, run.index - 1, run.version),
               version |-> run.version]

\* Where a walk goes on after the record at hand.
Mark == [at |-> run.at, off |-> Listed(c, run.page.from, run.index, run.version),
         version |-> run.version]

\* One record of the page, and the batch it may complete.
Take ==
    /\ run.pc = "take" /\ run.index <= run.page.to
    /\ LET k == ItemAt(run.index, run.version) IN
         run' = IF Limited /\ ~SeenFirst(c, k) THEN [run EXCEPT !.pc = "finish"]
                ELSE IF Refuses(c, k) THEN IdleRun
                ELSE IF ~Emits(c, k) THEN [run EXCEPT !.index = @ + 1]
                ELSE [run EXCEPT !.batch = Append(@, k), !.mark = Mark,
                                 !.emitted = @ + 1, !.index = @ + 1,
                                 !.pc = IF Len(run.batch) + 1 >= BatchSize
                                        THEN "write" ELSE "take"]
    /\ RunOnly /\ UNCHANGED faults

-----------------------------------------------------------------------------
(* commit, and the end of the command.                                     *)

Finish ==
    /\ run.pc = "finish"
    /\ run' = [run EXCEPT !.closing = TRUE, !.pc = IF run.batch = <<>> THEN "close" ELSE "write"]
    /\ RunOnly /\ UNCHANGED faults

\* A file grows at its end; a part is named by the number of its first row.
FirstRow == IF job.format = "parquet" THEN run.cp.records + 1 ELSE Cardinality(DOMAIN data) + 1

With(rows) == [i \in DOMAIN data \cup (FirstRow..FirstRow + Len(rows) - 1) |->
                 IF i < FirstRow THEN data[i] ELSE rows[i - FirstRow + 1]]

WriteBatch ==
    /\ run.pc = "write"
    /\ data' = With(run.batch)
    /\ Goto(IF job.format = "jsonl" THEN "save" ELSE "record")
    /\ OutputOnly /\ UNCHANGED manifest

RecordPart ==
    /\ run.pc = "record"
    /\ manifest' = manifest \cup {run.cp.records + Len(run.batch)}
    /\ Goto("save")
    /\ OutputOnly /\ UNCHANGED data

SaveCheckpoint ==
    /\ run.pc = "save"
    /\ saved' = [run.cp EXCEPT !.records = @ + Len(run.batch), !.at = run.mark.at,
                               !.off = run.mark.off, !.version = run.mark.version]
    /\ run' = [run EXCEPT !.cp = saved', !.batch = <<>>,
                          !.pc = IF run.closing THEN "close" ELSE "take"]
    /\ UNCHANGED <<job, source, data, manifest, restarts, faults>>

Close ==
    /\ run.pc = "close"
    /\ saved' = [run.cp EXCEPT !.complete = run.exhausted]
    /\ run' = IdleRun
    /\ UNCHANGED <<job, source, data, manifest, restarts, faults>>

\* The process is killed, or a call to the file system raises: of what was being appended
\* to a file, a part may be there, its last row torn.
Dies ==
    /\ run.pc # "idle" /\ Fault
    /\ run' = IdleRun
    /\ \/ UNCHANGED data
       \/ /\ run.pc = "write" /\ job.format # "parquet"
          /\ \E n \in 0..Len(run.batch) :
                \/ data' = With(SubSeq(run.batch, 1, n))
                \/ data' = With(Append(SubSeq(run.batch, 1, n), Garbage))
    /\ UNCHANGED <<job, source, saved, manifest, restarts>>

Publish ==
    /\ source < MaxNews /\ source' = source + 1
    /\ UNCHANGED <<job, saved, data, manifest, run, restarts, faults>>

Step ==
    \/ PrepareJsonl \/ PrepareGzip \/ PrepareParquet \/ SaveRetained
    \/ Fetch \/ EndOfPage \/ Take \/ Finish
    \/ WriteBatch \/ RecordPart \/ SaveCheckpoint \/ Close

Next ==
    \/ Step \/ FetchCut \/ RequestFails \/ Dies \/ Publish
    \/ \E limit \in Limits, fresh \in BOOLEAN : Start(limit, fresh)

Spec == Init /\ [][Next]_vars

\* An invocation goes on, and the command is given again with each limit.
Fairness == WF_vars(Step) /\ \A limit \in Limits : SF_vars(Start(limit, FALSE))
FairSpec == Spec /\ Fairness

-----------------------------------------------------------------------------
(* Properties.                                                             *)

CheckpointRecord == [there : BOOLEAN, records : Nat, at : Int, off : Int, version : Nat,
                     since : Nat, complete : BOOLEAN, cut : BOOLEAN]
MarkRecord == [at : Int, off : Int, version : Nat]
PageRecord == [from : Int, to : Int, next : Int, last : BOOLEAN]
Pcs == {"idle", "prepare", "retain", "fetch", "take", "finish", "write", "record", "save", "close"}
RunRecord  == [pc : Pcs, cp : CheckpointRecord, limit : Nat, room : Int, at : Int, off : Int,
               page : PageRecord, index : Int, version : Nat, pages : Nat, emitted : Nat,
               batch : Seq(Int), mark : MarkRecord, closing : BOOLEAN, exhausted : BOOLEAN]

\* Every variable keeps its shape.
TypeOK ==
    /\ job \in Jobs /\ source \in Nat /\ saved \in CheckpointRecord
    /\ DOMAIN data \subseteq Nat \ {0} /\ data \in [DOMAIN data -> Int]
    /\ manifest \subseteq Nat /\ run \in RunRecord
    /\ restarts \in Nat /\ faults \in Nat

\* What a saved checkpoint counts as written is what the source had when the snapshot was
\* begun, without a gap up to where the walk has come, all of it when the snapshot is
\* complete, and nothing twice unless the source changed under a walk by pages: whatever
\* died in between, and whatever a resumed command found behind the checkpoint.
SnapshotIsExact ==
    LET Counted == 1..saved.records
        StopsEarly == c = "osti" /\ Malformed[c] # {}
        Passed(k) == (saved.complete /\ ~StopsEarly) \/ \E i \in Counted : data[i] < k
    IN  saved.there =>
          /\ Counted \subseteq DOMAIN data
          /\ \A i \in Counted : Emits(c, data[i])
          /\ ~saved.cut => \A k \in 1..Latest(saved.since) :
                Emits(c, k) /\ Passed(k) => \E i \in Counted : data[i] = k
          /\ (c \in Files \/ source = saved.since) =>
                \A i, j \in Counted : i < j => data[j] < data[i]

\* Rows that a checkpoint counts are not touched again, and a complete snapshot stays as it
\* is, until --fresh replaces it ("Use --fresh only when intentionally replacing").
SnapshotGrows ==
    [][saved.there /\ saved'.there =>
         /\ saved.records <= saved'.records /\ (saved.complete => saved' = saved)
         /\ \A i \in 1..saved.records : i \in DOMAIN data' /\ data'[i] = data[i]]_<<saved, data>>

\* A resumed command never finds its output shorter than its checkpoint or its checkpoint
\* inside a part (the errors that prepare_resume can raise).
AlwaysResumable ==
    (run.pc \in {"idle", "prepare"} /\ saved.there) =>
        /\ saved.records <= Cardinality(DOMAIN data)
        /\ (job.format # "jsonl" /\ saved.records > 0) => saved.records \in manifest

\* A command that is given again and again completes its snapshot, unless the file it
\* reads was replaced, or the source shows what the connector refuses.
NeedsFresh == c \in Files /\ saved.records > 0 /\ saved.version # source
IsRefused  == \E k \in 1..Latest(source) : Refuses(c, k)
SnapshotSettles == <>[](saved.complete \/ NeedsFresh \/ IsRefused)
=============================================================================
