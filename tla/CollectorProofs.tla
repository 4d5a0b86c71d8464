--------------------------- MODULE CollectorProofs ---------------------------
(* Theorems about Collector, for any source, connector and format, any batch size,
   any limits, and any number of deaths, failures and changes of the source. *)
EXTENDS Collector, FiniteSetTheorems, TLAPS

LEMMA Constants ==
  /\ Records \in Nat /\ PageSize \in Nat \ {0} /\ BatchSize \in Nat \ {0}
  /\ Limits \subseteq Nat \ {0} /\ MaxFaults \in Nat /\ MaxRestarts \in Nat /\ MaxNews \in Nat
BY ConnectorsAssumption, CollectorAssumption

-----------------------------------------------------------------------------
(* Types.                                                                  *)

LEMMA Interval ==
  ASSUME NEW n \in Nat
  PROVE  IsFiniteSet(1..n) /\ Cardinality(1..n) = n /\ 1..n \subseteq Nat \ {0}
BY FS_Interval

LEMMA ListedType ==
  ASSUME NEW from \in Int, NEW to \in Int, NEW v, NEW s
  PROVE  Listed(s, from, to, v) \in Nat
<1> DEFINE S == {i \in from..to : Outcome(s, ItemAt(i, v)) # "unlisted"}
<1>1. IsFiniteSet(from..to)
  BY FS_Interval
<1>2. IsFiniteSet(S)
  BY <1>1, FS_Subset
<1>3. Cardinality(S) \in Nat
  BY <1>2, FS_CardinalityType
<1>4. QED
  BY <1>3 DEF Listed

LEMMA ResumeType ==
  ASSUME NEW page \in PageRecord, NEW off \in Int, NEW v, NEW s
  PROVE  ResumeAt(s, page, off, v) \in Int
<1> DEFINE S == {i \in page.from..page.to : Listed(s, page.from, i, v) <= off}
<1>1. page.from \in Int /\ page.to \in Int
  BY DEF PageRecord
<1>2. IsFiniteSet(page.from..page.to)
  BY <1>1, FS_Interval
<1>3. IsFiniteSet(S)
  BY <1>2, FS_Subset
<1>4. Cardinality(S) \in Nat
  BY <1>3, FS_CardinalityType
<1>5. page.from + Cardinality(S) \in Int
  BY <1>1, <1>4
<1>6. QED
  BY <1>5 DEF ResumeAt

LEMMA PageEndType ==
  ASSUME NEW from \in Int, NEW v \in Nat
  PROVE  PageEnd(from, v) \in Int /\ Latest(v) \in Nat
BY Constants DEF PageEnd, Latest

LEMMA ReadType ==
  ASSUME NEW at \in Int, NEW v \in Nat, NEW s
  PROVE  Read(s, at, v) \in PageRecord
<1>1. CursorStart(at, v) \in Int
  BY PageEndType DEF CursorStart
<1>2. PageEnd(CursorStart(at, v), v) \in Int /\ PageEnd(at + 1, v) \in Int
  BY <1>1, PageEndType
<1>c. CursorAfter(PageEnd(CursorStart(at, v), v), v) \in Int
  BY <1>2, PageEndType DEF CursorAfter
<1>3. Crossref(at, v) \in PageRecord /\ OpenAlex(at, v) \in PageRecord
        /\ DataCite(at, v) \in PageRecord
  BY <1>1, <1>2, <1>c DEF Page, PageRecord, Crossref, OpenAlex, DataCite, Short, More
<1>4. Osti(at, v) \in PageRecord
  <2>1. (Listed("osti", at + 1, PageEnd(at + 1, v), v) < PageSize) \in BOOLEAN
    OBVIOUS
  <2>2. at + PageSize \in Int
    BY Constants
  <2>3. QED
    BY <1>2, <2>1, <2>2 DEF Page, PageRecord, Osti
<1>5. UsaSpending(at, v) \in PageRecord /\ FederalRegister(at, v) \in PageRecord
        /\ GrantsGov(at, v) \in PageRecord
  BY <1>2, Constants DEF Page, PageRecord, UsaSpending, FederalRegister, GrantsGov, Short, More
<1>6. PubMed(at, v) \in PageRecord /\ SamGov(at, v) \in PageRecord
  BY <1>2 DEF Page, PageRecord, PubMed, SamGov, More
<1>7. Sbir(v) \in PageRecord /\ Uspto(v) \in PageRecord /\ OnrWebsite(v) \in PageRecord
  BY PageEndType DEF Page, PageRecord, Sbir, Uspto, OnrWebsite
<1>8. QED
  BY <1>3, <1>4, <1>5, <1>6, <1>7 DEF Read

LEMMA NewType ==
  ASSUME NEW v \in Nat
  PROVE  /\ NewCheckpoint(v) \in CheckpointRecord /\ NewCheckpoint(v).records = 0
         /\ NewCheckpoint(v).complete = FALSE /\ NewCheckpoint(v).there = TRUE
BY DEF NewCheckpoint, CheckpointRecord

LEMMA AbsentType == Absent \in CheckpointRecord /\ Absent.there = FALSE
<1>1. NewCheckpoint(0) \in CheckpointRecord
  BY NewType
<1>2. QED
  BY <1>1 DEF Absent, CheckpointRecord

LEMMA IdleType == IdleRun \in RunRecord /\ IdleRun.pc = "idle"
<1>1. Absent \in CheckpointRecord
  BY AbsentType
<1>2. Page(1, 0, 0, FALSE) \in PageRecord
  BY DEF Page, PageRecord
<1>3. NoMark \in MarkRecord
  BY DEF NoMark, MarkRecord
<1>4. <<>> \in Seq(Int)
  OBVIOUS
<1>5. IdleRun \in RunRecord
  <2> DEFINE abs == Absent
             pg  == Page(1, 0, 0, FALSE)
             mk  == NoMark
             bt  == <<>>
             S   == Seq(Int)
  <2>1. abs \in CheckpointRecord /\ pg \in PageRecord /\ mk \in MarkRecord /\ bt \in S
    BY <1>1, <1>2, <1>3, <1>4
  <2>2. IdleRun = [pc |-> "idle", cp |-> abs, limit |-> 0, room |-> 0, at |-> 0, off |-> 0,
            page |-> pg, index |-> 1, version |-> 0, pages |-> 0,
            emitted |-> 0, batch |-> bt, mark |-> mk,
            closing |-> FALSE, exhausted |-> FALSE]
    BY DEF IdleRun
  <2> HIDE DEF abs, pg, mk, bt, S
  <2>3. QED
    BY <2>1, <2>2 DEF RunRecord, Pcs, S
<1>6. IdleRun.pc = "idle"
  BY DEF IdleRun
<1>7. QED
  BY <1>5, <1>6

LEMMA GotoType ==
  ASSUME TypeOK, NEW pc \in Pcs
  PROVE  [run EXCEPT !.pc = pc] \in RunRecord
BY DEF TypeOK, RunRecord

LEMMA OpenedType ==
  ASSUME TypeOK, NEW page \in PageRecord
  PROVE  Opened(page) \in RunRecord
<1>1. run \in RunRecord /\ run.off \in Int /\ run.pages \in Nat /\ source \in Nat
  BY DEF TypeOK, RunRecord
<1> DEFINE i == ResumeAt(c, page, run.off, source)
           n == run.pages + 1
<1>2. i \in Int /\ n \in Nat
  BY <1>1, ResumeType
<1>3. Opened(page) = [run EXCEPT !.pc = "take", !.page = page, !.index = i,
                                 !.version = source, !.pages = n]
  BY DEF Opened
<1> HIDE DEF i, n
<1>4. [run EXCEPT !.pc = "take", !.page = page, !.index = i, !.version = source, !.pages = n]
        \in RunRecord
  BY <1>1, <1>2 DEF RunRecord, Pcs
<1>5. QED
  BY <1>3, <1>4

\* What the steps of the writer do to a run that goes on.
LEMMA PreparedType ==
  ASSUME TypeOK, Prepared
  PROVE  run' \in RunRecord
<1>1. run \in RunRecord /\ run.limit \in Nat /\ run.cp \in CheckpointRecord
  BY DEF TypeOK, RunRecord
<1>2. run.cp.records \in Nat /\ run.cp.at \in Int /\ run.cp.off \in Int
  BY <1>1 DEF CheckpointRecord
<1> DEFINE room == run.limit - run.cp.records
           at == run.cp.at
           off == run.cp.off
<1>3. room \in Int /\ at \in Int /\ off \in Int
  BY <1>1, <1>2
<1>4. run' = IdleRun \/ run' = [run EXCEPT !.pc = "fetch", !.at = at, !.off = off, !.room = room]
  BY DEF Prepared
<1> HIDE DEF room, at, off
<1>5. [run EXCEPT !.pc = "fetch", !.at = at, !.off = off, !.room = room] \in RunRecord
  BY <1>1, <1>3 DEF RunRecord, Pcs
<1>6. QED
  BY <1>4, <1>5, IdleType

LEMMA TakeType ==
  ASSUME TypeOK, Take
  PROVE  run' \in RunRecord
<1>1. run \in RunRecord /\ run.index \in Int /\ run.version \in Nat /\ run.emitted \in Nat
        /\ run.batch \in Seq(Int) /\ run.at \in Int /\ run.page \in PageRecord
  BY DEF TypeOK, RunRecord
<1> DEFINE k  == ItemAt(run.index, run.version)
           b  == Append(run.batch, k)
           pc == IF Len(run.batch) + 1 >= BatchSize THEN "write" ELSE "take"
           i  == run.index + 1
           e  == run.emitted + 1
           S  == Seq(Int)
<1>2. k \in Int
  <2>1. Latest(run.version) \in Nat
    BY <1>1, Constants DEF Latest
  <2>2. QED
    BY <1>1, <2>1 DEF ItemAt
<1>3. b \in S /\ pc \in Pcs /\ i \in Int /\ e \in Nat
  BY <1>1, <1>2 DEF Pcs
<1>4. Mark \in MarkRecord
  <2>1. Listed(c, run.page.from, run.index, run.version) \in Int
    BY <1>1, ListedType DEF PageRecord
  <2>2. QED
    BY <1>1, <2>1 DEF Mark, MarkRecord
<1>5. \/ run' = [run EXCEPT !.pc = "finish"]
      \/ run' = IdleRun
      \/ run' = [run EXCEPT !.index = i]
      \/ run' = [run EXCEPT !.batch = b, !.mark = Mark, !.emitted = e, !.index = i, !.pc = pc]
  BY DEF Take
<1>6. [run EXCEPT !.pc = "finish"] \in RunRecord
  BY GotoType DEF Pcs
<1> HIDE DEF k, b, pc, i, e, S
<1>7. [run EXCEPT !.index = i] \in RunRecord
  BY <1>1, <1>3 DEF RunRecord
<1>8. [run EXCEPT !.batch = b, !.mark = Mark, !.emitted = e, !.index = i, !.pc = pc] \in RunRecord
  BY <1>1, <1>3, <1>4 DEF RunRecord, S
<1>9. QED
  BY <1>5, <1>6, <1>7, <1>8, IdleType

LEMMA EndOfPageType ==
  ASSUME TypeOK, EndOfPage
  PROVE  run' \in RunRecord
<1>1. run \in RunRecord
  BY DEF TypeOK
<1> DEFINE next == run.page.next
           off  == 0
<1>2. \/ run' = [run EXCEPT !.pc = "finish"]
      \/ run' = [run EXCEPT !.pc = "finish", !.exhausted = TRUE]
      \/ run' = [run EXCEPT !.pc = "fetch", !.at = next, !.off = off]
  BY DEF EndOfPage
<1>3. next \in Int /\ off \in Int
  BY <1>1 DEF RunRecord, PageRecord
<1> HIDE DEF next, off
<1>4. [run EXCEPT !.pc = "finish", !.exhausted = TRUE] \in RunRecord
  BY <1>1 DEF RunRecord, Pcs
<1>5. [run EXCEPT !.pc = "fetch", !.at = next, !.off = off] \in RunRecord
  BY <1>1, <1>3 DEF RunRecord, Pcs
<1>6. QED
  BY <1>2, <1>4, <1>5, GotoType DEF Pcs

-----------------------------------------------------------------------------
(* The invariant: what the output holds at each point of an invocation.    *)

Walking == {"fetch", "take", "finish", "write", "close"}
Written == {"record", "save"}

\* An invocation counts as written what the checkpoint says, and has work left.
CheckpointOK ==
  run.pc # "idle" =>
    /\ IF saved.there
       THEN run.cp.records = saved.records /\ run.cp.complete = saved.complete
       ELSE run.cp.records = 0 /\ run.cp.complete = FALSE
    /\ run.pc \in Walking \cup Written => run.cp.complete = FALSE
    /\ run.cp.there = TRUE

\* The output has no gap, and the rows that the checkpoint counts.
OutputOK ==
  /\ IsFiniteSet(DOMAIN data)
  /\ job.format # "parquet" => \E n \in Nat : DOMAIN data = 1..n
  /\ saved.there => 1..saved.records \subseteq DOMAIN data
  /\ saved.there /\ job.format # "jsonl" /\ saved.records > 0 => saved.records \in manifest

\* While it walks the output is what the checkpoint counts, and then that and the batch.
RunOK ==
  /\ run.pc \in Walking \cup {"retain"} => DOMAIN data = 1..run.cp.records
  /\ run.pc \in Written => DOMAIN data = 1..run.cp.records + Len(run.batch)
  /\ run.pc \in {"retain", "record"} => job.format # "jsonl"
  /\ run.pc = "save" /\ job.format # "jsonl" => run.cp.records + Len(run.batch) \in manifest

IInv == TypeOK /\ CheckpointOK /\ OutputOK /\ RunOK

LEMMA Numbers ==
  ASSUME TypeOK
  PROVE  /\ saved.records \in Nat /\ run.cp.records \in Nat /\ run.batch \in Seq(Int)
         /\ Len(run.batch) \in Nat
<1>1. saved \in CheckpointRecord /\ run \in RunRecord
  BY DEF TypeOK
<1>2. run.cp \in CheckpointRecord /\ run.batch \in Seq(Int)
  BY <1>1 DEF RunRecord
<1>3. QED
  BY <1>1, <1>2 DEF CheckpointRecord

\* An invocation that is over leaves nothing to say about it.
LEMMA RunOver ==
  ASSUME run' = IdleRun
  PROVE  CheckpointOK' /\ RunOK'
<1>1. run'.pc = "idle"
  BY IdleType
<1>2. QED
  BY <1>1 DEF CheckpointOK, RunOK, Walking, Written

\* Steps of the walk.
LEMMA WalkStep ==
  ASSUME IInv, run.pc \in Walking, UNCHANGED <<job, saved, data, manifest>>,
         \/ run' = IdleRun
         \/ /\ run'.pc \in Walking
            /\ run'.cp.records = run.cp.records /\ run'.cp.complete = run.cp.complete
            /\ run'.cp.there = run.cp.there
  PROVE  CheckpointOK' /\ OutputOK' /\ RunOK'
<1>1. OutputOK'
  BY DEF IInv, OutputOK
<1>2. CASE run' = IdleRun
  BY <1>1, <1>2, RunOver
<1>3. CASE /\ run'.pc \in Walking
           /\ run'.cp.records = run.cp.records /\ run'.cp.complete = run.cp.complete
           /\ run'.cp.there = run.cp.there
  <2>1. CheckpointOK'
    BY <1>3 DEF IInv, CheckpointOK, Walking
  <2>2. RunOK'
    BY <1>3 DEF IInv, RunOK, Walking, Written
  <2>3. QED
    BY <1>1, <2>1, <2>2
<1>4. QED
  BY <1>2, <1>3

LEMMA InitInv == Init => IInv
<1> SUFFICES ASSUME Init PROVE IInv
  OBVIOUS
<1>1. data = <<>> /\ DOMAIN data = {} /\ run = IdleRun /\ saved = Absent
  BY DEF Init
<1>2. data \in [DOMAIN data -> Int]
  BY <1>1
<1>3. TypeOK
  BY <1>1, <1>2, IdleType, AbsentType DEF Init, TypeOK
<1>4. IsFiniteSet(DOMAIN data)
  BY <1>1, FS_EmptySet
<1>5. \E n \in Nat : DOMAIN data = 1..n
  <2>1. DOMAIN data = 1..0
    BY <1>1
  <2>2. QED
    BY <2>1
<1>6. OutputOK
  BY <1>1, <1>4, <1>5, AbsentType DEF OutputOK
<1>7. CheckpointOK /\ RunOK
  BY <1>1, IdleType DEF CheckpointOK, RunOK, Walking, Written
<1>8. QED
  BY <1>3, <1>6, <1>7 DEF IInv

-----------------------------------------------------------------------------
(* One lemma for each action: the invariant, and that committed rows stay. *)

RowsStay ==
  saved.there /\ saved'.there =>
    /\ saved.records <= saved'.records /\ (saved.complete => saved' = saved)
    /\ \A i \in 1..saved.records : i \in DOMAIN data' /\ data'[i] = data[i]

\* A step that leaves output and checkpoint alone.
LEMMA NothingWritten ==
  ASSUME IInv, UNCHANGED <<saved, data>>
  PROVE  RowsStay
BY Numbers DEF IInv, OutputOK, RowsStay

LEMMA StartKeeps ==
  ASSUME IInv, NEW limit \in Limits, NEW fresh \in BOOLEAN, Start(limit, fresh)
  PROVE  IInv' /\ RowsStay
<1> DEFINE cp == IF saved'.there THEN saved ELSE NewCheckpoint(source)
<1>1. saved' \in CheckpointRecord /\ (saved' = saved \/ saved' = Absent)
  BY AbsentType DEF IInv, TypeOK, Start
<1>2. cp \in CheckpointRecord
  BY NewType DEF IInv, TypeOK
<1>3. /\ ~saved'.there => cp.records = 0 /\ cp.complete = FALSE /\ cp.there = TRUE
      /\ saved'.there => saved' = saved /\ cp = saved /\ cp.there = TRUE
  BY <1>1, NewType, AbsentType DEF IInv, TypeOK, CheckpointRecord
<1>4. limit \in Nat
  BY Constants
<1>5. run' = [IdleRun EXCEPT !.pc = "prepare", !.limit = limit, !.cp = cp]
  BY DEF Start
<1> HIDE DEF cp
<1>6. run' \in RunRecord
  BY <1>2, <1>4, <1>5, IdleType DEF RunRecord, Pcs
<1>7. run'.pc = "prepare" /\ run'.cp = cp
  BY <1>5, IdleType DEF RunRecord
<1>8. TypeOK'
  BY <1>1, <1>6 DEF IInv, TypeOK, Start
<1>9. CheckpointOK'
  BY <1>3, <1>7 DEF CheckpointOK, Walking, Written
<1>10. OutputOK'
  BY <1>3 DEF IInv, OutputOK, Start
<1>11. RunOK'
  BY <1>7 DEF RunOK, Walking, Written
<1>12. RowsStay
  <2>1. UNCHANGED data
    BY DEF Start
  <2>2. CASE saved'.there
    BY <1>3, <2>1, <2>2, NothingWritten
  <2>3. CASE ~saved'.there
    BY <2>3 DEF RowsStay
  <2>4. QED
    BY <2>2, <2>3
<1>13. QED
  BY <1>8, <1>9, <1>10, <1>11, <1>12 DEF IInv

\* Steps of the walk change the run alone.
LEMMA WalkKeeps ==
  ASSUME IInv, RunOnly, run.pc \in Walking, run' \in RunRecord,
         faults' \in Nat,
         \/ run' = IdleRun
         \/ /\ run'.pc \in Walking
            /\ run'.cp.records = run.cp.records /\ run'.cp.complete = run.cp.complete
            /\ run'.cp.there = run.cp.there
  PROVE  IInv' /\ RowsStay
<1>1. UNCHANGED <<job, source, saved, data, manifest, restarts>>
  BY DEF RunOnly
<1>2. TypeOK'
  BY <1>1 DEF IInv, TypeOK
<1>3. CheckpointOK' /\ OutputOK' /\ RunOK'
  BY <1>1, WalkStep
<1>4. RowsStay
  BY <1>1, NothingWritten
<1>5. QED
  BY <1>2, <1>3, <1>4 DEF IInv

LEMMA FetchKeeps == ASSUME IInv, Fetch PROVE IInv' /\ RowsStay
<1> DEFINE page == Read(c, run.at, source)
<1>1. run \in RunRecord /\ run.pc = "fetch" /\ RunOnly /\ faults' \in Nat
  BY DEF Fetch, IInv, TypeOK
<1>2. page \in PageRecord
  <2>1. run.at \in Int /\ source \in Nat
    BY DEF IInv, TypeOK, RunRecord
  <2>2. QED
    BY <2>1, ReadType
<1>3. run' = [run EXCEPT !.pc = "finish"] \/ run' = IdleRun \/ run' = Opened(page)
  BY DEF Fetch, Goto, Raise
<1> HIDE DEF page
<1>4. CASE run' = [run EXCEPT !.pc = "finish"]
  <2>1. run' \in RunRecord
    BY <1>4, GotoType DEF IInv, Pcs
  <2>2. run'.pc = "finish" /\ run'.cp = run.cp
    BY <1>1, <1>4 DEF RunRecord
  <2>3. QED
    BY <1>1, <2>1, <2>2, WalkKeeps DEF Walking
<1>5. CASE run' = IdleRun
  BY <1>1, <1>5, IdleType, WalkKeeps DEF Walking
<1>6. CASE run' = Opened(page)
  <2>1. run' \in RunRecord
    BY <1>2, <1>6, OpenedType DEF IInv
  <2>2. run'.pc = "take" /\ run'.cp = run.cp
    BY <1>1, <1>6 DEF Opened, RunRecord
  <2>3. QED
    BY <1>1, <2>1, <2>2, WalkKeeps DEF Walking
<1>7. QED
  BY <1>3, <1>4, <1>5, <1>6

LEMMA FetchCutKeeps == ASSUME IInv, FetchCut PROVE IInv' /\ RowsStay
<1>1. run \in RunRecord /\ run.pc = "fetch" /\ RunOnly /\ faults' \in Nat
  BY DEF FetchCut, Fault, IInv, TypeOK
<1>2. PICK to \in 0..Latest(source) - 1 : run' = [Opened(Page(1, to, 0, TRUE)) EXCEPT !.cp.cut = TRUE]
  BY DEF FetchCut
<1> DEFINE open == Opened(Page(1, to, 0, TRUE))
<1>3. open \in RunRecord /\ open.pc = "take" /\ open.cp = run.cp
  <2>1. Page(1, to, 0, TRUE) \in PageRecord
    BY DEF Page, PageRecord
  <2>2. open \in RunRecord
    BY <2>1, OpenedType DEF IInv
  <2>3. open.pc = "take" /\ open.cp = run.cp
    BY <1>1 DEF Opened, RunRecord
  <2>4. QED
    BY <2>2, <2>3
<1> HIDE DEF open
<1>4. run' = [open EXCEPT !.cp = [open.cp EXCEPT !.cut = TRUE]]
  BY <1>2, <1>3 DEF open, RunRecord
<1> DEFINE cp == [open.cp EXCEPT !.cut = TRUE]
<1>5. /\ cp \in CheckpointRecord /\ cp.records = run.cp.records
      /\ cp.complete = run.cp.complete /\ cp.there = run.cp.there
  <2>1. open.cp \in CheckpointRecord
    BY <1>3 DEF RunRecord
  <2>2. QED
    BY <1>3, <2>1 DEF CheckpointRecord
<1> HIDE DEF cp
<1>6. run' = [open EXCEPT !.cp = cp]
  BY <1>4 DEF cp
<1>7. run' \in RunRecord /\ run'.pc = "take" /\ run'.cp = cp
  BY <1>3, <1>5, <1>6 DEF RunRecord
<1>8. QED
  BY <1>1, <1>5, <1>7, WalkKeeps DEF Walking

LEMMA WalkEndsKeeps ==
  ASSUME IInv, RequestFails \/ EndOfPage \/ Take \/ Finish
  PROVE  IInv' /\ RowsStay
<1>1. run \in RunRecord
  BY DEF IInv, TypeOK
<1>2. CASE RequestFails
  <2>1. run.pc \in Walking /\ run' = IdleRun /\ RunOnly /\ faults' \in Nat
    BY <1>2 DEF RequestFails, Raise, Fault, IInv, TypeOK, Walking
  <2>2. QED
    BY <2>1, IdleType, WalkKeeps
<1>3. CASE EndOfPage
  <2>1. run.pc \in Walking /\ RunOnly /\ faults' \in Nat
    BY <1>3 DEF EndOfPage, IInv, TypeOK, Walking
  <2>2. run' \in RunRecord
    BY <1>3, EndOfPageType DEF IInv
  <2>3. run'.pc \in Walking /\ run'.cp = run.cp
    BY <1>1, <1>3 DEF EndOfPage, Walking, RunRecord
  <2>4. QED
    BY <2>1, <2>2, <2>3, WalkKeeps
<1>4. CASE Take
  <2>1. run.pc \in Walking /\ RunOnly /\ faults' \in Nat
    BY <1>4 DEF Take, IInv, TypeOK, Walking
  <2>2. run' \in RunRecord
    BY <1>4, TakeType DEF IInv
  <2>3. run' = IdleRun \/ (run'.pc \in Walking /\ run'.cp = run.cp)
    BY <1>1, <1>4 DEF Take, Walking, RunRecord
  <2>4. QED
    BY <2>1, <2>2, <2>3, WalkKeeps
<1>5. CASE Finish
  <2>1. run.pc \in Walking /\ RunOnly /\ faults' \in Nat
    BY <1>5 DEF Finish, IInv, TypeOK, Walking
  <2> DEFINE pc == IF run.batch = <<>> THEN "close" ELSE "write"
  <2>2. pc \in Pcs /\ pc \in Walking
    BY DEF Pcs, Walking
  <2>3. run' = [run EXCEPT !.closing = TRUE, !.pc = pc]
    BY <1>5 DEF Finish
  <2> HIDE DEF pc
  <2>4. run' \in RunRecord /\ run'.pc = pc /\ run'.cp = run.cp
    BY <1>1, <2>2, <2>3 DEF RunRecord
  <2>5. QED
    BY <2>1, <2>2, <2>4, WalkKeeps
<1>6. QED
  BY <1>2, <1>3, <1>4, <1>5

\* What an invocation counts as written is in the output.
LEMMA CountedIsThere ==
  ASSUME IInv, run.pc # "idle"
  PROVE  1..run.cp.records \subseteq DOMAIN data
BY DEF IInv, CheckpointOK, OutputOK

\* Steps of the writer leave the checkpoint alone; committed rows are those it counts.
LEMMA OutputStep ==
  ASSUME IInv, run.pc # "idle", UNCHANGED saved,
         \A i \in 1..run.cp.records : i \in DOMAIN data' /\ data'[i] = data[i]
  PROVE  RowsStay /\ (saved.there => 1..saved.records \subseteq DOMAIN data')
BY Numbers DEF IInv, CheckpointOK, RowsStay

LEMMA RowsOf ==
  ASSUME IInv, run.pc # "idle"
  PROVE  /\ DOMAIN Rows(run.cp.records) = 1..run.cp.records
         /\ Rows(run.cp.records) \in [1..run.cp.records -> Int]
         /\ \A i \in 1..run.cp.records : Rows(run.cp.records)[i] = data[i]
BY CountedIsThere DEF Rows, IInv, TypeOK

LEMMA PreparedRun ==
  ASSUME TypeOK, Prepared
  PROVE  \/ run' = IdleRun
         \/ run'.pc = "fetch" /\ run'.cp = run.cp /\ ~run.cp.complete
<1>1. run \in RunRecord
  BY DEF TypeOK
<1>2. QED
  BY <1>1 DEF Prepared, RunRecord

\* After a preparation that leaves what the checkpoint counts the walk may begin.
LEMMA PreparedKeeps ==
  ASSUME IInv, Prepared, run.pc \in {"prepare", "retain"}, UNCHANGED saved,
         DOMAIN data' = 1..run.cp.records
  PROVE  CheckpointOK' /\ RunOK'
<1>1. CASE run' = IdleRun
  BY <1>1, RunOver
<1>2. CASE run'.pc = "fetch" /\ run'.cp = run.cp /\ ~run.cp.complete
  <2>1. run.cp.complete = FALSE
    BY <1>2 DEF IInv, TypeOK, RunRecord, CheckpointRecord
  <2>2. CheckpointOK'
    BY <1>2, <2>1 DEF IInv, CheckpointOK, Walking, Written
  <2>3. RunOK'
    BY <1>2 DEF RunOK, Walking, Written
  <2>4. QED
    BY <2>2, <2>3
<1>3. QED
  BY <1>1, <1>2, PreparedRun DEF IInv

LEMMA PrepareJsonlKeeps == ASSUME IInv, PrepareJsonl PROVE IInv' /\ RowsStay
<1>1. /\ run.pc = "prepare" /\ job.format = "jsonl"
      /\ UNCHANGED <<job, source, saved, restarts, faults, manifest>>
  BY DEF PrepareJsonl, OutputOnly
<1>2. CASE Raise /\ UNCHANGED data
  <2>1. run' = IdleRun
    BY <1>2 DEF Raise
  <2>2. TypeOK'
    BY <1>1, <1>2, <2>1, IdleType DEF IInv, TypeOK
  <2>3. OutputOK'
    BY <1>1, <1>2 DEF IInv, OutputOK
  <2>4. RowsStay
    BY <1>1, <1>2, NothingWritten
  <2>5. QED
    BY <2>1, <2>2, <2>3, <2>4, RunOver DEF IInv
<1>3. CASE data' = Rows(run.cp.records) /\ Prepared
  <2>1. /\ DOMAIN data' = 1..run.cp.records /\ data' \in [DOMAIN data' -> Int]
        /\ \A i \in 1..run.cp.records : data'[i] = data[i]
    BY <1>1, <1>3, RowsOf
  <2>2. run.cp.records \in Nat
    BY Numbers DEF IInv
  <2>3. TypeOK'
    <3>1. DOMAIN data' \subseteq Nat \ {0}
      BY <2>1, <2>2
    <3>2. run' \in RunRecord
      BY <1>3, PreparedType DEF IInv
    <3>3. QED
      BY <1>1, <2>1, <3>1, <3>2 DEF IInv, TypeOK
  <2>4. RowsStay /\ (saved.there => 1..saved.records \subseteq DOMAIN data')
    BY <1>1, <2>1, OutputStep
  <2>5. OutputOK'
    <3>1. IsFiniteSet(1..run.cp.records)
      BY <2>2, Interval
    <3>2. QED
      BY <1>1, <2>1, <2>2, <2>4, <3>1 DEF OutputOK
  <2>6. CheckpointOK' /\ RunOK'
    BY <1>1, <1>3, <2>1, PreparedKeeps
  <2>7. QED
    BY <2>3, <2>4, <2>5, <2>6 DEF IInv
<1>4. QED
  BY <1>2, <1>3 DEF PrepareJsonl

\* A part is retained: the data ends where the checkpoint says.
LEMMA RetainKeeps ==
  ASSUME IInv, run.pc = "prepare", job.format # "jsonl", Goto("retain"),
         UNCHANGED <<job, source, saved, restarts, faults, manifest>>,
         DOMAIN data' = 1..run.cp.records, data' \in [DOMAIN data' -> Int],
         \A i \in 1..run.cp.records : data'[i] = data[i]
  PROVE  IInv' /\ RowsStay
<1>1. run \in RunRecord /\ run.cp.records \in Nat
  BY Numbers DEF IInv, TypeOK
<1>2. run' \in RunRecord /\ run'.pc = "retain" /\ run'.cp = run.cp
  <2>1. run' \in RunRecord
    BY GotoType DEF Goto, IInv, Pcs
  <2>2. QED
    BY <1>1, <2>1 DEF Goto, RunRecord
<1>3. TypeOK'
  <2>1. DOMAIN data' \subseteq Nat \ {0}
    BY <1>1
  <2>2. QED
    BY <1>2, <2>1 DEF IInv, TypeOK
<1>4. RowsStay /\ (saved.there => 1..saved.records \subseteq DOMAIN data')
  BY OutputStep
<1>5. OutputOK'
  <2>1. IsFiniteSet(1..run.cp.records)
    BY <1>1, Interval
  <2>2. \E n \in Nat : DOMAIN data' = 1..n
    BY <1>1
  <2>3. QED
    BY <1>4, <2>1, <2>2 DEF IInv, OutputOK
<1>6. CheckpointOK'
  BY <1>2 DEF IInv, CheckpointOK, Walking, Written
<1>7. RunOK'
  BY <1>2 DEF RunOK, Walking, Written
<1>8. QED
  BY <1>3, <1>4, <1>5, <1>6, <1>7 DEF IInv

\* A preparation that raises changes nothing.
LEMMA RaiseKeeps ==
  ASSUME IInv, Raise, UNCHANGED <<job, source, saved, restarts, faults, manifest, data>>
  PROVE  IInv' /\ RowsStay
<1>1. run' = IdleRun
  BY DEF Raise
<1>2. TypeOK'
  BY <1>1, IdleType DEF IInv, TypeOK
<1>3. OutputOK'
  BY DEF IInv, OutputOK
<1>4. QED
  BY <1>1, <1>2, <1>3, RunOver, NothingWritten DEF IInv

LEMMA PrepareGzipKeeps == ASSUME IInv, PrepareGzip PROVE IInv' /\ RowsStay
<1>1. /\ run.pc = "prepare" /\ job.format = "gzip"
      /\ UNCHANGED <<job, source, saved, restarts, faults, manifest>>
  BY DEF PrepareGzip, OutputOnly
<1>2. CASE Raise /\ UNCHANGED data
  BY <1>1, <1>2, RaiseKeeps
<1>3. CASE data' = Rows(run.cp.records) /\ Goto("retain")
  BY <1>1, <1>3, RowsOf, RetainKeeps
<1>4. QED
  BY <1>2, <1>3 DEF PrepareGzip

LEMMA PrepareParquetKeeps == ASSUME IInv, PrepareParquet PROVE IInv' /\ RowsStay
<1>1. /\ run.pc = "prepare" /\ job.format = "parquet"
      /\ UNCHANGED <<job, source, saved, restarts, faults, manifest>>
  BY DEF PrepareParquet, OutputOnly
<1>2. CASE Raise /\ UNCHANGED data
  BY <1>1, <1>2, RaiseKeeps
<1>3. CASE DOMAIN data \subseteq 1..run.cp.records /\ Goto("retain") /\ UNCHANGED data
  <2>1. DOMAIN data = 1..run.cp.records
    BY <1>1, <1>3, CountedIsThere
  <2>2. data' \in [DOMAIN data' -> Int]
    BY <1>3 DEF IInv, TypeOK
  <2>3. QED
    BY <1>1, <1>3, <2>1, <2>2, RetainKeeps
<1>4. CASE \E left \in SUBSET DOMAIN data :
             /\ left # DOMAIN data
             /\ DOMAIN data \cap 1..run.cp.records \subseteq left
             /\ data' = [i \in left |-> data[i]]
             /\ UNCHANGED run
  <2>1. PICK left \in SUBSET DOMAIN data :
             /\ DOMAIN data \cap 1..run.cp.records \subseteq left
             /\ data' = [i \in left |-> data[i]]
             /\ UNCHANGED run
    BY <1>4
  <2>2. DOMAIN data' = left /\ \A i \in left : data'[i] = data[i]
    BY <2>1
  <2>3. 1..run.cp.records \subseteq left
    BY <1>1, <2>1, CountedIsThere
  <2>4. TypeOK'
    <3>1. data' \in [DOMAIN data' -> Int] /\ DOMAIN data' \subseteq Nat \ {0}
      BY <2>1, <2>2 DEF IInv, TypeOK
    <3>2. QED
      BY <1>1, <2>1, <3>1 DEF IInv, TypeOK
  <2>5. RowsStay /\ (saved.there => 1..saved.records \subseteq DOMAIN data')
    BY <1>1, <2>2, <2>3, OutputStep
  <2>6. OutputOK'
    <3>1. IsFiniteSet(left)
      BY FS_Subset DEF IInv, OutputOK
    <3>2. QED
      BY <1>1, <2>2, <2>5, <3>1 DEF IInv, OutputOK
  <2>7. CheckpointOK'
    BY <1>1, <2>1 DEF IInv, CheckpointOK
  <2>8. RunOK'
    BY <1>1, <2>1 DEF RunOK, Walking, Written
  <2>9. QED
    BY <2>4, <2>5, <2>6, <2>7, <2>8 DEF IInv
<1>5. QED
  BY <1>2, <1>3, <1>4 DEF PrepareParquet

LEMMA SaveRetainedKeeps == ASSUME IInv, SaveRetained PROVE IInv' /\ RowsStay
<1>1. /\ run.pc = "retain" /\ Prepared
      /\ manifest' = {e \in manifest : e <= run.cp.records}
      /\ UNCHANGED <<job, source, saved, restarts, faults, data>>
  BY DEF SaveRetained, OutputOnly
<1>2. DOMAIN data' = 1..run.cp.records
  BY <1>1 DEF IInv, RunOK
<1>3. TypeOK'
  <2>1. run' \in RunRecord
    BY <1>1, PreparedType DEF IInv
  <2>2. manifest' \subseteq Nat
    BY <1>1 DEF IInv, TypeOK
  <2>3. QED
    BY <1>1, <2>1, <2>2 DEF IInv, TypeOK
<1>4. OutputOK'
  <2>1. saved.there => saved.records = run.cp.records
    BY <1>1 DEF IInv, CheckpointOK
  <2>2. saved.there /\ job.format # "jsonl" /\ saved.records > 0 => saved.records \in manifest'
    BY <1>1, <2>1, Numbers DEF IInv, OutputOK
  <2>3. QED
    BY <1>1, <2>2 DEF IInv, OutputOK
<1>5. CheckpointOK' /\ RunOK'
  BY <1>1, <1>2, PreparedKeeps
<1>6. QED
  BY <1>1, <1>3, <1>4, <1>5, NothingWritten DEF IInv

\* Rows that are appended come after those that the checkpoint counts.
LEMMA WithRows ==
  ASSUME IInv, run.pc = "write", NEW rows \in Seq(Int)
  PROVE  /\ DOMAIN With(rows) = 1..run.cp.records + Len(rows)
         /\ With(rows) \in [DOMAIN With(rows) -> Int]
         /\ \A i \in 1..run.cp.records : i \in DOMAIN With(rows) /\ With(rows)[i] = data[i]
<1> DEFINE n == run.cp.records
<1>1. n \in Nat /\ DOMAIN data = 1..n /\ data \in [1..n -> Int]
  BY Numbers DEF IInv, RunOK, Walking, TypeOK
<1>2. FirstRow = n + 1
  <2>1. Cardinality(1..n) = n
    BY <1>1, FS_Interval
  <2>2. QED
    BY <1>1, <2>1 DEF FirstRow
<1>3. Len(rows) \in Nat /\ rows \in [1..Len(rows) -> Int]
  OBVIOUS
<1>4. With(rows) = [i \in 1..n \cup (n + 1..n + 1 + Len(rows) - 1) |->
                      IF i < n + 1 THEN data[i] ELSE rows[i - (n + 1) + 1]]
  BY <1>1, <1>2 DEF With
<1> HIDE DEF n
<1>5. 1..n \cup (n + 1..n + 1 + Len(rows) - 1) = 1..n + Len(rows)
  BY <1>1, <1>3
<1>6. DOMAIN With(rows) = 1..n + Len(rows)
  BY <1>4, <1>5
<1>7. \A i \in 1..n + Len(rows) :
         With(rows)[i] = IF i < n + 1 THEN data[i] ELSE rows[i - (n + 1) + 1]
  BY <1>4, <1>5
<1>8. \A i \in 1..n + Len(rows) : With(rows)[i] \in Int
  <2> SUFFICES ASSUME NEW i \in 1..n + Len(rows) PROVE With(rows)[i] \in Int
    OBVIOUS
  <2>1. CASE i < n + 1
    BY <1>1, <1>7, <2>1
  <2>2. CASE ~(i < n + 1)
    <3>1. i - (n + 1) + 1 \in 1..Len(rows)
      BY <1>1, <1>3, <2>2
    <3>2. QED
      BY <1>3, <1>7, <2>2, <3>1
  <2>3. QED
    BY <2>1, <2>2
<1>9. With(rows) \in [DOMAIN With(rows) -> Int]
  BY <1>4, <1>5, <1>6, <1>8
<1>10. \A i \in 1..n : i \in DOMAIN With(rows) /\ With(rows)[i] = data[i]
  BY <1>1, <1>3, <1>6, <1>7
<1>11. QED
  BY <1>6, <1>9, <1>10 DEF n

\* What a step that appends rows does to the output.
LEMMA AppendKeeps ==
  ASSUME IInv, run.pc = "write", NEW rows \in Seq(Int), data' = With(rows),
         UNCHANGED <<job, saved, manifest>>
  PROVE  /\ OutputOK' /\ RowsStay
         /\ DOMAIN data' \subseteq Nat \ {0} /\ data' \in [DOMAIN data' -> Int]
         /\ DOMAIN data' = 1..run.cp.records + Len(rows)
<1>1. run.cp.records \in Nat /\ Len(rows) \in Nat
  BY Numbers DEF IInv
<1>2. /\ DOMAIN data' = 1..run.cp.records + Len(rows)
      /\ data' \in [DOMAIN data' -> Int]
      /\ \A i \in 1..run.cp.records : i \in DOMAIN data' /\ data'[i] = data[i]
  BY WithRows
<1>3. RowsStay /\ (saved.there => 1..saved.records \subseteq DOMAIN data')
  BY <1>2, OutputStep
<1> DEFINE m == run.cp.records + Len(rows)
<1>4. m \in Nat /\ DOMAIN data' = 1..m
  BY <1>1, <1>2
<1> HIDE DEF m
<1>5. IsFiniteSet(1..m) /\ 1..m \subseteq Nat \ {0}
  BY <1>4, FS_Interval
<1>6. OutputOK'
  BY <1>3, <1>4, <1>5 DEF IInv, OutputOK
<1>7. QED
  BY <1>2, <1>3, <1>4, <1>5, <1>6

LEMMA WriteBatchKeeps == ASSUME IInv, WriteBatch PROVE IInv' /\ RowsStay
<1>1. /\ run.pc = "write" /\ data' = With(run.batch)
      /\ UNCHANGED <<job, source, saved, restarts, faults, manifest>>
  BY DEF WriteBatch, OutputOnly
<1>2. run \in RunRecord /\ run.batch \in Seq(Int)
  BY Numbers DEF IInv, TypeOK
<1>3. /\ OutputOK' /\ RowsStay
      /\ DOMAIN data' \subseteq Nat \ {0} /\ data' \in [DOMAIN data' -> Int]
      /\ DOMAIN data' = 1..run.cp.records + Len(run.batch)
  BY <1>1, <1>2, AppendKeeps
<1> DEFINE pc == IF job.format = "jsonl" THEN "save" ELSE "record"
<1>4. pc \in Pcs /\ pc \in Written
  BY DEF Pcs, Written
<1>5. run' = [run EXCEPT !.pc = pc]
  BY DEF WriteBatch, Goto
<1>6. run' \in RunRecord /\ run'.pc = pc /\ run'.cp = run.cp /\ run'.batch = run.batch
  <2> HIDE DEF pc
  <2>1. QED
    BY <1>2, <1>4, <1>5 DEF RunRecord
<1>7. TypeOK'
  BY <1>1, <1>3, <1>6 DEF IInv, TypeOK
<1>8. CheckpointOK'
  BY <1>1, <1>4, <1>6 DEF IInv, CheckpointOK, Walking, Written
<1>9. RunOK'
  <2>1. /\ run'.pc \notin Walking \cup {"retain"}
        /\ run'.pc = "record" => job.format # "jsonl"
        /\ run'.pc = "save" => job.format = "jsonl"
    BY <1>6 DEF Walking
  <2>2. QED
    BY <1>1, <1>3, <1>6, <2>1 DEF RunOK
<1>10. QED
  BY <1>3, <1>7, <1>8, <1>9 DEF IInv

LEMMA RecordPartKeeps == ASSUME IInv, RecordPart PROVE IInv' /\ RowsStay
<1>1. /\ run.pc = "record" /\ manifest' = manifest \cup {run.cp.records + Len(run.batch)}
      /\ UNCHANGED <<job, source, saved, restarts, faults, data>>
      /\ run' = [run EXCEPT !.pc = "save"]
  BY DEF RecordPart, OutputOnly, Goto
<1>2. run' \in RunRecord /\ run'.pc = "save" /\ run'.cp = run.cp /\ run'.batch = run.batch
  BY <1>1 DEF IInv, TypeOK, RunRecord, Pcs
<1>3. TypeOK'
  <2>1. manifest' \subseteq Nat
    <3>1. run.cp.records + Len(run.batch) \in Nat
      BY Numbers DEF IInv
    <3>2. QED
      BY <1>1, <3>1 DEF IInv, TypeOK
  <2>2. QED
    BY <1>1, <1>2, <2>1 DEF IInv, TypeOK
<1>4. OutputOK'
  BY <1>1 DEF IInv, OutputOK
<1>5. CheckpointOK'
  BY <1>1, <1>2 DEF IInv, CheckpointOK, Walking, Written
<1>6. RunOK'
  BY <1>1, <1>2 DEF IInv, RunOK, Walking, Written
<1>7. QED
  BY <1>1, <1>3, <1>4, <1>5, <1>6, NothingWritten DEF IInv

LEMMA SaveCheckpointKeeps == ASSUME IInv, SaveCheckpoint PROVE IInv' /\ RowsStay
<1> DEFINE n == run.cp.records + Len(run.batch)
           pc == IF run.closing THEN "close" ELSE "take"
<1>1. /\ run.pc = "save" /\ UNCHANGED <<job, source, data, manifest, restarts, faults>>
      /\ saved' = [run.cp EXCEPT !.records = n, !.at = run.mark.at, !.off = run.mark.off,
                                 !.version = run.mark.version]
      /\ run' = [run EXCEPT !.cp = saved', !.batch = <<>>, !.pc = pc]
  BY DEF SaveCheckpoint
<1>2. /\ run \in RunRecord /\ run.cp \in CheckpointRecord /\ run.mark \in MarkRecord
      /\ run.cp.records \in Nat /\ Len(run.batch) \in Nat
  BY Numbers DEF IInv, TypeOK, RunRecord
<1>3. n \in Nat /\ n >= run.cp.records /\ pc \in Pcs /\ pc \in Walking
  BY <1>2 DEF Pcs, Walking
<1>4. DOMAIN data = 1..n /\ (job.format # "jsonl" => n \in manifest)
  BY <1>1 DEF IInv, RunOK, Written
<1> HIDE DEF n, pc
<1>5. saved' \in CheckpointRecord /\ saved'.records = n /\ saved'.complete = run.cp.complete
  BY <1>1, <1>2, <1>3 DEF CheckpointRecord, MarkRecord
<1>6. run' \in RunRecord /\ run'.pc = pc /\ run'.cp = saved'
  <2> DEFINE b == <<>>
             cp == saved'
             S == Seq(Int)
  <2>1. b \in S /\ cp \in CheckpointRecord /\ run' = [run EXCEPT !.cp = cp, !.batch = b, !.pc = pc]
    BY <1>1, <1>5
  <2> HIDE DEF b, cp, S
  <2>2. run' \in RunRecord /\ run'.pc = pc /\ run'.cp = cp
    BY <1>2, <1>3, <2>1 DEF RunRecord, S
  <2>3. QED
    BY <2>2 DEF cp
<1>7. TypeOK'
  BY <1>1, <1>5, <1>6 DEF IInv, TypeOK
<1>8. run.cp.complete = FALSE /\ run.cp.there = TRUE
  BY <1>1 DEF IInv, CheckpointOK, Written
<1>9. CheckpointOK'
  <2>1. saved'.there = TRUE /\ saved'.complete = FALSE
    BY <1>1, <1>2, <1>5, <1>8 DEF CheckpointRecord
  <2>2. QED
    BY <1>6, <2>1 DEF CheckpointOK
<1>10. OutputOK'
  BY <1>1, <1>4, <1>5 DEF IInv, OutputOK
<1>11. RunOK'
  BY <1>1, <1>3, <1>4, <1>5, <1>6 DEF RunOK, Walking, Written
<1>12. RowsStay
  <2>1. saved.there => saved.records = run.cp.records /\ saved.complete = FALSE
    BY <1>1, <1>8 DEF IInv, CheckpointOK
  <2>2. \A i \in 1..run.cp.records : i \in DOMAIN data' /\ data'[i] = data[i]
    BY <1>1, CountedIsThere
  <2>3. QED
    BY <1>2, <1>3, <1>5, <2>1, <2>2 DEF RowsStay
<1>13. QED
  BY <1>7, <1>9, <1>10, <1>11, <1>12 DEF IInv

LEMMA CloseKeeps == ASSUME IInv, Close PROVE IInv' /\ RowsStay
<1>1. /\ run.pc = "close" /\ UNCHANGED <<job, source, data, manifest, restarts, faults>>
      /\ saved' = [run.cp EXCEPT !.complete = run.exhausted] /\ run' = IdleRun
  BY DEF Close
<1>2. run.cp \in CheckpointRecord /\ run.exhausted \in BOOLEAN /\ run.cp.records \in Nat
  BY Numbers DEF IInv, TypeOK, RunRecord
<1>3. saved' \in CheckpointRecord /\ saved'.records = run.cp.records
  BY <1>1, <1>2 DEF CheckpointRecord
<1>4. DOMAIN data = 1..run.cp.records
  BY <1>1 DEF IInv, RunOK, Walking
<1>5. TypeOK'
  BY <1>1, <1>3, IdleType DEF IInv, TypeOK
<1>6. saved.there => saved.records = run.cp.records /\ saved.complete = FALSE
  BY <1>1 DEF IInv, CheckpointOK, Walking
<1>7. OutputOK'
  <2>1. job.format # "jsonl" /\ saved'.records > 0 => saved'.records \in manifest
    <3>1. CASE saved.there
      BY <1>3, <1>6, <3>1 DEF IInv, OutputOK
    <3>2. CASE ~saved.there
      BY <1>1, <1>3, <3>2 DEF IInv, CheckpointOK
    <3>3. QED
      BY <3>1, <3>2
  <2>2. QED
    BY <1>1, <1>3, <1>4, <2>1 DEF IInv, OutputOK
<1>8. RowsStay
  BY <1>1, <1>2, <1>3, <1>4, <1>6 DEF RowsStay
<1>9. QED
  BY <1>1, <1>5, <1>7, <1>8, RunOver DEF IInv

LEMMA DiesKeeps == ASSUME IInv, Dies PROVE IInv' /\ RowsStay
<1>1. run' = IdleRun /\ faults' \in Nat /\ UNCHANGED <<job, source, saved, manifest, restarts>>
  BY DEF Dies, Fault, IInv, TypeOK
<1>2. CASE UNCHANGED data
  <2>1. TypeOK'
    BY <1>1, <1>2, IdleType DEF IInv, TypeOK
  <2>2. OutputOK'
    BY <1>1, <1>2 DEF IInv, OutputOK
  <2>3. QED
    BY <1>1, <1>2, <2>1, <2>2, RunOver, NothingWritten DEF IInv
<1>3. CASE run.pc = "write" /\ \E rows \in Seq(Int) : data' = With(rows)
  <2>1. /\ OutputOK' /\ RowsStay
        /\ DOMAIN data' \subseteq Nat \ {0} /\ data' \in [DOMAIN data' -> Int]
    BY <1>1, <1>3, AppendKeeps
  <2>2. TypeOK'
    BY <1>1, <2>1, IdleType DEF IInv, TypeOK
  <2>3. QED
    BY <1>1, <2>1, <2>2, RunOver DEF IInv
<1>4. ASSUME NEW n \in 0..Len(run.batch)
      PROVE  /\ SubSeq(run.batch, 1, n) \in Seq(Int)
             /\ Append(SubSeq(run.batch, 1, n), Garbage) \in Seq(Int)
  <2>1. run.batch \in Seq(Int) /\ Garbage \in Int
    BY Numbers DEF IInv, Garbage
  <2>2. SubSeq(run.batch, 1, n) \in Seq(Int)
    BY <2>1
  <2>3. QED
    BY <2>1, <2>2
<1>5. QED
  BY <1>2, <1>3, <1>4 DEF Dies

LEMMA PublishKeeps == ASSUME IInv, Publish PROVE IInv' /\ RowsStay
<1>1. source' \in Nat /\ UNCHANGED <<job, saved, data, manifest, run, restarts, faults>>
  BY DEF Publish, IInv, TypeOK
<1>2. QED
  BY <1>1, NothingWritten DEF IInv, TypeOK, CheckpointOK, OutputOK, RunOK

LEMMA StepKeeps == ASSUME IInv, Step PROVE IInv' /\ RowsStay
BY PrepareJsonlKeeps, PrepareGzipKeeps, PrepareParquetKeeps, SaveRetainedKeeps, FetchKeeps,
   WalkEndsKeeps, WriteBatchKeeps, RecordPartKeeps, SaveCheckpointKeeps, CloseKeeps DEF Step

LEMMA NextKeeps == ASSUME IInv, [Next]_vars PROVE IInv' /\ RowsStay
<1>1. CASE UNCHANGED vars
  BY <1>1, NothingWritten DEF vars, IInv, TypeOK, CheckpointOK, OutputOK, RunOK
<1>2. CASE Next
  BY <1>2, StepKeeps, FetchCutKeeps, WalkEndsKeeps, DiesKeeps, PublishKeeps, StartKeeps DEF Next
<1>3. QED
  BY <1>1, <1>2

-----------------------------------------------------------------------------
(* The second invariant: what the rows are, and how far the walk has come. *)
(* A frontier is a number: what is younger has been passed.  Everything is *)
(* said of a connector s, of rows D, of a checkpoint cp, of the source src.*)

Stable(s, cp, src) == s \in Files \/ src = cp.since
StopsEarly(s)      == s = "osti" /\ Malformed[s] # {}
Has(D, k)          == \E i \in DOMAIN D : D[i] = k

\* What SnapshotIsExact says of rows whose walk may go on.
Exact(s, D, cp, src) ==
  /\ \A i \in DOMAIN D : Emits(s, D[i])
  /\ ~cp.cut => \A k \in 1..Latest(cp.since) :
        Emits(s, k) /\ (\E i \in DOMAIN D : D[i] < k) => Has(D, k)
  /\ Stable(s, cp, src) => \A i, j \in DOMAIN D : i < j => D[j] < D[i]

\* The walk has come to the frontier.
Reached(s, D, F, cp, src) ==
  /\ ~cp.cut => \A k \in 1..Latest(cp.since) : Emits(s, k) /\ F < k => Has(D, k)
  /\ Stable(s, cp, src) => \A i \in DOMAIN D : F < D[i]

\* The walk is over.
Ended(s, D, cp) ==
  ~cp.cut /\ ~StopsEarly(s) => \A k \in 1..Latest(cp.since) : Emits(s, k) => Has(D, k)

\* The first number of the page of a token, and the one after its last.
First(s, at, v) == ItemAt(Read(s, at, v).from, v)
After(s, at, v) == ItemAt(Read(s, at, v).to + 1, v)

\* The numbers of an interval that count for an offset.
Counts(s, lo, hi) == {k \in lo..hi : Outcome(s, k) # "unlisted"}

\* A token and an offset into its page name a frontier.
Names(s, at, off, v, F) ==
  /\ After(s, at, v) <= F /\ F <= First(s, at, v)
  /\ off = Cardinality(Counts(s, F + 1, First(s, at, v)))

\* The version that the position of a checkpoint is about.
About(cp) == IF cp.records = 0 THEN cp.since ELSE cp.version

CheckpointIsExact(s, cp, D, src) ==
  /\ About(cp) \in cp.since..src
  /\ Exact(s, D, cp, src)
  /\ IF cp.complete THEN Ended(s, D, cp)
     ELSE \E F \in Nat : Names(s, cp.at, cp.off, About(cp), F) /\ Reached(s, D, F, cp, src)

Prefix(d, n) == [i \in 1..n |-> d[i]]

\* The rows that a checkpoint counts, and the batch.
Taken(d, cp, b) ==
  [i \in 1..cp.records + Len(b) |-> IF i <= cp.records THEN d[i] ELSE b[i - cp.records]]

\* The page at hand, which may be a stream that was cut short.
Whole(s, r) == s \notin Files \/ ~r.cp.cut

PageIsRead(s, r, src) ==
  /\ r.version \in r.cp.since..src
  /\ 0 <= First(s, r.at, r.version)
  /\ r.page.from = Read(s, r.at, r.version).from
  /\ r.page.to <= Read(s, r.at, r.version).to
  /\ Whole(s, r) => r.page = Read(s, r.at, r.version)
  /\ s \in Files => r.page.last
  /\ r.index \in r.page.from..r.page.to + 1

\* An invocation on its way through a page.
Under(r) == r.pc = "take" \/ (r.pc \in {"write", "record", "save"} /\ ~r.closing)

UnderWay(s, r, D, src) ==
  /\ PageIsRead(s, r, src)
  /\ Exact(s, D, r.cp, src)
  /\ Whole(s, r) \/ r.index <= r.page.to =>
        Reached(s, D, ItemAt(r.index, r.version), r.cp, src)

\* Before a page is read.
Between(s, r, D, src) ==
  \E w \in r.cp.since..src, F \in Nat :
    /\ Names(s, r.at, r.off, w, F)
    /\ Exact(s, D, r.cp, src) /\ Reached(s, D, F, r.cp, src)
    /\ s \in Files => r.batch = <<>> /\ w = About(r.cp)

\* What a checkpoint that is saved now would name.
Marked(s, r, D, src) ==
  /\ r.mark.version \in r.cp.since..src
  /\ Exact(s, D, r.cp, src)
  /\ \E F \in Nat : /\ Names(s, r.mark.at, r.mark.off, r.mark.version, F)
                    /\ Reached(s, D, F, r.cp, src)

Shape(r) ==
  /\ r.pc \in {"prepare", "retain", "close"} => r.batch = <<>>
  /\ r.pc \in {"write", "record", "save"} => r.batch # <<>>
  /\ r.pc \in {"prepare", "retain", "fetch", "take"} => ~r.exhausted /\ ~r.closing
  /\ r.exhausted /\ r.pc \in {"write", "record", "save"} => r.closing

RunIsExact(s, r, d, src) ==
  r.pc # "idle" =>
    /\ CheckpointIsExact(s, r.cp, Prefix(d, r.cp.records), src)
    /\ Shape(r)
    /\ r.pc = "fetch" => Between(s, r, Taken(d, r.cp, r.batch), src)
    /\ Under(r) => UnderWay(s, r, Taken(d, r.cp, r.batch), src)
    /\ r.batch # <<>> => Marked(s, r, Taken(d, r.cp, r.batch), src)
    /\ r.exhausted => Ended(s, Taken(d, r.cp, r.batch), r.cp)
    /\ r.pc \in {"record", "save"} =>
          Prefix(d, r.cp.records + Len(r.batch)) = Taken(d, r.cp, r.batch)

ExactInv ==
  /\ saved.there => CheckpointIsExact(c, saved, Prefix(data, saved.records), source)
  /\ RunIsExact(c, run, data, source)

-----------------------------------------------------------------------------
(* Numbers and positions.                                                  *)

LEMMA Numbering ==
  ASSUME NEW v \in Nat
  PROVE  /\ Latest(v) \in Nat
         /\ \A i \in Int : ItemAt(i, v) = Latest(v) + 1 - i /\ ItemAt(i, v) \in Int
BY Constants DEF Latest, ItemAt

LEMMA IntervalSize ==
  ASSUME NEW a \in Int, NEW b \in Int, a <= b + 1
  PROVE  IsFiniteSet(a..b) /\ Cardinality(a..b) = b - a + 1
<1>1. CASE a <= b
  <2>1. ~(a > b)
    BY <1>1
  <2>2. QED
    BY <2>1, FS_Interval, Zenon
<1>2. CASE a = b + 1
  <2>1. a..b = {} /\ b - a + 1 = 0
    BY <1>2
  <2>2. QED
    BY <2>1, FS_EmptySet
<1>3. QED
  BY <1>1, <1>2

LEMMA CountsFinite ==
  ASSUME NEW s, NEW lo \in Int, NEW hi \in Int
  PROVE  IsFiniteSet(Counts(s, lo, hi)) /\ Cardinality(Counts(s, lo, hi)) \in Nat
<1>1. IsFiniteSet(lo..hi) /\ Counts(s, lo, hi) \in SUBSET (lo..hi)
  BY FS_Interval DEF Counts
<1>2. IsFiniteSet(Counts(s, lo, hi))
  BY <1>1, FS_Subset
<1>3. QED
  BY <1>2, FS_CardinalityType

LEMMA CountsGrow ==
  ASSUME NEW s, NEW lo \in Int, NEW hi \in Int, NEW a \in Int, NEW b \in Int, lo <= a, b <= hi
  PROVE  Counts(s, a, b) \subseteq Counts(s, lo, hi)
         /\ Cardinality(Counts(s, a, b)) <= Cardinality(Counts(s, lo, hi))
<1>1. Counts(s, a, b) \in SUBSET Counts(s, lo, hi)
  BY DEF Counts
<1>2. QED
  BY <1>1, CountsFinite, FS_Subset

\* An offset is the number of the records that it passes.
LEMMA ListedCounts ==
  ASSUME NEW s, NEW from \in Int, NEW to \in Int, NEW v \in Nat
  PROVE  Listed(s, from, to, v) = Cardinality(Counts(s, ItemAt(to, v), ItemAt(from, v)))
<1> DEFINE A == {i \in from..to : Outcome(s, ItemAt(i, v)) # "unlisted"}
           B == Counts(s, ItemAt(to, v), ItemAt(from, v))
           f == [i \in A |-> ItemAt(i, v)]
<1>1. IsFiniteSet(A)
  <2>1. IsFiniteSet(from..to) /\ A \in SUBSET (from..to)
    BY FS_Interval
  <2>2. QED
    BY <2>1, FS_Subset
<1>2. \A i \in A : ItemAt(i, v) \in B
  <2> SUFFICES ASSUME NEW i \in A PROVE ItemAt(i, v) \in B
    OBVIOUS
  <2>1. i \in from..to /\ Outcome(s, ItemAt(i, v)) # "unlisted"
    OBVIOUS
  <2>2. ItemAt(i, v) \in ItemAt(to, v)..ItemAt(from, v)
    BY <2>1, Constants DEF ItemAt, Latest
  <2>3. QED
    BY <2>1, <2>2 DEF Counts
<1>3. \A i, j \in A : ItemAt(i, v) = ItemAt(j, v) => i = j
  BY Constants DEF ItemAt, Latest
<1>4. \A k \in B : \E i \in A : ItemAt(i, v) = k
  <2> SUFFICES ASSUME NEW k \in B PROVE \E i \in A : ItemAt(i, v) = k
    OBVIOUS
  <2>0. ItemAt(to, v) \in Int /\ ItemAt(from, v) \in Int
    BY Numbering
  <2>1. Latest(v) \in Nat /\ k \in Int /\ ItemAt(to, v) <= k /\ k <= ItemAt(from, v)
          /\ Outcome(s, k) # "unlisted"
    BY <2>0, Numbering DEF Counts
  <2>2. Latest(v) + 1 - k \in from..to
    BY <2>1, Constants DEF ItemAt, Latest
  <2>3. ItemAt(Latest(v) + 1 - k, v) = k
    BY <2>1, <2>2, Constants DEF ItemAt, Latest
  <2>4. QED
    BY <2>1, <2>2, <2>3
<1>5. f \in Bijection(A, B)
  <2> HIDE DEF A, B
  <2>1. f \in [A -> B] /\ \A i \in A : f[i] = ItemAt(i, v)
    BY <1>2
  <2>2. QED
    BY <1>3, <1>4, <2>1 DEF Bijection, Injection, Surjection, IsInjective
<1>6. ExistsBijection(A, B)
  BY <1>5 DEF ExistsBijection
<1>7. Cardinality(B) = Cardinality(A)
  BY <1>1, <1>6, FS_Bijection
<1>8. QED
  BY <1>7 DEF Listed

LEMMA ListedGrows ==
  ASSUME NEW s, NEW from \in Int, NEW i \in Int, NEW j \in Int, NEW v \in Nat, i <= j
  PROVE  Listed(s, from, i, v) <= Listed(s, from, j, v)
<1>1. /\ ItemAt(i, v) \in Int /\ ItemAt(j, v) \in Int /\ ItemAt(from, v) \in Int
      /\ ItemAt(j, v) <= ItemAt(i, v)
  BY Numbering
<1>2. QED
  BY <1>1, ListedCounts, CountsGrow

\* What is listed in a page up to an offset is a first part of it.
LEMMA ResumePart ==
  ASSUME NEW s, NEW page \in PageRecord, NEW off \in Int, NEW v \in Nat,
         page.from <= page.to + 1
  PROVE  LET m == ResumeAt(s, page, off, v)
         IN  /\ m \in page.from..page.to + 1
             /\ \A i \in page.from..page.to : i < m <=> Listed(s, page.from, i, v) <= off
<1> DEFINE from == page.from
           to == page.to
           S == {i \in from..to : Listed(s, from, i, v) <= off}
           n == Cardinality(S)
<1>1. from \in Int /\ to \in Int /\ from <= to + 1
  BY DEF PageRecord
<1>2. IsFiniteSet(S) /\ n \in Nat /\ n <= to - from + 1
  <2>1. IsFiniteSet(from..to) /\ Cardinality(from..to) = to - from + 1 /\ S \in SUBSET (from..to)
    BY <1>1, IntervalSize
  <2>2. QED
    BY <2>1, FS_Subset, FS_CardinalityType
<1>3. \A i \in S : from..i \subseteq S
  <2> SUFFICES ASSUME NEW i \in S, NEW j \in from..i PROVE j \in S
    OBVIOUS
  <2>1. i \in Int /\ j \in Int /\ j <= i /\ j \in from..to /\ Listed(s, from, i, v) <= off
    BY <1>1
  <2>2. Listed(s, from, j, v) <= Listed(s, from, i, v)
    BY <1>1, <2>1, ListedGrows
  <2>3. Listed(s, from, j, v) \in Nat /\ Listed(s, from, i, v) \in Nat
    BY <1>1, <2>1, ListedType
  <2>4. Listed(s, from, j, v) <= off
    BY <2>1, <2>2, <2>3
  <2>5. QED
    BY <2>1, <2>4
<1>4. \A i \in S : i \in from..from + n - 1
  <2> SUFFICES ASSUME NEW i \in S PROVE i \in from..from + n - 1
    OBVIOUS
  <2>1. i \in Int /\ from <= i
    BY <1>1
  <2>2. from..i \in SUBSET S
    BY <1>3
  <2>e. Cardinality(from..i) = i - from + 1
    <3> HIDE DEF S, n, from
    <3>1. from <= i + 1
      BY <1>1, <2>1
    <3>2. QED
      BY <1>1, <2>1, <3>1, IntervalSize
  <2>3. Cardinality(from..i) <= n
    BY <1>2, <2>2, FS_Subset
  <2>4. i - from + 1 <= n
    BY <2>e, <2>3
  <2> HIDE DEF n, S
  <2>5. QED
    BY <1>1, <1>2, <2>1, <2>4
<1>5. S = from..from + n - 1
  <2>1. S \in SUBSET (from..from + n - 1)
    BY <1>4
  <2>2. IsFiniteSet(from..from + n - 1) /\ Cardinality(from..from + n - 1) = n
    <3> DEFINE e == from + n - 1
    <3> HIDE DEF n
    <3>1. e \in Int /\ from <= e + 1 /\ e - from + 1 = n
      BY <1>1, <1>2
    <3> HIDE DEF e, from
    <3>2. IsFiniteSet(from..e) /\ Cardinality(from..e) = n
      BY <1>1, <3>1, IntervalSize
    <3>3. QED
      BY <3>2 DEF e
  <2>3. QED
    BY <2>1, <2>2, FS_Subset
<1>6. ResumeAt(s, page, off, v) = from + n
  BY DEF ResumeAt
<1> HIDE DEF n
<1>7. \A i \in from..to : i < from + n <=> i \in S
  <2> SUFFICES ASSUME NEW i \in from..to PROVE i < from + n <=> i \in from..from + n - 1
    BY <1>5
  <2> QED BY <1>1, <1>2
<1>8. from + n \in from..to + 1
  BY <1>1, <1>2
<1>9. QED
  BY <1>6, <1>7, <1>8


-----------------------------------------------------------------------------
(* Pages and tokens, for each kind of connector.                           *)

LEMMA FileRead ==
  ASSUME NEW s \in Files, NEW at, NEW v
  PROVE  Read(s, at, v) = Page(1, Latest(v), 0, TRUE)
BY DEF Files, Read, Sbir, Uspto, OnrWebsite

LEMMA PageEnds ==
  ASSUME NEW from \in Int, NEW v \in Nat, from <= Latest(v) + 1
  PROVE  /\ PageEnd(from, v) \in Int /\ from <= PageEnd(from, v) + 1
         /\ PageEnd(from, v) <= Latest(v) /\ PageEnd(from, v) <= from + PageSize - 1
         /\ PageEnd(from, v) < Latest(v) => PageEnd(from, v) = from + PageSize - 1
         /\ Short(from, PageEnd(from, v)) => PageEnd(from, v) = Latest(v)
<1>1. Latest(v) \in Nat /\ PageSize \in Nat \ {0}
  BY Numbering, Constants
<1>2. CASE from + PageSize - 1 < Latest(v)
  <2>1. PageEnd(from, v) = from + PageSize - 1
    BY <1>2 DEF PageEnd
  <2>2. ~Short(from, from + PageSize - 1)
    BY <1>1 DEF Short
  <2>3. QED
    BY <1>1, <1>2, <2>1, <2>2
<1>3. CASE ~(from + PageSize - 1 < Latest(v))
  <2>1. PageEnd(from, v) = Latest(v)
    BY <1>3 DEF PageEnd
  <2>2. QED
    BY <1>1, <1>3, <2>1
<1>4. QED
  BY <1>2, <1>3

LEMMA CursorRead ==
  ASSUME NEW s \in Cursors, NEW at \in Int, NEW v \in Nat, CursorStart(at, v) <= Latest(v) + 1
  PROVE  /\ Read(s, at, v).from = CursorStart(at, v)
         /\ Read(s, at, v).to = PageEnd(CursorStart(at, v), v)
         /\ Read(s, at, v).next = CursorAfter(PageEnd(CursorStart(at, v), v), v)
         /\ Read(s, at, v).last \in BOOLEAN
         /\ Read(s, at, v).last => PageEnd(CursorStart(at, v), v) = Latest(v)
<1> DEFINE from == CursorStart(at, v)
           to == PageEnd(from, v)
<1>1. from \in Int /\ Latest(v) \in Nat
  BY Numbering DEF CursorStart
<1>2. to \in Int /\ to <= Latest(v) /\ (Short(from, to) => to = Latest(v))
  BY <1>1, PageEnds
<1>3. ~More(to, v) => to = Latest(v)
  BY <1>1, <1>2 DEF More
<1>s. Short(from, to) \in BOOLEAN /\ More(to, v) \in BOOLEAN
  BY DEF Short, More
<1> HIDE DEF from, to
<1>4. CASE s = "crossref"
  <2>1. Read(s, at, v) = Page(from, to, CursorAfter(to, v), Short(from, to))
    BY <1>4 DEF Read, Crossref, from, to
  <2>2. QED
    BY <1>2, <1>s, <2>1 DEF Page, from, to
<1>5. CASE s = "openalex"
  <2>1. Read(s, at, v) = Page(from, to, CursorAfter(to, v), Short(from, to) \/ ~More(to, v))
    BY <1>5 DEF Read, OpenAlex, from, to
  <2>2. QED
    BY <1>2, <1>3, <1>s, <2>1 DEF Page, from, to
<1>6. CASE s = "datacite"
  <2> DEFINE b == ~More(to, v)
  <2>1. Read(s, at, v) = Page(from, to, CursorAfter(to, v), b) /\ b \in BOOLEAN
    BY <1>6 DEF Read, DataCite, from, to
  <2>2. b => to = Latest(v)
    BY <1>3
  <2> HIDE DEF b
  <2>3. QED
    BY <2>1, <2>2 DEF Page, from, to
<1>7. QED
  BY <1>4, <1>5, <1>6 DEF Cursors

\* Where every entry is an object, the length of a page of OSTI is that of its records.
LEMMA OstiListed ==
  ASSUME NEW from \in Int, NEW to \in Int, NEW v \in Nat, from <= to + 1
  PROVE  /\ Listed("osti", from, to, v) \in Nat
         /\ Listed("osti", from, to, v) <= to - from + 1
         /\ ~StopsEarly("osti") => Listed("osti", from, to, v) = to - from + 1
<1> DEFINE S == {i \in from..to : Outcome("osti", ItemAt(i, v)) # "unlisted"}
<1>1. IsFiniteSet(from..to) /\ Cardinality(from..to) = to - from + 1
  BY IntervalSize
<1>2. S \in SUBSET (from..to) /\ Listed("osti", from, to, v) = Cardinality(S)
  BY DEF Listed
<1>3. ASSUME ~StopsEarly("osti") PROVE S = from..to
  <2>1. Malformed["osti"] = {}
    BY <1>3 DEF StopsEarly
  <2>2. \A k : Outcome("osti", k) # "unlisted"
    BY <2>1 DEF Outcome, OstiRecord
  <2>3. QED
    BY <2>2
<1> HIDE DEF S
<1>4. Cardinality(S) <= to - from + 1
  BY <1>1, <1>2, FS_Subset
<1>5. QED
  BY <1>1, <1>2, <1>3, <1>4, ListedType

LEMMA OffsetRead ==
  ASSUME NEW s \in Offsets, NEW at \in Int, NEW v \in Nat, at <= Latest(v)
  PROVE  /\ Read(s, at, v).from = at + 1 /\ Read(s, at, v).to = PageEnd(at + 1, v)
         /\ Read(s, at, v).last \in BOOLEAN
         /\ ~Read(s, at, v).last => Read(s, at, v).next = PageEnd(at + 1, v)
         /\ Read(s, at, v).last /\ ~StopsEarly(s) => PageEnd(at + 1, v) = Latest(v)
<1> DEFINE to == PageEnd(at + 1, v)
<1>1. at + 1 \in Int /\ Latest(v) \in Nat /\ PageSize \in Nat
  BY Numbering, Constants
<1>2. /\ to \in Int /\ at + 1 <= to + 1 /\ to <= Latest(v)
      /\ to <= at + PageSize /\ (to < Latest(v) => to = at + PageSize)
      /\ Short(at + 1, to) => to = Latest(v)
  <2>1. at + 1 <= Latest(v) + 1
    BY <1>1
  <2>2. /\ to \in Int /\ at + 1 <= to + 1 /\ to <= Latest(v)
        /\ to <= at + 1 + PageSize - 1 /\ (to < Latest(v) => to = at + 1 + PageSize - 1)
        /\ Short(at + 1, to) => to = Latest(v)
    BY <1>1, <2>1, PageEnds
  <2> HIDE DEF to
  <2>3. QED
    BY <1>1, <2>2
<1> HIDE DEF to
<1>3. ~More(to, v) => to = Latest(v)
  BY <1>1, <1>2 DEF More
<1>4. More(to, v) => to = at + PageSize
  BY <1>1, <1>2 DEF More
<1>s. Short(at + 1, to) \in BOOLEAN /\ More(to, v) \in BOOLEAN
  BY DEF Short, More
<1>5. CASE s \in {"usaspending", "federal_register"}
  <2> DEFINE b == ~More(to, v)
  <2>1. Read(s, at, v) = Page(at + 1, to, at + PageSize, b) /\ b \in BOOLEAN
    BY <1>5 DEF Read, UsaSpending, FederalRegister, to
  <2>2. (b => to = Latest(v)) /\ (~b => to = at + PageSize)
    BY <1>3, <1>4
  <2> HIDE DEF b
  <2>3. QED
    BY <2>1, <2>2 DEF Page, to
<1>6. CASE s = "grants_gov"
  <2>1. Read(s, at, v) = Page(at + 1, to, to, ~More(to, v) \/ Short(at + 1, to))
    BY <1>6 DEF Read, GrantsGov, to
  <2>2. QED
    BY <1>2, <1>3, <1>s, <2>1 DEF Page, to
<1>7. CASE s \in {"pubmed", "sam_gov"}
  <2> DEFINE b == ~More(to, v)
  <2>1. Read(s, at, v) = Page(at + 1, to, to, b) /\ b \in BOOLEAN
    BY <1>7 DEF Read, PubMed, SamGov, to
  <2>2. b => to = Latest(v)
    BY <1>3
  <2> HIDE DEF b
  <2>3. QED
    BY <2>1, <2>2 DEF Page, to
<1>8. CASE s = "osti"
  <2> DEFINE n == Listed("osti", at + 1, to, v)
  <2>1. Read(s, at, v) = Page(at + 1, to, at + PageSize, n < PageSize)
    BY <1>8 DEF Read, Osti, to
  <2>2. n \in Nat /\ n <= to - at /\ (~StopsEarly("osti") => n = to - at)
    <3>1. n \in Nat /\ n <= to - (at + 1) + 1 /\ (~StopsEarly("osti") => n = to - (at + 1) + 1)
      BY <1>1, <1>2, OstiListed
    <3> HIDE DEF n
    <3>2. QED
      BY <1>1, <1>2, <3>1
  <2> HIDE DEF n
  <2>3. ~(n < PageSize) => to = at + PageSize
    BY <1>1, <1>2, <2>2
  <2>4. n < PageSize /\ ~StopsEarly("osti") => to = Latest(v)
    <3> SUFFICES ASSUME n < PageSize, ~StopsEarly("osti") PROVE to = Latest(v)
      OBVIOUS
    <3>1. to - at < PageSize
      BY <2>2
    <3>2. QED
      BY <1>1, <1>2, <3>1
  <2>5. (n < PageSize) \in BOOLEAN
    OBVIOUS
  <2> DEFINE b == n < PageSize
  <2>6. /\ Read(s, at, v) = Page(at + 1, to, at + PageSize, b) /\ b \in BOOLEAN
        /\ ~b => to = at + PageSize
        /\ b /\ ~StopsEarly(s) => to = Latest(v)
    BY <1>8, <2>1, <2>3, <2>4, <2>5
  <2> HIDE DEF b
  <2>7. QED
    BY <2>6 DEF Page, to
<1>9. QED
  BY <1>5, <1>6, <1>7, <1>8 DEF Offsets

-----------------------------------------------------------------------------
(* Where pages begin and end, for every connector.                         *)

LEMMA PageFrom ==
  ASSUME NEW s \in Connectors, NEW at \in Int, NEW v \in Nat
  PROVE  /\ s \in Cursors => Read(s, at, v).from = CursorStart(at, v)
         /\ s \in Offsets => Read(s, at, v).from = at + 1
         /\ s \in Files => Read(s, at, v).from = 1
<1>1. CASE s \in Cursors
  <2>1. s \notin Offsets /\ s \notin Files
    BY <1>1 DEF Cursors, Offsets, Files
  <2>2. Read(s, at, v).from = CursorStart(at, v)
    BY <1>1 DEF Cursors, Read, Crossref, OpenAlex, DataCite, Page
  <2>3. QED
    BY <2>1, <2>2
<1>2. CASE s \in Offsets
  <2>1. s \notin Cursors /\ s \notin Files
    BY <1>2 DEF Cursors, Offsets, Files
  <2>2. Read(s, at, v).from = at + 1
    BY <1>2 DEF Offsets, Read, Osti, UsaSpending, FederalRegister, GrantsGov, PubMed, SamGov, Page
  <2>3. QED
    BY <2>1, <2>2
<1>3. CASE s \in Files
  <2>1. s \notin Cursors /\ s \notin Offsets
    BY <1>3 DEF Cursors, Offsets, Files
  <2>2. QED
    BY <1>3, <2>1, FileRead DEF Page
<1>4. QED
  BY <1>1, <1>2, <1>3 DEF Connectors

\* The first number of a page, for each kind of token.
LEMMA FirstOf ==
  ASSUME NEW s \in Connectors, NEW at \in Int, NEW v \in Nat
  PROVE  /\ First(s, at, v) = Latest(v) + 1 - Read(s, at, v).from
         /\ After(s, at, v) = Latest(v) - Read(s, at, v).to
         /\ s \in Cursors => First(s, at, v) = IF at = 0 THEN Latest(v) ELSE at - 1
         /\ s \in Offsets => First(s, at, v) = Latest(v) - at
         /\ s \in Files => First(s, at, v) = Latest(v)
<1>1. Latest(v) \in Nat
  BY Numbering
<1>2. Read(s, at, v).from \in Int /\ Read(s, at, v).to \in Int
  BY ReadType DEF PageRecord
<1>3. /\ First(s, at, v) = Latest(v) + 1 - Read(s, at, v).from
      /\ After(s, at, v) = Latest(v) - Read(s, at, v).to
  BY <1>1, <1>2 DEF First, After, ItemAt
<1>4. ASSUME s \in Cursors PROVE First(s, at, v) = IF at = 0 THEN Latest(v) ELSE at - 1
  BY <1>1, <1>3, <1>4, PageFrom DEF CursorStart
<1>5. ASSUME s \in Offsets PROVE First(s, at, v) = Latest(v) - at
  BY <1>1, <1>3, <1>5, PageFrom
<1>6. ASSUME s \in Files PROVE First(s, at, v) = Latest(v)
  BY <1>1, <1>3, <1>6, PageFrom
<1>7. QED
  BY <1>3, <1>4, <1>5, <1>6

\* What was published later only adds to the front of a page.
LEMMA FirstMoves ==
  ASSUME NEW s \in Connectors, NEW at \in Int, NEW w \in Nat, NEW v \in Nat, w <= v
  PROVE  First(s, at, w) <= First(s, at, v) /\ First(s, at, w) \in Int /\ First(s, at, v) \in Int
<1>1. Latest(w) \in Nat /\ Latest(v) \in Nat /\ Latest(w) <= Latest(v)
  BY Constants DEF Latest
<1>2. s \in Cursors \/ s \in Offsets \/ s \in Files
  BY DEF Connectors
<1>3. CASE s \in Cursors
  BY <1>1, <1>3, FirstOf
<1>4. CASE s \in Offsets
  BY <1>1, <1>4, FirstOf
<1>5. CASE s \in Files
  BY <1>1, <1>5, FirstOf
<1>6. QED
  BY <1>2, <1>3, <1>4, <1>5

\* A page that begins at a number that there is, or that is left.
LEMMA PageShape ==
  ASSUME NEW s \in Connectors, NEW at \in Int, NEW v \in Nat, 0 <= First(s, at, v)
  PROVE  /\ Read(s, at, v) \in PageRecord
         /\ Read(s, at, v).from <= Read(s, at, v).to + 1
         /\ Read(s, at, v).to <= Latest(v)
         /\ First(s, at, v) \in Nat /\ After(s, at, v) \in Nat
         /\ After(s, at, v) <= First(s, at, v)
<1> DEFINE p == Read(s, at, v)
<1>1. Latest(v) \in Nat /\ p \in PageRecord /\ p.from \in Int /\ p.to \in Int
  BY Numbering, ReadType DEF PageRecord
<1>2. /\ First(s, at, v) = Latest(v) + 1 - p.from
      /\ After(s, at, v) = Latest(v) - p.to
  BY FirstOf
<1>3. p.from <= Latest(v) + 1
  BY <1>1, <1>2
<1>4. p.from <= p.to + 1 /\ p.to <= Latest(v)
  <2>1. CASE s \in Cursors
    <3>1. CursorStart(at, v) <= Latest(v) + 1 /\ CursorStart(at, v) \in Int
            /\ p.from = CursorStart(at, v)
      BY <1>1, <1>3, <2>1, PageFrom
    <3>2. p.to = PageEnd(CursorStart(at, v), v)
      BY <2>1, <3>1, CursorRead
    <3>3. QED
      BY <3>1, <3>2, PageEnds
  <2>2. CASE s \in Offsets
    <3>1. at + 1 <= Latest(v) + 1 /\ at + 1 \in Int /\ p.from = at + 1
      BY <1>1, <1>3, <2>2, PageFrom
    <3>2. at <= Latest(v)
      BY <1>1, <3>1
    <3>3. p.to = PageEnd(at + 1, v)
      BY <2>2, <3>2, OffsetRead
    <3>4. QED
      BY <3>1, <3>3, PageEnds
  <2>3. CASE s \in Files
    <3>1. p.from = 1 /\ p.to = Latest(v)
      BY <2>3, FileRead DEF Page
    <3>2. QED
      BY <1>1, <3>1
  <2>4. QED
    BY <2>1, <2>2, <2>3 DEF Connectors
<1> HIDE DEF p
<1>5. First(s, at, v) \in Nat /\ After(s, at, v) \in Nat /\ After(s, at, v) <= First(s, at, v)
  BY <1>1, <1>2, <1>4
<1>6. QED
  BY <1>1, <1>4, <1>5 DEF p

\* The token of the next page names where a page ends.
LEMMA NextPage ==
  ASSUME NEW s \in Connectors, s \notin Files, NEW at \in Int, NEW v \in Nat,
         0 <= First(s, at, v), ~Read(s, at, v).last
  PROVE  First(s, Read(s, at, v).next, v) = After(s, at, v)
<1> DEFINE p == Read(s, at, v)
<1>1. /\ Latest(v) \in Nat /\ p \in PageRecord /\ p.from \in Int /\ p.to \in Int /\ p.next \in Int
      /\ p.to <= Latest(v)
  BY Numbering, PageShape DEF PageRecord
<1>2. /\ First(s, at, v) = Latest(v) + 1 - p.from
      /\ After(s, at, v) = Latest(v) - p.to
  BY FirstOf
<1>3. p.from <= Latest(v) + 1
  BY <1>1, <1>2
<1>4. CASE s \in Cursors
  <2>1. CursorStart(at, v) <= Latest(v) + 1
    BY <1>3, <1>4, PageFrom
  <2>2. p.next = CursorAfter(p.to, v)
    BY <1>4, <2>1, CursorRead
  <2>3. p.next = Latest(v) - p.to + 1
    BY <2>2 DEF CursorAfter
  <2>4. First(s, p.next, v) = IF p.next = 0 THEN Latest(v) ELSE p.next - 1
    BY <1>1, <1>4, FirstOf
  <2> HIDE DEF p
  <2>5. p.next # 0 /\ p.next - 1 = Latest(v) - p.to
    BY <1>1, <2>3
  <2>6. QED
    BY <1>2, <2>4, <2>5 DEF p
<1>5. CASE s \in Offsets
  <2>1. at + 1 <= Latest(v) + 1
    BY <1>3, <1>5, PageFrom
  <2>2. at <= Latest(v)
    BY <1>1, <2>1
  <2>3. p.next = p.to
    BY <1>5, <2>2, OffsetRead
  <2>4. First(s, p.next, v) = Latest(v) - p.next
    BY <1>1, <1>5, FirstOf
  <2>5. QED
    BY <1>2, <2>3, <2>4
<1>6. QED
  BY <1>4, <1>5 DEF Connectors

\* Nothing is left after the last page, unless OSTI has met what is no object.
LEMMA LastPage ==
  ASSUME NEW s \in Connectors, NEW at \in Int, NEW v \in Nat,
         0 <= First(s, at, v), Read(s, at, v).last, ~StopsEarly(s)
  PROVE  After(s, at, v) = 0
<1> DEFINE p == Read(s, at, v)
<1>1. /\ Latest(v) \in Nat /\ p \in PageRecord /\ p.from \in Int /\ p.to \in Int
  BY Numbering, PageShape DEF PageRecord
<1>2. /\ First(s, at, v) = Latest(v) + 1 - p.from
      /\ After(s, at, v) = Latest(v) - p.to
  BY FirstOf
<1>3. p.from <= Latest(v) + 1
  BY <1>1, <1>2
<1>4. CASE s \in Cursors
  <2>1. CursorStart(at, v) <= Latest(v) + 1
    BY <1>3, <1>4, PageFrom
  <2>2. p.to = Latest(v)
    BY <1>4, <2>1, CursorRead
  <2>3. QED
    BY <1>1, <1>2, <2>2
<1>5. CASE s \in Offsets
  <2>1. at + 1 <= Latest(v) + 1
    BY <1>3, <1>5, PageFrom
  <2>2. at <= Latest(v)
    BY <1>1, <2>1
  <2>3. p.to = Latest(v)
    BY <1>5, <2>2, OffsetRead
  <2>4. QED
    BY <1>1, <1>2, <2>3
<1>6. CASE s \in Files
  <2>1. p.to = Latest(v)
    BY <1>6, FileRead DEF Page
  <2>2. QED
    BY <1>1, <1>2, <2>1
<1>7. QED
  BY <1>4, <1>5, <1>6 DEF Connectors

\* The initial token begins at the youngest number.
LEMMA FirstPage ==
  ASSUME NEW s \in Connectors, NEW v \in Nat
  PROVE  First(s, 0, v) = Latest(v)
<1>1. Latest(v) \in Nat /\ 0 \in Int
  BY Numbering
<1>2. CASE s \in Cursors
  BY <1>1, <1>2, FirstOf
<1>3. CASE s \in Offsets
  BY <1>1, <1>3, FirstOf
<1>4. CASE s \in Files
  BY <1>1, <1>4, FirstOf
<1>5. QED
  BY <1>2, <1>3, <1>4 DEF Connectors

-----------------------------------------------------------------------------
(* A walk that goes on: it repeats nothing that counts, and omits nothing. *)

LEMMA NoneCounted ==
  ASSUME NEW s, NEW lo \in Int, NEW hi \in Int, hi < lo
  PROVE  Counts(s, lo, hi) = {} /\ Cardinality(Counts(s, lo, hi)) = 0
<1>1. Counts(s, lo, hi) = {}
  BY DEF Counts
<1>2. QED
  BY <1>1, FS_EmptySet

LEMMA CountsSplit ==
  ASSUME NEW s, NEW lo \in Int, NEW mid \in Int, NEW hi \in Int, lo <= mid + 1, mid <= hi
  PROVE  Cardinality(Counts(s, lo, hi))
           = Cardinality(Counts(s, lo, mid)) + Cardinality(Counts(s, mid + 1, hi))
<1> DEFINE A == Counts(s, lo, mid)
           B == Counts(s, mid + 1, hi)
<1>1. Counts(s, lo, hi) = A \cup B /\ A \cap B = {}
  BY DEF Counts
<1>2. IsFiniteSet(A) /\ IsFiniteSet(B) /\ Cardinality(A) \in Nat /\ Cardinality(B) \in Nat
  BY CountsFinite
<1> HIDE DEF A, B
<1>3. Cardinality(A \cup B) = Cardinality(A) + Cardinality(B) - Cardinality(A \cap B)
  BY <1>2, FS_Union
<1>4. Cardinality(A \cap B) = 0
  BY <1>1, FS_EmptySet
<1>5. QED
  BY <1>1, <1>2, <1>3, <1>4 DEF A, B

\* Where a walk resumes on a page whose token and offset name the frontier F, in a source
\* that may have grown: what lies between F and the entry at hand does not count, and
\* nothing is seen twice if the source is the same.
LEMMA Resume ==
  ASSUME NEW s \in Connectors, NEW at \in Int, NEW off \in Int, NEW w \in Nat, NEW v \in Nat,
         w <= v, NEW F \in Nat, Names(s, at, off, w, F),
         NEW page \in PageRecord, page.from = Read(s, at, v).from,
         page.from <= page.to + 1, page.to <= Read(s, at, v).to
  PROVE  /\ ResumeAt(s, page, off, v) \in page.from..page.to + 1
         /\ \A k \in Int : ItemAt(ResumeAt(s, page, off, v), v) < k /\ k <= F
                              => Outcome(s, k) = "unlisted"
         /\ w = v /\ (\/ ResumeAt(s, page, off, v) <= page.to
                      \/ page.to = Read(s, at, v).to)
              => ItemAt(ResumeAt(s, page, off, v), v) <= F
<1> DEFINE j == ResumeAt(s, page, off, v)
           G == ItemAt(j, v)
           H == First(s, at, v)
           W == First(s, at, w)
<1>1. /\ page.from \in Int /\ page.to \in Int
      /\ j \in page.from..page.to + 1
      /\ \A i \in page.from..page.to : i < j <=> Listed(s, page.from, i, v) <= off
  BY ResumePart DEF PageRecord
<1>2. /\ Latest(v) \in Nat /\ \A i \in Int : ItemAt(i, v) = Latest(v) + 1 - i
  BY Numbering
<1>3. /\ After(s, at, w) <= F /\ F <= W
      /\ off = Cardinality(Counts(s, F + 1, W))
      /\ W \in Int /\ H \in Int /\ W <= H
      /\ H = Latest(v) + 1 - page.from
  BY FirstMoves, FirstOf DEF Names
<1>4. ItemAt(page.from, v) = H
  BY <1>1, <1>2, <1>3
<1> HIDE DEF j, H, W
<1>5. j \in Int /\ page.from <= j /\ j <= page.to + 1 /\ G \in Int /\ G = Latest(v) + 1 - j
  BY <1>1, <1>2
<1> HIDE DEF G
<1>6. ASSUME NEW k \in Int, G < k, k <= F PROVE Outcome(s, k) = "unlisted"
  <2>1. j > page.from
    <3>1. G < H
      BY <1>3, <1>5, <1>6
    <3>2. QED
      BY <1>1, <1>2, <1>3, <1>5, <3>1
  <2>2. j - 1 \in page.from..page.to /\ j - 1 < j
    BY <1>1, <1>5, <2>1
  <2>3. Listed(s, page.from, j - 1, v) <= off
    BY <1>1, <2>2
  <2>4. ItemAt(j - 1, v) = G + 1
    <3>1. j - 1 \in Int
      BY <1>5
    <3>2. ItemAt(j - 1, v) = Latest(v) + 1 - (j - 1)
      BY <1>2, <3>1
    <3>3. QED
      BY <1>2, <1>5, <3>2
  <2>5. Listed(s, page.from, j - 1, v) = Cardinality(Counts(s, G + 1, H))
    BY <1>1, <1>4, <1>5, <2>4, ListedCounts
  <2> DEFINE x == Cardinality(Counts(s, G + 1, F))
             y == Cardinality(Counts(s, F + 1, H))
             z == Cardinality(Counts(s, F + 1, W))
             t == Cardinality(Counts(s, G + 1, H))
  <2>6. t = x + y
    <3>1. G + 1 \in Int /\ G + 1 <= F + 1 /\ F <= H
      BY <1>3, <1>5, <1>6
    <3>2. QED
      BY <1>3, <3>1, CountsSplit
  <2>7. z <= y
    BY <1>3, CountsGrow
  <2>8. x \in Nat /\ y \in Nat /\ z \in Nat /\ IsFiniteSet(Counts(s, G + 1, F))
    BY <1>3, <1>5, CountsFinite
  <2>9. t <= z
    BY <1>3, <2>3, <2>5
  <2> HIDE DEF y, z, t
  <2>10. x = 0
    <3> HIDE DEF x
    <3>1. QED
      BY <2>6, <2>7, <2>8, <2>9
  <2>11. Counts(s, G + 1, F) = {}
    BY <2>8, <2>10, FS_EmptySet
  <2>12. k \in G + 1..F
    BY <1>5, <1>6
  <2>13. QED
    BY <2>11, <2>12 DEF Counts
<1>7. ASSUME w = v, j <= page.to PROVE G <= F
  <2> SUFFICES ASSUME F < G PROVE FALSE
    BY <1>5
  <2>1. j \in page.from..page.to
    BY <1>1, <1>5, <1>7
  <2>2. ~(Listed(s, page.from, j, v) <= off)
    BY <1>1, <2>1
  <2>3. ItemAt(j, v) = G /\ W = H
    BY <1>7 DEF G, W, H
  <2>4. Listed(s, page.from, j, v) = Cardinality(Counts(s, G, H))
    BY <1>1, <1>4, <1>5, <2>3, ListedCounts
  <2>5. Cardinality(Counts(s, G, H)) <= Cardinality(Counts(s, F + 1, H))
    BY <1>3, <1>5, CountsGrow
  <2>6. QED
    BY <1>3, <2>2, <2>3, <2>4, <2>5
<1>8. ASSUME w = v, ~(j <= page.to), page.to = Read(s, at, v).to PROVE G <= F
  <2>1. After(s, at, v) = Latest(v) - page.to
    BY <1>8, FirstOf
  <2>2. j = page.to + 1
    BY <1>1, <1>5, <1>8
  <2>3. QED
    BY <1>1, <1>2, <1>3, <1>5, <1>8, <2>1, <2>2
<1>9. QED
  BY <1>1, <1>5, <1>6, <1>7, <1>8 DEF j, G

-----------------------------------------------------------------------------
(* The rows, when a record is taken or passed over.                        *)

\* What was said of a snapshot stays true when the source grows, when a stream turns out
\* to have been cut short, and whatever else of the checkpoint changes.
LEMMA StillTrue ==
  ASSUME NEW s, NEW D, NEW F, NEW cp, NEW cq, NEW src \in Nat, NEW srd \in Nat,
         cp.since \in Nat, cp.since <= src, src <= srd,
         cq.since = cp.since, cp.cut => cq.cut
  PROVE  /\ Exact(s, D, cp, src) => Exact(s, D, cq, srd)
         /\ Reached(s, D, F, cp, src) => Reached(s, D, F, cq, srd)
         /\ Ended(s, D, cp) => Ended(s, D, cq)
<1>1. Stable(s, cq, srd) => Stable(s, cp, src)
  BY DEF Stable
<1>2. Exact(s, D, cp, src) => Exact(s, D, cq, srd)
  BY <1>1 DEF Exact
<1>3. Reached(s, D, F, cp, src) => Reached(s, D, F, cq, srd)
  BY <1>1 DEF Reached
<1>4. Ended(s, D, cp) => Ended(s, D, cq)
  BY DEF Ended
<1>5. QED
  BY <1>2, <1>3, <1>4

\* The frontier may pass over what is no record.
LEMMA FrontierMoves ==
  ASSUME NEW s, NEW n \in Nat, NEW D \in [1..n -> Int], NEW F \in Int, NEW G \in Int,
         NEW cp, NEW src, cp.since \in Nat,
         Reached(s, D, F, cp, src),
         \A k \in Int : G < k /\ k <= F => ~Emits(s, k),
         Stable(s, cp, src) => G <= F \/ n = 0
  PROVE  Reached(s, D, G, cp, src)
<1>1. ASSUME ~cp.cut, NEW k \in 1..Latest(cp.since), Emits(s, k), G < k PROVE Has(D, k)
  <2>1. k \in Int
    BY Numbering
  <2>2. F < k
    BY <1>1, <2>1
  <2>3. QED
    BY <1>1, <2>2 DEF Reached
<1>2. ASSUME Stable(s, cp, src), NEW i \in DOMAIN D PROVE G < D[i]
  <2>1. F < D[i]
    BY <1>2 DEF Reached
  <2>2. i \in 1..n /\ D[i] \in Int
    OBVIOUS
  <2>3. n # 0
    BY <2>2
  <2>4. QED
    BY <1>2, <2>1, <2>2, <2>3
<1>3. QED
  BY <1>1, <1>2 DEF Reached

\* A record is passed over.
LEMMA RowPassed ==
  ASSUME NEW s, NEW n \in Nat, NEW D \in [1..n -> Int], NEW k \in Int,
         NEW cp, NEW src, cp.since \in Nat,
         Reached(s, D, k, cp, src), ~Emits(s, k)
  PROVE  Reached(s, D, k - 1, cp, src)
<1>1. \A l \in Int : k - 1 < l /\ l <= k => ~Emits(s, l)
  <2> SUFFICES ASSUME NEW l \in Int, k - 1 < l, l <= k PROVE ~Emits(s, l)
    OBVIOUS
  <2>1. l = k
    OBVIOUS
  <2>2. QED
    BY <2>1
<1>2. QED
  BY <1>1, FrontierMoves

\* A record is taken.
LEMMA RowTaken ==
  ASSUME NEW s, NEW n \in Nat, NEW D \in [1..n -> Int], NEW k \in Int,
         NEW E \in [1..n + 1 -> Int], E[n + 1] = k, \A i \in 1..n : E[i] = D[i],
         NEW cp, NEW src, cp.since \in Nat,
         Exact(s, D, cp, src), Reached(s, D, k, cp, src), Emits(s, k)
  PROVE  Exact(s, E, cp, src) /\ Reached(s, E, k - 1, cp, src)
<1>1. /\ DOMAIN D = 1..n /\ DOMAIN E = 1..n + 1 /\ n + 1 \in 1..n + 1
      /\ \A i \in 1..n + 1 : i \in 1..n \/ i = n + 1
      /\ 1..n \subseteq 1..n + 1
  OBVIOUS
<1>2. \A l : Has(D, l) => Has(E, l)
  BY <1>1 DEF Has
<1>3. Has(E, k)
  BY <1>1 DEF Has
<1>4. \A i \in DOMAIN E : Emits(s, E[i])
  BY <1>1 DEF Exact
<1>5. ASSUME ~cp.cut, NEW l \in 1..Latest(cp.since), Emits(s, l), k - 1 < l PROVE Has(E, l)
  <2>1. l \in Int
    BY Numbering
  <2>2. CASE l = k
    BY <1>3, <2>2
  <2>3. CASE k < l
    BY <1>2, <1>5, <2>3 DEF Reached
  <2>4. QED
    BY <1>5, <2>1, <2>2, <2>3
<1>6. ASSUME ~cp.cut, NEW l \in 1..Latest(cp.since), Emits(s, l), NEW i \in DOMAIN E, E[i] < l
      PROVE Has(E, l)
  <2>1. l \in Int
    BY Numbering
  <2>2. CASE i \in 1..n
    <3>1. i \in DOMAIN D /\ D[i] < l
      BY <1>6, <2>2
    <3>2. Has(D, l)
      BY <1>6, <3>1 DEF Exact
    <3>3. QED
      BY <1>2, <3>2
  <2>3. CASE i = n + 1
    <3>1. k - 1 < l
      BY <1>6, <2>1, <2>3
    <3>2. QED
      BY <1>5, <1>6, <3>1
  <2>4. QED
    BY <1>1, <2>2, <2>3
<1>7. ASSUME Stable(s, cp, src) PROVE \A i \in 1..n : k < D[i] /\ D[i] \in Int
  BY <1>7 DEF Reached
<1>8. ASSUME Stable(s, cp, src), NEW i \in DOMAIN E, NEW j \in DOMAIN E, i < j
      PROVE E[j] < E[i]
  <2>1. i \in 1..n
    BY <1>8
  <2>2. CASE j \in 1..n
    BY <1>8, <2>1, <2>2 DEF Exact
  <2>3. CASE j = n + 1
    BY <1>7, <1>8, <2>1, <2>3
  <2>4. QED
    BY <1>1, <2>2, <2>3
<1>9. ASSUME Stable(s, cp, src), NEW i \in DOMAIN E PROVE k - 1 < E[i]
  <2>1. CASE i \in 1..n
    <3>1. k < D[i] /\ D[i] \in Int /\ E[i] = D[i]
      BY <1>7, <1>9, <2>1
    <3>2. QED
      BY <3>1
  <2>2. CASE i = n + 1
    BY <2>2
  <2>3. QED
    BY <1>1, <2>1, <2>2
<1>10. Exact(s, E, cp, src)
  BY <1>4, <1>6, <1>8 DEF Exact
<1>11. Reached(s, E, k - 1, cp, src)
  BY <1>5, <1>9 DEF Reached
<1>12. QED
  BY <1>10, <1>11

\* A walk that has come to the end of the numbers has nothing left.
LEMMA NothingLeft ==
  ASSUME NEW s, NEW D, NEW cp, NEW src, cp.since \in Nat,
         ~cp.cut /\ ~StopsEarly(s) => Reached(s, D, 0, cp, src)
  PROVE  Ended(s, D, cp)
BY Numbering DEF Ended, Reached

-----------------------------------------------------------------------------
(* Rows and batches.                                                       *)

LEMMA TakenRows ==
  ASSUME NEW d, NEW cp, cp.records \in Nat, NEW b \in Seq(Int),
         \A i \in 1..cp.records : d[i] \in Int
  PROVE  /\ cp.records + Len(b) \in Nat
         /\ Taken(d, cp, b) \in [1..cp.records + Len(b) -> Int]
         /\ \A i \in 1..cp.records + Len(b) :
              Taken(d, cp, b)[i] = IF i <= cp.records THEN d[i] ELSE b[i - cp.records]
<1> DEFINE n == cp.records
           m == Len(b)
<1>1. n \in Nat /\ m \in Nat /\ b \in [1..m -> Int] /\ Taken(d, cp, b) =
        [i \in 1..n + m |-> IF i <= n THEN d[i] ELSE b[i - n]]
  BY DEF Taken
<1> HIDE DEF m
<1>2. ASSUME NEW i \in 1..n + m PROVE (IF i <= n THEN d[i] ELSE b[i - n]) \in Int
  <2>1. CASE i <= n
    <3>1. i \in 1..n
      BY <1>1, <2>1
    <3>2. QED
      BY <2>1, <3>1
  <2>2. CASE ~(i <= n)
    <3>1. i - n \in 1..m
      BY <1>1, <2>2
    <3>2. QED
      BY <1>1, <2>2, <3>1
  <2>3. QED
    BY <2>1, <2>2
<1>3. QED
  BY <1>1, <1>2 DEF m

LEMMA TakenNone ==
  ASSUME NEW d, NEW cp, cp.records \in Nat
  PROVE  Taken(d, cp, <<>>) = Prefix(d, cp.records)
BY DEF Taken, Prefix

\* E is D with one row more.
OneMore(D, E, n, k) ==
  n \in Nat /\ E \in [1..n + 1 -> Int] /\ E[n + 1] = k /\ \A i \in 1..n : E[i] = D[i]

LEMMA TakenMore ==
  ASSUME NEW d, NEW cp, cp.records \in Nat, NEW b \in Seq(Int), NEW k \in Int,
         \A i \in 1..cp.records : d[i] \in Int
  PROVE  OneMore(Taken(d, cp, b), Taken(d, cp, Append(b, k)), cp.records + Len(b), k)
<1>a. ASSUME NEW x \in Seq(Int)
      PROVE  /\ Taken(d, cp, x) \in [1..cp.records + Len(x) -> Int]
             /\ \A i \in 1..cp.records + Len(x) :
                  Taken(d, cp, x)[i] = IF i <= cp.records THEN d[i] ELSE x[i - cp.records]
  BY TakenRows, ZenonT(60)
<1> DEFINE r == cp.records
           m == Len(b)
           e == Append(b, k)
           D == Taken(d, cp, b)
           E == Taken(d, cp, e)
<1>1. /\ r \in Nat /\ m \in Nat /\ e \in Seq(Int) /\ Len(e) = m + 1
      /\ e[m + 1] = k /\ \A i \in 1..m : e[i] = b[i]
  OBVIOUS
<1>2. /\ D \in [1..r + m -> Int]
      /\ \A i \in 1..r + m : D[i] = IF i <= r THEN d[i] ELSE b[i - r]
  BY <1>a
<1>3. /\ E \in [1..r + (m + 1) -> Int]
      /\ \A i \in 1..r + (m + 1) : E[i] = IF i <= r THEN d[i] ELSE e[i - r]
  <2>1. e \in Seq(Int) /\ Len(e) = m + 1
    BY <1>1
  <2> HIDE DEF e, m
  <2>2. /\ E \in [1..r + Len(e) -> Int]
        /\ \A i \in 1..r + Len(e) : E[i] = IF i <= r THEN d[i] ELSE e[i - r]
    BY <1>a, <2>1
  <2>3. QED
    BY <2>1, <2>2
<1> HIDE DEF D, E, e, m, r
<1>4. r + (m + 1) = (r + m) + 1 /\ r + m \in Nat
  BY <1>1
<1>5. E[(r + m) + 1] = k
  <2>1. (r + m) + 1 \in 1..r + (m + 1) /\ ~((r + m) + 1 <= r) /\ ((r + m) + 1) - r = m + 1
    BY <1>1
  <2>2. QED
    BY <1>1, <1>3, <2>1
<1>6. ASSUME NEW i \in 1..r + m PROVE E[i] = D[i]
  <2>1. i \in 1..r + (m + 1)
    BY <1>1
  <2>2. CASE i <= r
    BY <1>2, <1>3, <2>1, <2>2
  <2>3. CASE ~(i <= r)
    <3>1. i - r \in 1..m
      BY <1>1, <2>3
    <3>2. QED
      BY <1>1, <1>2, <1>3, <2>1, <2>3, <3>1
  <2>4. QED
    BY <2>2, <2>3
<1>7. QED
  BY <1>1, <1>2, <1>3, <1>4, <1>5, <1>6 DEF D, E, e, m, r, OneMore

LEMMA BatchMore ==
  ASSUME NEW b \in Seq(Int), NEW k \in Int
  PROVE  Append(b, k) \in Seq(Int) /\ Append(b, k) # <<>>
<1>1. Append(b, k) \in Seq(Int) /\ Len(Append(b, k)) # Len(<<>>)
  OBVIOUS
<1>2. QED
  BY <1>1

\* Rows that stay are the rows that a checkpoint counts.
LEMMA SamePrefix ==
  ASSUME NEW d, NEW e, NEW n \in Nat, \A i \in 1..n : e[i] = d[i]
  PROVE  Prefix(e, n) = Prefix(d, n)
BY DEF Prefix

LEMMA SameTaken ==
  ASSUME NEW d, NEW e, NEW cp, NEW b, cp.records \in Nat, \A i \in 1..cp.records : e[i] = d[i],
         Len(b) \in Nat
  PROVE  Taken(e, cp, b) = Taken(d, cp, b)
<1>1. \A i \in 1..cp.records + Len(b) :
        (IF i <= cp.records THEN e[i] ELSE b[i - cp.records])
          = (IF i <= cp.records THEN d[i] ELSE b[i - cp.records])
  <2> SUFFICES ASSUME NEW i \in 1..cp.records + Len(b), i <= cp.records PROVE e[i] = d[i]
    OBVIOUS
  <2>1. i \in 1..cp.records
    OBVIOUS
  <2>2. QED
    BY <2>1
<1>2. QED
  BY <1>1 DEF Taken

-----------------------------------------------------------------------------
(* The frontier of a page, of a mark and of a new checkpoint.              *)

LEMMA ConnectorType ==
  ASSUME TypeOK
  PROVE  c \in Connectors /\ run \in RunRecord /\ source \in Nat
BY CollectorAssumption DEF TypeOK, c

\* A page that is read goes on from the frontier of the token, in the source as it is now.
LEMMA PageGoesOn ==
  ASSUME NEW s \in Connectors, NEW at \in Int, NEW off \in Int, NEW src \in Nat,
         NEW cp, cp.since \in Nat, NEW w \in cp.since..src, NEW F \in Nat,
         Names(s, at, off, w, F),
         NEW n \in Nat, NEW D \in [1..n -> Int], Reached(s, D, F, cp, src),
         s \in Files => w = src \/ n = 0,
         NEW page \in PageRecord, page.from = Read(s, at, src).from,
         page.from <= page.to + 1, page.to <= Read(s, at, src).to
  PROVE  /\ ResumeAt(s, page, off, src) \in page.from..page.to + 1
         /\ page.to = Read(s, at, src).to \/ ResumeAt(s, page, off, src) <= page.to
              => Reached(s, D, ItemAt(ResumeAt(s, page, off, src), src), cp, src)
<1> DEFINE j == ResumeAt(s, page, off, src)
           G == ItemAt(j, src)
<1>0. w \in Nat /\ w <= src
  OBVIOUS
<1>1. /\ j \in page.from..page.to + 1
      /\ \A k \in Int : G < k /\ k <= F => Outcome(s, k) = "unlisted"
      /\ w = src /\ (j <= page.to \/ page.to = Read(s, at, src).to) => G <= F
  BY <1>0, Resume
<1>2. G \in Int
  BY <1>1, Numbering DEF PageRecord
<1> HIDE DEF j, G
<1>3. \A k \in Int : G < k /\ k <= F => ~Emits(s, k)
  BY <1>1 DEF Emits
<1>4. ASSUME Stable(s, cp, src) PROVE w = src \/ n = 0
  BY <1>0, <1>4 DEF Stable
<1>5. ASSUME page.to = Read(s, at, src).to \/ j <= page.to
      PROVE  Reached(s, D, G, cp, src)
  <2>1. Stable(s, cp, src) => G <= F \/ n = 0
    BY <1>1, <1>4, <1>5
  <2>2. F \in Int
    OBVIOUS
  <2>3. QED
    BY <1>2, <1>3, <2>1, <2>2, FrontierMoves
<1>6. QED
  BY <1>1, <1>5 DEF j, G

\* The mark that is made of the entry at hand names the frontier behind it.
LEMMA MarkNames ==
  ASSUME NEW s \in Connectors, NEW at \in Int, NEW v \in Nat, 0 <= First(s, at, v),
         NEW page \in PageRecord, page.from = Read(s, at, v).from,
         page.to <= Read(s, at, v).to, NEW i \in page.from..page.to
  PROVE  /\ ItemAt(i, v) - 1 \in Nat /\ ItemAt(i + 1, v) = ItemAt(i, v) - 1
         /\ ItemAt(i, v) \in Int
         /\ Names(s, at, Listed(s, page.from, i, v), v, ItemAt(i, v) - 1)
<1> DEFINE G == ItemAt(i, v)
           H == First(s, at, v)
           p == Read(s, at, v)
<1>1. /\ page.from \in Int /\ page.to \in Int /\ p.to \in Int /\ p.to <= Latest(v)
      /\ Latest(v) \in Nat /\ i \in Int
  BY PageShape, Numbering DEF PageRecord
<1>2. H = Latest(v) + 1 - page.from /\ After(s, at, v) = Latest(v) - p.to
  BY FirstOf
<1>3. G = Latest(v) + 1 - i /\ ItemAt(i + 1, v) = Latest(v) + 1 - (i + 1)
        /\ ItemAt(page.from, v) = Latest(v) + 1 - page.from
  <2>1. i + 1 \in Int
    BY <1>1
  <2>2. QED
    BY <1>1, <2>1, Numbering
<1>4. Listed(s, page.from, i, v) = Cardinality(Counts(s, G, H))
  <2>1. Listed(s, page.from, i, v) = Cardinality(Counts(s, ItemAt(i, v), ItemAt(page.from, v)))
    BY <1>1, ListedCounts
  <2>2. QED
    BY <1>2, <1>3, <2>1
<1> HIDE DEF G, H, p
<1>5. G - 1 \in Nat /\ ItemAt(i + 1, v) = G - 1 /\ G \in Int /\ G - 1 <= H
        /\ After(s, at, v) <= G - 1
  <2>1. i <= page.to /\ page.from <= i /\ page.to <= p.to
    BY DEF p
  <2>2. QED
    BY <1>1, <1>2, <1>3, <2>1
<1>6. (G - 1) + 1 = G
  BY <1>5
<1>7. Names(s, at, Listed(s, page.from, i, v), v, G - 1)
  BY <1>4, <1>5, <1>6 DEF Names, H
<1>8. QED
  BY <1>5, <1>7 DEF G

\* The token of a page that follows, with no offset, names the frontier where a page ends.
LEMMA NextNames ==
  ASSUME NEW s \in Connectors, NEW at \in Int, NEW v \in Nat, First(s, at, v) \in Nat
  PROVE  Names(s, at, 0, v, First(s, at, v))
<1> DEFINE H == First(s, at, v)
<1>1. After(s, at, v) <= H
  BY PageShape
<1> HIDE DEF H
<1>2. Cardinality(Counts(s, H + 1, H)) = 0
  <2>1. H \in Int /\ H + 1 \in Int /\ H < H + 1
    BY DEF H
  <2>2. QED
    BY <2>1, NoneCounted
<1>3. QED
  BY <1>1, <1>2 DEF Names, H

LEMMA NewIsExact ==
  ASSUME NEW s \in Connectors, NEW src \in Nat, NEW D, DOMAIN D = {}
  PROVE  CheckpointIsExact(s, NewCheckpoint(src), D, src)
<1> DEFINE cp == NewCheckpoint(src)
<1>1. cp.records = 0 /\ cp.since = src /\ cp.at = 0 /\ cp.off = 0 /\ ~cp.complete
  BY DEF NewCheckpoint
<1>2. Latest(src) \in Nat /\ First(s, 0, src) = Latest(src)
  BY Numbering, FirstPage
<1> HIDE DEF cp
<1>3. About(cp) = src /\ About(cp) \in cp.since..src
  BY <1>1 DEF About
<1>4. Names(s, cp.at, cp.off, About(cp), Latest(src))
  <2>1. 0 \in Int /\ First(s, 0, src) \in Nat
    BY <1>2
  <2>2. Names(s, 0, 0, src, First(s, 0, src))
    BY <2>1, NextNames
  <2>3. QED
    BY <1>1, <1>2, <1>3, <2>2
<1>5. Exact(s, D, cp, src)
  BY DEF Exact
<1>6. Reached(s, D, Latest(src), cp, src)
  <2>1. \A k \in 1..Latest(cp.since) : ~(Latest(src) < k)
    BY <1>1, <1>2
  <2>2. QED
    BY <2>1 DEF Reached
<1>7. QED
  BY <1>1, <1>2, <1>3, <1>4, <1>5, <1>6 DEF CheckpointIsExact, cp

\* Checkpoints stay exact while the source grows, and when a stream is known to be cut.
LEMMA CheckpointStays ==
  ASSUME NEW s, NEW cp \in CheckpointRecord, NEW cq \in CheckpointRecord, NEW D,
         NEW src \in Nat, NEW srd \in Nat, src <= srd,
         cq.since = cp.since, cp.cut => cq.cut, cq.records = cp.records, cq.at = cp.at,
         cq.off = cp.off, cq.version = cp.version, cq.complete = cp.complete,
         CheckpointIsExact(s, cp, D, src)
  PROVE  CheckpointIsExact(s, cq, D, srd)
<1>1. cp.since \in Nat /\ cp.version \in Nat /\ About(cp) \in Nat /\ About(cq) = About(cp)
  BY DEF CheckpointRecord, About
<1>2. About(cp) \in cp.since..src
  BY DEF CheckpointIsExact
<1>3. cp.since <= src /\ About(cq) \in cq.since..srd
  BY <1>1, <1>2
<1>4. Exact(s, D, cq, srd)
  BY <1>1, <1>3, StillTrue DEF CheckpointIsExact
<1>5. CASE cp.complete
  <2>1. Ended(s, D, cp)
    BY <1>5 DEF CheckpointIsExact
  <2>2. Ended(s, D, cq)
    BY <1>1, <1>3, <2>1, StillTrue
  <2>3. QED
    BY <1>3, <1>4, <1>5, <2>2 DEF CheckpointIsExact
<1>6. CASE ~cp.complete
  <2>1. PICK F \in Nat : Names(s, cp.at, cp.off, About(cp), F) /\ Reached(s, D, F, cp, src)
    BY <1>6 DEF CheckpointIsExact
  <2>2. Reached(s, D, F, cq, srd)
    BY <1>1, <1>3, <2>1, StillTrue
  <2>3. QED
    BY <1>1, <1>3, <1>4, <1>6, <2>1, <2>2 DEF CheckpointIsExact
<1>7. QED
  BY <1>5, <1>6

-----------------------------------------------------------------------------
(* What the actions leave as it is.                                        *)

LEMMA RowsAreTyped ==
  ASSUME IInv, run.pc # "idle"
  PROVE  LET n == run.cp.records + Len(run.batch)
         IN  /\ n \in Nat /\ Taken(data, run.cp, run.batch) \in [1..n -> Int]
             /\ \A i \in 1..run.cp.records : data[i] \in Int
             /\ run.cp \in CheckpointRecord /\ run.cp.records \in Nat /\ run.cp.since \in Nat
             /\ run.batch \in Seq(Int) /\ Len(run.batch) \in Nat
<1>1. run.cp \in CheckpointRecord /\ run.batch \in Seq(Int)
  BY DEF IInv, TypeOK, RunRecord
<1>2. run.cp.records \in Nat /\ run.cp.since \in Nat
  BY <1>1 DEF CheckpointRecord
<1>3. \A i \in 1..run.cp.records : data[i] \in Int
  BY CountedIsThere DEF IInv, TypeOK
<1>4. /\ run.cp.records + Len(run.batch) \in Nat
      /\ Taken(data, run.cp, run.batch) \in [1..run.cp.records + Len(run.batch) -> Int]
  BY <1>1, <1>2, <1>3, TakenRows, ZenonT(60)
<1>5. QED
  BY <1>1, <1>2, <1>3, <1>4

LEMMA RowsOfRun ==
  ASSUME IInv, run.pc # "idle", UNCHANGED saved, RowsStay
  PROVE  \A i \in 1..run.cp.records : data'[i] = data[i]
<1>1. CASE saved.there
  BY <1>1 DEF IInv, CheckpointOK, RowsStay
<1>2. CASE ~saved.there
  <2>1. run.cp.records = 0
    BY <1>2 DEF IInv, CheckpointOK
  <2>2. QED
    BY <2>1
<1>3. QED
  BY <1>1, <1>2

LEMMA SavedStays ==
  ASSUME IInv, ExactInv, RowsStay, UNCHANGED <<job, saved>>, source' \in Nat, source <= source'
  PROVE  saved'.there => CheckpointIsExact(c', saved', Prefix(data', saved'.records), source')
<1> SUFFICES ASSUME saved.there
             PROVE  CheckpointIsExact(c, saved, Prefix(data', saved.records), source')
  BY DEF c
<1>1. saved \in CheckpointRecord /\ saved.records \in Nat /\ source \in Nat
  BY DEF IInv, TypeOK, CheckpointRecord
<1>2. Prefix(data', saved.records) = Prefix(data, saved.records)
  <2>1. \A i \in 1..saved.records : data'[i] = data[i]
    BY DEF RowsStay
  <2>2. QED
    BY <1>1, <2>1, SamePrefix
<1>3. CheckpointIsExact(c, saved, Prefix(data, saved.records), source)
  BY DEF ExactInv
<1>4. CheckpointIsExact(c, saved, Prefix(data, saved.records), source')
  BY <1>1, <1>3, CheckpointStays
<1>5. QED
  BY <1>2, <1>4

\* The invocation is over.
LEMMA OverExact ==
  ASSUME IInv, ExactInv, RowsStay, UNCHANGED <<job, source, saved>>, run' = IdleRun
  PROVE  ExactInv'
<1>1. source' \in Nat /\ source <= source'
  BY DEF IInv, TypeOK
<1>2. saved'.there => CheckpointIsExact(c', saved', Prefix(data', saved'.records), source')
  BY <1>1, SavedStays
<1>3. RunIsExact(c', run', data', source')
  BY IdleType DEF RunIsExact
<1>4. QED
  BY <1>2, <1>3 DEF ExactInv

\* The invocation goes on.
LEMMA WalkExact ==
  ASSUME IInv, ExactInv, RunOnly, RunIsExact(c, run', data, source)
  PROVE  ExactInv'
<1>1. /\ UNCHANGED <<job, source, saved, data>> /\ c' = c
      /\ source' \in Nat /\ source <= source'
  BY DEF RunOnly, c, IInv, TypeOK
<1>2. saved'.there => CheckpointIsExact(c', saved', Prefix(data', saved'.records), source')
  BY <1>1, NothingWritten, SavedStays
<1>3. QED
  BY <1>1, <1>2 DEF ExactInv

-----------------------------------------------------------------------------
(* One lemma for each action: the second invariant.                        *)

\* An invocation that has not asked its connector yet.
LEMMA QuietExact ==
  ASSUME NEW s, NEW r, NEW d, NEW src, r.pc \in {"prepare", "retain"}, r.batch = <<>>,
         ~r.exhausted, ~r.closing, CheckpointIsExact(s, r.cp, Prefix(d, r.cp.records), src)
  PROVE  RunIsExact(s, r, d, src)
BY DEF RunIsExact, Shape, Under

LEMMA StartExact ==
  ASSUME IInv, ExactInv, NEW limit \in Limits, NEW fresh \in BOOLEAN, Start(limit, fresh)
  PROVE  ExactInv'
<1> DEFINE cp == IF saved'.there THEN saved ELSE NewCheckpoint(source)
<1>1. /\ saved' = saved \/ saved' = Absent
      /\ UNCHANGED <<job, source, data>> /\ c' = c
      /\ run' = [IdleRun EXCEPT !.pc = "prepare", !.limit = limit, !.cp = cp]
      /\ source \in Nat /\ source' \in Nat /\ source <= source'
  BY DEF Start, c, IInv, TypeOK
<1>2. saved'.there => CheckpointIsExact(c', saved', Prefix(data', saved'.records), source')
  <2>1. CASE saved' = Absent
    BY <2>1, AbsentType
  <2>2. CASE saved' = saved
    BY <1>1, <2>2, StartKeeps, SavedStays
  <2>3. QED
    BY <1>1, <2>1, <2>2
<1>3. CheckpointIsExact(c, cp, Prefix(data, cp.records), source)
  <2>1. CASE saved'.there
    BY <1>1, <1>2, <2>1, AbsentType
  <2>2. CASE ~saved'.there
    <3>1. cp = NewCheckpoint(source) /\ cp.records = 0
      BY <1>1, <2>2, NewType
    <3>2. DOMAIN Prefix(data, cp.records) = {}
      BY <3>1 DEF Prefix
    <3>3. QED
      BY <1>1, <3>1, <3>2, ConnectorType, NewIsExact DEF IInv
  <2>3. QED
    BY <2>1, <2>2
<1> HIDE DEF cp
<1>4. run'.pc = "prepare" /\ run'.cp = cp /\ run'.batch = <<>> /\ ~run'.exhausted /\ ~run'.closing
  BY <1>1 DEF IdleRun
<1>5. RunIsExact(c, run', data, source)
  <2>1. /\ run'.pc \in {"prepare", "retain"} /\ run'.batch = <<>> /\ ~run'.exhausted
        /\ ~run'.closing
        /\ CheckpointIsExact(c, run'.cp, Prefix(data, run'.cp.records), source)
    BY <1>3, <1>4
  <2>2. QED
    BY <2>1, QuietExact
<1>6. QED
  BY <1>1, <1>2, <1>5 DEF ExactInv

LEMMA PrepareExact ==
  ASSUME IInv, ExactInv, run.pc \in {"prepare", "retain"}, UNCHANGED <<job, source, saved>>,
         RowsStay, run' = IdleRun \/ run' = run \/ Goto("retain") \/ Prepared
  PROVE  ExactInv'
<1> DEFINE cp == run.cp
<1>1. /\ c' = c /\ source' = source /\ source \in Nat /\ source' \in Nat /\ source <= source'
      /\ c \in Connectors /\ run \in RunRecord /\ run.pc # "idle"
      /\ cp.records \in Nat /\ cp \in CheckpointRecord /\ cp.complete \in BOOLEAN
  BY ConnectorType, RowsAreTyped DEF c, IInv, CheckpointRecord
<1>2. saved'.there => CheckpointIsExact(c', saved', Prefix(data', saved'.records), source')
  BY <1>1, SavedStays
<1>3. /\ CheckpointIsExact(c, cp, Prefix(data, cp.records), source)
      /\ run.batch = <<>> /\ ~run.exhausted /\ ~run.closing
  BY <1>1 DEF ExactInv, RunIsExact, Shape
<1>4. Prefix(data', cp.records) = Prefix(data, cp.records)
  <2>1. \A i \in 1..cp.records : data'[i] = data[i]
    BY <1>1, RowsOfRun
  <2>2. QED
    BY <1>1, <2>1, SamePrefix
<1> HIDE DEF cp
<1>5. CASE run' = IdleRun
  BY <1>5, OverExact
<1>6. CASE run' = run \/ Goto("retain")
  <2>1. /\ run'.pc \in {"prepare", "retain"} /\ run'.cp = cp /\ run'.batch = <<>>
        /\ ~run'.exhausted /\ ~run'.closing
    BY <1>1, <1>3, <1>6 DEF Goto, RunRecord, cp
  <2>2. RunIsExact(c', run', data', source')
    BY <1>1, <1>3, <1>4, <2>1, QuietExact
  <2>3. QED
    BY <1>2, <2>2 DEF ExactInv
<1>7. CASE Prepared /\ run' # IdleRun
  <2>1. /\ run'.pc = "fetch" /\ run'.cp = cp /\ run'.batch = <<>> /\ run'.at = cp.at
        /\ run'.off = cp.off /\ ~run'.exhausted /\ ~run'.closing /\ ~cp.complete
    BY <1>1, <1>3, <1>7 DEF Prepared, RunRecord, cp
  <2>2. Taken(data', cp, <<>>) = Prefix(data, cp.records)
    BY <1>1, <1>4, TakenNone
  <2> DEFINE D == Prefix(data, cp.records)
  <2>3. PICK F \in Nat : /\ Names(c, cp.at, cp.off, About(cp), F)
                         /\ Reached(c, D, F, cp, source)
    BY <1>3, <2>1 DEF CheckpointIsExact
  <2>4. About(cp) \in cp.since..source /\ Exact(c, D, cp, source)
    BY <1>3 DEF CheckpointIsExact
  <2>5. Between(c, run', D, source)
    <3> HIDE DEF D
    <3>1. QED
      BY <2>1, <2>3, <2>4 DEF Between
  <2>6. RunIsExact(c, run', data', source)
    BY <1>3, <1>4, <2>1, <2>2, <2>5 DEF RunIsExact, Shape, Under
  <2>7. QED
    BY <1>1, <1>2, <2>6 DEF ExactInv
<1>8. QED
  BY <1>5, <1>6, <1>7

\* The walk ends before its source does.
LEMMA FinishEarly ==
  ASSUME NEW s, NEW r \in RunRecord, NEW d, NEW src, RunIsExact(s, r, d, src),
         r.pc \in {"fetch", "take"}
  PROVE  RunIsExact(s, [r EXCEPT !.pc = "finish"], d, src)
<1> DEFINE q == [r EXCEPT !.pc = "finish"]
<1>1. /\ q.pc = "finish" /\ q.cp = r.cp /\ q.batch = r.batch /\ q.mark = r.mark
      /\ q.exhausted = r.exhausted /\ q.closing = r.closing
  BY DEF RunRecord
<1>2. /\ CheckpointIsExact(s, r.cp, Prefix(d, r.cp.records), src)
      /\ ~r.exhausted /\ ~r.closing
      /\ r.batch # <<>> => Marked(s, r, Taken(d, r.cp, r.batch), src)
  BY DEF RunIsExact, Shape
<1> HIDE DEF q
<1>3. r.batch # <<>> => Marked(s, q, Taken(d, r.cp, r.batch), src)
  BY <1>1, <1>2 DEF Marked
<1>4. RunIsExact(s, q, d, src)
  BY <1>1, <1>2, <1>3 DEF RunIsExact, Shape, Under
<1>5. QED
  BY <1>4 DEF q

\* A page is opened, whole or not.
LEMMA OpenedExact ==
  ASSUME NEW s \in Connectors, NEW r \in RunRecord, NEW q \in RunRecord, NEW d, NEW src \in Nat,
         RunIsExact(s, r, d, src), r.pc = "fetch",
         NEW n \in Nat, Taken(d, r.cp, r.batch) \in [1..n -> Int],
         n = r.cp.records + Len(r.batch),
         s \in Files /\ r.cp.records > 0 => r.cp.version = src,
         q.pc = "take", q.at = r.at, q.version = src, q.batch = r.batch, q.mark = r.mark,
         q.closing = r.closing, q.exhausted = r.exhausted,
         q.index = ResumeAt(s, q.page, r.off, src),
         q.cp.since = r.cp.since, r.cp.cut => q.cp.cut, q.cp.records = r.cp.records,
         q.cp.at = r.cp.at, q.cp.off = r.cp.off, q.cp.version = r.cp.version,
         q.cp.complete = r.cp.complete,
         q.page.from = Read(s, r.at, src).from, q.page.to <= Read(s, r.at, src).to,
         q.page.from <= q.page.to + 1, s \in Files => q.page.last,
         Whole(s, q) => q.page = Read(s, r.at, src)
  PROVE  RunIsExact(s, q, d, src)
<1> DEFINE D == Taken(d, r.cp, r.batch)
<1>1. /\ r.cp \in CheckpointRecord /\ q.cp \in CheckpointRecord /\ r.cp.since \in Nat
      /\ r.cp.records \in Nat /\ r.at \in Int /\ r.off \in Int /\ q.page \in PageRecord
      /\ q.page.to \in Int
  BY DEF RunRecord, CheckpointRecord, PageRecord
<1>2. /\ CheckpointIsExact(s, r.cp, Prefix(d, r.cp.records), src)
      /\ ~r.exhausted /\ ~r.closing /\ Between(s, r, D, src)
      /\ r.batch # <<>> => Marked(s, r, D, src)
  BY DEF RunIsExact, Shape
<1>3. CheckpointIsExact(s, q.cp, Prefix(d, q.cp.records), src)
  BY <1>1, <1>2, CheckpointStays
<1>4. Taken(d, q.cp, q.batch) = D
  BY DEF Taken
<1> HIDE DEF D
<1>5. PICK w \in r.cp.since..src, F \in Nat :
        /\ Names(s, r.at, r.off, w, F)
        /\ Exact(s, D, r.cp, src) /\ Reached(s, D, F, r.cp, src)
        /\ s \in Files => r.batch = <<>> /\ w = About(r.cp)
  BY <1>2 DEF Between
<1>6. w \in Nat /\ w <= src /\ r.cp.since <= src
  BY <1>1, <1>5
<1>7. s \in Files => w = src \/ n = 0
  <2> SUFFICES ASSUME s \in Files, r.cp.records # 0 PROVE w = src
    BY <1>1, <1>5
  <2>1. r.cp.records > 0
    BY <1>1
  <2>2. QED
    BY <1>5, <2>1 DEF About
<1>8. 0 <= First(s, r.at, src)
  <2>1. First(s, r.at, w) <= First(s, r.at, src) /\ First(s, r.at, w) \in Int
          /\ First(s, r.at, src) \in Int
    BY <1>1, <1>6, FirstMoves
  <2>2. F <= First(s, r.at, w)
    BY <1>5 DEF Names
  <2>3. QED
    BY <2>1, <2>2
<1>9. /\ q.index \in q.page.from..q.page.to + 1
      /\ q.page.to = Read(s, r.at, src).to \/ q.index <= q.page.to
           => Reached(s, D, ItemAt(q.index, src), r.cp, src)
  <2>1. D \in [1..n -> Int]
    BY DEF D
  <2>2. /\ Names(s, r.at, r.off, w, F) /\ Reached(s, D, F, r.cp, src)
        /\ w \in r.cp.since..src /\ r.cp.since \in Nat /\ r.at \in Int /\ r.off \in Int
        /\ q.page \in PageRecord /\ q.page.from = Read(s, r.at, src).from
        /\ q.page.from <= q.page.to + 1 /\ q.page.to <= Read(s, r.at, src).to
    BY <1>1, <1>5
  <2>3. /\ ResumeAt(s, q.page, r.off, src) \in q.page.from..q.page.to + 1
        /\ q.page.to = Read(s, r.at, src).to \/ ResumeAt(s, q.page, r.off, src) <= q.page.to
             => Reached(s, D, ItemAt(ResumeAt(s, q.page, r.off, src), src), r.cp, src)
    BY <1>7, <2>1, <2>2, PageGoesOn, Z3T(60)
  <2>4. QED
    BY <2>3
<1>s. /\ Exact(s, D, r.cp, src) => Exact(s, D, q.cp, src)
      /\ \A G : Reached(s, D, G, r.cp, src) => Reached(s, D, G, q.cp, src)
  <2>1. src <= src
    OBVIOUS
  <2>2. QED
    BY <1>1, <1>6, <2>1, StillTrue, ZenonT(60)
<1>10. Exact(s, D, q.cp, src)
  BY <1>5, <1>s
<1>11. Whole(s, q) \/ q.index <= q.page.to => Reached(s, D, ItemAt(q.index, src), q.cp, src)
  <2> SUFFICES ASSUME Whole(s, q) \/ q.index <= q.page.to
               PROVE  Reached(s, D, ItemAt(q.index, src), q.cp, src)
    OBVIOUS
  <2>1. Reached(s, D, ItemAt(q.index, src), r.cp, src)
    BY <1>9
  <2>2. QED
    BY <1>s, <2>1, Zenon
<1>12. PageIsRead(s, q, src)
  <2>1. q.version \in q.cp.since..src
    BY <1>1, <1>6
  <2>2. QED
    BY <1>8, <1>9, <2>1 DEF PageIsRead
<1>13. UnderWay(s, q, D, src)
  BY <1>10, <1>11, <1>12 DEF UnderWay
<1>14. ASSUME q.batch # <<>> PROVE Marked(s, q, D, src)
  <2>1. Marked(s, r, D, src)
    BY <1>2, <1>14
  <2>2. PICK G \in Nat : /\ Names(s, r.mark.at, r.mark.off, r.mark.version, G)
                         /\ Reached(s, D, G, r.cp, src)
    BY <2>1 DEF Marked
  <2>3. Reached(s, D, G, q.cp, src)
    BY <1>s, <2>2, Zenon
  <2>4. q.mark.version \in q.cp.since..src
    BY <2>1 DEF Marked
  <2>5. QED
    BY <1>10, <2>2, <2>3, <2>4 DEF Marked
<1>15. QED
  BY <1>2, <1>3, <1>4, <1>13, <1>14 DEF RunIsExact, Shape, Under

LEMMA OpenedRun ==
  ASSUME IInv, run.pc = "fetch", NEW page \in PageRecord
  PROVE  LET q == Opened(page)
         IN  /\ q \in RunRecord /\ q.pc = "take" /\ q.at = run.at /\ q.version = source
             /\ q.batch = run.batch /\ q.mark = run.mark /\ q.closing = run.closing
             /\ q.exhausted = run.exhausted /\ q.cp = run.cp /\ q.page = page
             /\ q.index = ResumeAt(c, page, run.off, source)
<1>1. run \in RunRecord /\ Opened(page) \in RunRecord
  BY OpenedType DEF IInv, TypeOK
<1>2. QED
  BY <1>1 DEF Opened, RunRecord

\* The page that a token stands for begins at a number that there is, or that is left.
LEMMA TokenIsRead ==
  ASSUME IInv, ExactInv, run.pc = "fetch"
  PROVE  /\ 0 <= First(c, run.at, source) /\ run.at \in Int
         /\ Read(c, run.at, source) \in PageRecord
         /\ Read(c, run.at, source).from <= Read(c, run.at, source).to + 1
         /\ Read(c, run.at, source).to <= Latest(source)
         /\ RunIsExact(c, run, data, source)
<1>1. /\ c \in Connectors /\ source \in Nat /\ run.at \in Int /\ run.cp.since \in Nat
      /\ RunIsExact(c, run, data, source)
  <2>1. TypeOK /\ run.pc # "idle"
    BY DEF IInv
  <2>2. c \in Connectors /\ source \in Nat /\ run \in RunRecord
    BY <2>1, ConnectorType
  <2>3. run.at \in Int
    BY <2>2 DEF RunRecord
  <2>4. run.cp.since \in Nat
    BY <2>1, RowsAreTyped
  <2>5. QED
    BY <2>2, <2>3, <2>4 DEF ExactInv
<1>2. PICK w \in run.cp.since..source, F \in Nat : Names(c, run.at, run.off, w, F)
  BY <1>1 DEF RunIsExact, Between
<1>3. w \in Nat /\ w <= source
  BY <1>1, <1>2
<1>4. First(c, run.at, w) <= First(c, run.at, source) /\ First(c, run.at, w) \in Int
        /\ First(c, run.at, source) \in Int
  BY <1>1, <1>3, FirstMoves
<1>5. F <= First(c, run.at, w)
  BY <1>2 DEF Names
<1>6. 0 <= First(c, run.at, source)
  BY <1>4, <1>5
<1>7. QED
  BY <1>1, <1>6, PageShape

LEMMA FetchExact == ASSUME IInv, ExactInv, Fetch PROVE ExactInv'
<1> DEFINE page == Read(c, run.at, source)
<1>1. /\ run.pc = "fetch" /\ RunOnly /\ run \in RunRecord /\ c \in Connectors /\ source \in Nat
      /\ UNCHANGED <<job, source, saved, data>>
  BY ConnectorType DEF Fetch, RunOnly, IInv
<1>2. /\ page \in PageRecord /\ page.from <= page.to + 1 /\ RunIsExact(c, run, data, source)
  BY <1>1, TokenIsRead
<1>3. CASE run' = IdleRun
  BY <1>1, <1>3, NothingWritten, OverExact
<1>4. CASE run' = [run EXCEPT !.pc = "finish"]
  BY <1>1, <1>2, <1>4, FinishEarly, WalkExact
<1>5. CASE run' = Opened(page) /\ ~Changed
  <2> DEFINE q == Opened(page)
             n == run.cp.records + Len(run.batch)
  <2>1. /\ q \in RunRecord /\ q.pc = "take" /\ q.at = run.at /\ q.version = source
        /\ q.batch = run.batch /\ q.mark = run.mark /\ q.closing = run.closing
        /\ q.exhausted = run.exhausted /\ q.cp = run.cp /\ q.page = page
        /\ q.index = ResumeAt(c, page, run.off, source)
    <3> HIDE DEF page
    <3>1. QED
      BY <1>1, <1>2, OpenedRun
  <2>2. n \in Nat /\ Taken(data, run.cp, run.batch) \in [1..n -> Int]
    BY <1>1, RowsAreTyped
  <2>3. c \in Files /\ run.cp.records > 0 => run.cp.version = source
    BY <1>5 DEF Changed
  <2>4. c \in Files => page.last
    BY FileRead DEF Page
  <2>5. page.from = Read(c, run.at, source).from /\ page.to <= Read(c, run.at, source).to
    BY <1>2 DEF PageRecord
  <2>6. page = Read(c, run.at, source)
    OBVIOUS
  <2> HIDE DEF q, n, page
  <2>7. RunIsExact(c, q, data, source)
    BY <1>1, <1>2, <2>1, <2>2, <2>3, <2>4, <2>5, <2>6, OpenedExact DEF n
  <2>8. QED
    BY <1>1, <1>5, <2>7, WalkExact DEF q
<1>6. QED
  BY <1>3, <1>4, <1>5 DEF Fetch, Goto, Raise

LEMMA FetchCutExact == ASSUME IInv, ExactInv, FetchCut PROVE ExactInv'
<1>1. /\ run.pc = "fetch" /\ RunOnly /\ run \in RunRecord /\ c \in Connectors /\ source \in Nat
      /\ c = "sbir" /\ ~Changed /\ Latest(source) \in Nat
  BY ConnectorType, Numbering DEF FetchCut, IInv
<1>2. PICK to \in 0..Latest(source) - 1 :
        run' = [Opened(Page(1, to, 0, TRUE)) EXCEPT !.cp.cut = TRUE]
  BY DEF FetchCut
<1> DEFINE page == Page(1, to, 0, TRUE)
           open == Opened(page)
           q == [open EXCEPT !.cp.cut = TRUE]
           n == run.cp.records + Len(run.batch)
<1>3. c \in Files /\ Read(c, run.at, source) = Page(1, Latest(source), 0, TRUE)
  <2>1. c \in Files
    BY <1>1 DEF Files
  <2>2. QED
    BY <2>1, FileRead
<1>4. /\ page \in PageRecord /\ page.from = 1 /\ page.to = to /\ page.last
      /\ page.from = Read(c, run.at, source).from /\ page.to <= Read(c, run.at, source).to
      /\ page.from <= page.to + 1
  BY <1>1, <1>3 DEF Page, PageRecord
<1> HIDE DEF page
<1>5. /\ open \in RunRecord /\ open.pc = "take" /\ open.at = run.at /\ open.version = source
      /\ open.batch = run.batch /\ open.mark = run.mark /\ open.closing = run.closing
      /\ open.exhausted = run.exhausted /\ open.cp = run.cp /\ open.page = page
      /\ open.index = ResumeAt(c, page, run.off, source)
  BY <1>1, <1>4, OpenedRun
<1> HIDE DEF open
<1>6. /\ q \in RunRecord /\ q.pc = "take" /\ q.at = run.at /\ q.version = source
      /\ q.batch = run.batch /\ q.mark = run.mark /\ q.closing = run.closing
      /\ q.exhausted = run.exhausted /\ q.cp = [run.cp EXCEPT !.cut = TRUE] /\ q.page = page
      /\ q.index = ResumeAt(c, page, run.off, source)
  BY <1>5 DEF RunRecord, CheckpointRecord
<1>7. /\ q.cp.since = run.cp.since /\ q.cp.cut /\ q.cp.records = run.cp.records
      /\ q.cp.at = run.cp.at /\ q.cp.off = run.cp.off /\ q.cp.version = run.cp.version
      /\ q.cp.complete = run.cp.complete
  <2>1. run.cp \in CheckpointRecord
    BY <1>1 DEF RunRecord
  <2> HIDE DEF q
  <2>2. QED
    BY <1>6, <2>1 DEF CheckpointRecord
<1>8. n \in Nat /\ Taken(data, run.cp, run.batch) \in [1..n -> Int]
        /\ RunIsExact(c, run, data, source)
  BY <1>1, RowsAreTyped, TokenIsRead
<1>9. c \in Files /\ run.cp.records > 0 => run.cp.version = source
  BY <1>1 DEF Changed
<1>10. ~Whole(c, q)
  BY <1>3, <1>7 DEF Whole
<1> HIDE DEF q, n
<1>11. RunIsExact(c, q, data, source)
  BY <1>1, <1>4, <1>6, <1>7, <1>8, <1>9, <1>10, OpenedExact DEF n
<1>12. QED
  BY <1>1, <1>2, <1>11, WalkExact DEF q, open, page

\* What is known of an invocation on its way through a page.
LEMMA OnPage ==
  ASSUME IInv, ExactInv, run.pc = "take"
  PROVE  LET D == Taken(data, run.cp, run.batch)
         IN  /\ c \in Connectors /\ run \in RunRecord /\ source \in Nat
             /\ run.cp \in CheckpointRecord /\ run.cp.since \in Nat /\ run.page \in PageRecord
             /\ run.page.from \in Int /\ run.page.to \in Int /\ run.index \in Int
             /\ run.at \in Int /\ run.version \in Nat
             /\ RunIsExact(c, run, data, source)
             /\ CheckpointIsExact(c, run.cp, Prefix(data, run.cp.records), source)
             /\ ~run.exhausted /\ ~run.closing
             /\ run.batch # <<>> => Marked(c, run, D, source)
             /\ PageIsRead(c, run, source) /\ Exact(c, D, run.cp, source)
             /\ (Whole(c, run) \/ run.index <= run.page.to =>
                   Reached(c, D, ItemAt(run.index, run.version), run.cp, source))
<1>1. c \in Connectors /\ run \in RunRecord /\ source \in Nat
  BY ConnectorType DEF IInv
<1>2. /\ run.cp \in CheckpointRecord /\ run.cp.since \in Nat /\ run.page \in PageRecord
      /\ run.index \in Int /\ run.at \in Int /\ run.version \in Nat
  BY <1>1 DEF RunRecord, CheckpointRecord
<1>3. run.page.from \in Int /\ run.page.to \in Int
  BY <1>2 DEF PageRecord
<1>4. /\ RunIsExact(c, run, data, source)
      /\ CheckpointIsExact(c, run.cp, Prefix(data, run.cp.records), source)
      /\ ~run.exhausted /\ ~run.closing
      /\ run.batch # <<>> => Marked(c, run, Taken(data, run.cp, run.batch), source)
      /\ UnderWay(c, run, Taken(data, run.cp, run.batch), source)
  BY DEF ExactInv, RunIsExact, Shape, Under
<1>5. QED
  BY <1>1, <1>2, <1>3, <1>4 DEF UnderWay

LEMMA EndOfPageExact == ASSUME IInv, ExactInv, EndOfPage PROVE ExactInv'
<1> DEFINE D == Taken(data, run.cp, run.batch)
           next == run.page.next
<1>1. run.pc = "take" /\ run.index > run.page.to /\ RunOnly
  BY DEF EndOfPage
<1>2. /\ c \in Connectors /\ run \in RunRecord /\ source \in Nat
      /\ run.cp \in CheckpointRecord /\ run.cp.since \in Nat /\ run.page \in PageRecord
      /\ run.page.from \in Int /\ run.page.to \in Int /\ run.index \in Int
      /\ run.at \in Int /\ run.version \in Nat
      /\ RunIsExact(c, run, data, source)
      /\ CheckpointIsExact(c, run.cp, Prefix(data, run.cp.records), source)
      /\ ~run.exhausted /\ ~run.closing
      /\ run.batch # <<>> => Marked(c, run, D, source)
      /\ PageIsRead(c, run, source) /\ Exact(c, D, run.cp, source)
      /\ (Whole(c, run) \/ run.index <= run.page.to =>
            Reached(c, D, ItemAt(run.index, run.version), run.cp, source))
  BY <1>1, OnPage
<1> HIDE DEF D
<1>3. /\ run.version \in run.cp.since..source /\ 0 <= First(c, run.at, run.version)
      /\ run.index \in run.page.from..run.page.to + 1
      /\ c \in Files => run.page.last
  BY <1>2 DEF PageIsRead
<1>4. run.index = run.page.to + 1
  BY <1>1, <1>2, <1>3
<1>5. ASSUME Whole(c, run)
      PROVE  /\ run.page = Read(c, run.at, run.version)
             /\ Reached(c, D, After(c, run.at, run.version), run.cp, source)
             /\ After(c, run.at, run.version) \in Nat
  <2>1. run.page = Read(c, run.at, run.version)
    BY <1>2, <1>5 DEF PageIsRead
  <2>2. After(c, run.at, run.version) = ItemAt(run.index, run.version)
    BY <1>4, <2>1 DEF After
  <2>3. After(c, run.at, run.version) \in Nat
    BY <1>2, <1>3, PageShape
  <2>4. QED
    BY <1>2, <1>5, <2>1, <2>2, <2>3
<1>6. CASE run' = [run EXCEPT !.pc = "finish"]
  BY <1>1, <1>2, <1>6, FinishEarly, WalkExact
<1>7. CASE run.page.last /\ run' = [run EXCEPT !.pc = "finish", !.exhausted = TRUE]
  <2>1. ~run.cp.cut /\ ~StopsEarly(c) => Reached(c, D, 0, run.cp, source)
    <3> SUFFICES ASSUME ~run.cp.cut, ~StopsEarly(c) PROVE Reached(c, D, 0, run.cp, source)
      OBVIOUS
    <3>1. Whole(c, run)
      BY DEF Whole
    <3>2. After(c, run.at, run.version) = 0
      BY <1>2, <1>3, <1>5, <1>7, <3>1, LastPage
    <3>3. QED
      BY <1>5, <3>1, <3>2
  <2>2. Ended(c, D, run.cp)
    BY <1>2, <2>1, NothingLeft
  <2>3. /\ run'.pc = "finish" /\ run'.cp = run.cp /\ run'.batch = run.batch
        /\ run'.mark = run.mark /\ run'.closing = run.closing
    BY <1>2, <1>7 DEF RunRecord
  <2>4. run.batch # <<>> => Marked(c, run', D, source)
    BY <1>2, <2>3 DEF Marked
  <2>5. RunIsExact(c, run', data, source)
    BY <1>2, <2>2, <2>3, <2>4 DEF RunIsExact, Shape, Under, D
  <2>6. QED
    BY <1>1, <2>5, WalkExact
<1>8. CASE ~run.page.last /\ run' = [run EXCEPT !.pc = "fetch", !.at = next, !.off = 0]
  <2>1. c \notin Files /\ Whole(c, run)
    BY <1>3, <1>8 DEF Whole
  <2> DEFINE F == After(c, run.at, run.version)
  <2>2. /\ run.page = Read(c, run.at, run.version) /\ F \in Nat
        /\ Reached(c, D, F, run.cp, source)
    BY <1>5, <2>1
  <2>3. next \in Int
    BY <1>2 DEF PageRecord
  <2>4. First(c, next, run.version) = F
    BY <1>2, <1>3, <1>8, <2>1, <2>2, NextPage
  <2> HIDE DEF F, next
  <2>5. Names(c, next, 0, run.version, F)
    BY <1>2, <2>2, <2>3, <2>4, NextNames
  <2>6. /\ run'.pc = "fetch" /\ run'.cp = run.cp /\ run'.batch = run.batch
        /\ run'.mark = run.mark /\ run'.closing = run.closing /\ run'.exhausted = run.exhausted
        /\ run'.at = next /\ run'.off = 0
    BY <1>2, <1>8 DEF RunRecord
  <2>7. Between(c, run', D, source)
    BY <1>2, <1>3, <2>1, <2>2, <2>5, <2>6 DEF Between
  <2>8. run.batch # <<>> => Marked(c, run', D, source)
    BY <1>2, <2>6 DEF Marked
  <2>9. RunIsExact(c, run', data, source)
    BY <1>2, <2>6, <2>7, <2>8 DEF RunIsExact, Shape, Under, D
  <2>10. QED
    BY <1>1, <2>9, WalkExact
<1>9. QED
  BY <1>6, <1>7, <1>8 DEF EndOfPage

LEMMA TakeExact == ASSUME IInv, ExactInv, Take PROVE ExactInv'
<1> DEFINE D == Taken(data, run.cp, run.batch)
           k == ItemAt(run.index, run.version)
           i == run.index + 1
           b == Append(run.batch, k)
           e == run.emitted + 1
           pc == IF Len(run.batch) + 1 >= BatchSize THEN "write" ELSE "take"
           mark == Mark
<1>1. run.pc = "take" /\ run.index <= run.page.to /\ RunOnly
        /\ UNCHANGED <<job, source, saved, data>>
  BY DEF Take, RunOnly
<1>2. /\ c \in Connectors /\ run \in RunRecord /\ source \in Nat
      /\ run.cp \in CheckpointRecord /\ run.cp.since \in Nat /\ run.page \in PageRecord
      /\ run.page.from \in Int /\ run.page.to \in Int /\ run.index \in Int
      /\ run.at \in Int /\ run.version \in Nat
      /\ RunIsExact(c, run, data, source)
      /\ CheckpointIsExact(c, run.cp, Prefix(data, run.cp.records), source)
      /\ ~run.exhausted /\ ~run.closing
      /\ run.batch # <<>> => Marked(c, run, D, source)
      /\ PageIsRead(c, run, source) /\ Exact(c, D, run.cp, source)
      /\ Reached(c, D, k, run.cp, source)
  BY <1>1, OnPage
<1>3. /\ run.version \in run.cp.since..source /\ 0 <= First(c, run.at, run.version)
      /\ run.index \in run.page.from..run.page.to
      /\ run.page.from = Read(c, run.at, run.version).from
      /\ run.page.to <= Read(c, run.at, run.version).to
  BY <1>1, <1>2 DEF PageIsRead
<1>4. /\ k - 1 \in Nat /\ ItemAt(i, run.version) = k - 1 /\ k \in Int
      /\ Names(c, run.at, Listed(c, run.page.from, run.index, run.version), run.version, k - 1)
  BY <1>2, <1>3, MarkNames, Z3T(60)
<1>5. i \in Int /\ i \in run.page.from..run.page.to + 1
  BY <1>2, <1>3
<1> DEFINE n == run.cp.records + Len(run.batch)
           E == Taken(data, run.cp, b)
<1>6. /\ n \in Nat /\ D \in [1..n -> Int] /\ \A m \in 1..run.cp.records : data[m] \in Int
      /\ run.cp.records \in Nat /\ run.batch \in Seq(Int)
  BY <1>1, RowsAreTyped
<1>7. CASE run' = IdleRun
  BY <1>1, <1>7, NothingWritten, OverExact
<1>8. CASE run' = [run EXCEPT !.pc = "finish"]
  BY <1>1, <1>2, <1>8, FinishEarly, WalkExact
<1>9. CASE ~Emits(c, k) /\ run' = [run EXCEPT !.index = i]
  <2> HIDE DEF D, k, i, n
  <2>1. Reached(c, D, k - 1, run.cp, source)
    BY <1>2, <1>4, <1>6, <1>9, RowPassed
  <2>2. /\ run'.pc = "take" /\ run'.cp = run.cp /\ run'.batch = run.batch
        /\ run'.mark = run.mark /\ run'.closing = run.closing /\ run'.exhausted = run.exhausted
        /\ run'.at = run.at /\ run'.page = run.page /\ run'.version = run.version
        /\ run'.index = i
    BY <1>1, <1>2, <1>9 DEF RunRecord
  <2>3. PageIsRead(c, run', source)
    BY <1>2, <1>5, <2>2 DEF PageIsRead, Whole
  <2>4. UnderWay(c, run', D, source)
    BY <1>2, <1>4, <2>1, <2>2, <2>3 DEF UnderWay
  <2>5. run.batch # <<>> => Marked(c, run', D, source)
    BY <1>2, <2>2 DEF Marked
  <2>6. RunIsExact(c, run', data, source)
    BY <1>2, <2>2, <2>4, <2>5 DEF RunIsExact, Shape, Under, D
  <2>7. QED
    BY <1>1, <2>6, WalkExact
<1>10. CASE /\ Emits(c, k)
            /\ run' = [run EXCEPT !.batch = b, !.mark = mark, !.emitted = e, !.index = i,
                                  !.pc = pc]
  <2>1. /\ E \in [1..n + 1 -> Int] /\ E[n + 1] = k /\ \A m \in 1..n : E[m] = D[m]
        /\ b # <<>> /\ b \in Seq(Int)
    <3> HIDE DEF k
    <3>1. k \in Int
      BY <1>4
    <3>2. /\ run.cp.records \in Nat /\ run.batch \in Seq(Int)
          /\ \A m \in 1..run.cp.records : data[m] \in Int
      BY <1>6
    <3>3. OneMore(Taken(data, run.cp, run.batch), Taken(data, run.cp, Append(run.batch, k)),
                  run.cp.records + Len(run.batch), k)
      BY <3>1, <3>2, TakenMore, ZenonT(60)
    <3>4. b # <<>> /\ b \in Seq(Int)
      BY <3>1, <3>2, BatchMore
    <3>5. QED
      BY <3>3, <3>4 DEF OneMore
  <2>3. /\ mark.at = run.at /\ mark.version = run.version
        /\ mark.off = Listed(c, run.page.from, run.index, run.version)
    BY DEF Mark
  <2>4. pc \in {"write", "take"}
    OBVIOUS
  <2> HIDE DEF D, E, k, i, n, b, e, pc, mark
  <2>5. Exact(c, E, run.cp, source) /\ Reached(c, E, k - 1, run.cp, source)
    <3>1. /\ n \in Nat /\ D \in [1..n -> Int] /\ k \in Int /\ E \in [1..n + 1 -> Int]
          /\ E[n + 1] = k /\ \A m \in 1..n : E[m] = D[m]
          /\ run.cp.since \in Nat /\ Exact(c, D, run.cp, source)
          /\ Reached(c, D, k, run.cp, source) /\ Emits(c, k)
      BY <1>2, <1>4, <1>6, <1>10, <2>1
    <3>2. QED
      BY <3>1, RowTaken, ZenonT(60)
  <2>6. /\ run'.pc = pc /\ run'.cp = run.cp /\ run'.batch = b
        /\ run'.mark = mark /\ run'.closing = run.closing /\ run'.exhausted = run.exhausted
        /\ run'.at = run.at /\ run'.page = run.page /\ run'.version = run.version
        /\ run'.index = i
    BY <1>1, <1>2, <1>10 DEF RunRecord
  <2>7. PageIsRead(c, run', source)
    BY <1>2, <1>5, <2>6 DEF PageIsRead, Whole
  <2>8. UnderWay(c, run', E, source)
    BY <1>2, <1>4, <2>5, <2>6, <2>7 DEF UnderWay
  <2>9. Marked(c, run', E, source)
    BY <1>3, <1>4, <2>3, <2>5, <2>6 DEF Marked
  <2>10. RunIsExact(c, run', data, source)
    BY <1>2, <2>1, <2>4, <2>6, <2>8, <2>9 DEF RunIsExact, Shape, Under, E
  <2>11. QED
    BY <1>1, <2>10, WalkExact
<1>11. QED
  BY <1>7, <1>8, <1>9, <1>10 DEF Take

LEMMA FinishExact == ASSUME IInv, ExactInv, Finish PROVE ExactInv'
<1> DEFINE D == Taken(data, run.cp, run.batch)
           pc == IF run.batch = <<>> THEN "close" ELSE "write"
<1>1. run.pc = "finish" /\ RunOnly /\ run \in RunRecord
        /\ run' = [run EXCEPT !.closing = TRUE, !.pc = pc]
  BY DEF Finish, IInv, TypeOK
<1>2. /\ CheckpointIsExact(c, run.cp, Prefix(data, run.cp.records), source)
      /\ run.batch # <<>> => Marked(c, run, D, source)
      /\ run.exhausted => Ended(c, D, run.cp)
  BY <1>1 DEF ExactInv, RunIsExact
<1>3. /\ pc \in {"close", "write"} /\ (pc = "close" => run.batch = <<>>)
      /\ (pc = "write" => run.batch # <<>>)
  OBVIOUS
<1> HIDE DEF D, pc
<1>4. /\ run'.pc = pc /\ run'.cp = run.cp /\ run'.batch = run.batch
      /\ run'.mark = run.mark /\ run'.closing /\ run'.exhausted = run.exhausted
  BY <1>1 DEF RunRecord
<1>5. run.batch # <<>> => Marked(c, run', D, source)
  BY <1>2, <1>4 DEF Marked
<1>6. RunIsExact(c, run', data, source)
  BY <1>2, <1>3, <1>4, <1>5 DEF RunIsExact, Shape, Under, D
<1>7. QED
  BY <1>1, <1>6, WalkExact

\* What a batch adds to the output.
LEMMA WithBatch ==
  ASSUME IInv, run.pc = "write", NEW rows \in Seq(Int)
  PROVE  Prefix(With(rows), run.cp.records + Len(rows)) = Taken(data, run.cp, rows)
<1> DEFINE n == run.cp.records
           m == Len(rows)
<1>1. n \in Nat /\ DOMAIN data = 1..n /\ m \in Nat
  BY Numbers DEF IInv, RunOK, Walking, TypeOK
<1>2. FirstRow = n + 1
  <2>1. Cardinality(1..n) = n
    BY <1>1, Interval
  <2>2. QED
    BY <1>1, <2>1 DEF FirstRow
<1>3. With(rows) = [i \in 1..n \cup (n + 1..n + 1 + m - 1) |->
                      IF i < n + 1 THEN data[i] ELSE rows[i - (n + 1) + 1]]
  BY <1>1, <1>2 DEF With
<1> HIDE DEF n, m
<1>4. ASSUME NEW i \in 1..n + m
      PROVE  With(rows)[i] = IF i <= n THEN data[i] ELSE rows[i - n]
  <2>1. i \in 1..n \cup (n + 1..n + 1 + m - 1)
    BY <1>1
  <2>2. With(rows)[i] = IF i < n + 1 THEN data[i] ELSE rows[i - (n + 1) + 1]
    BY <1>3, <2>1
  <2>3. i \in Int /\ (i < n + 1 <=> i <= n) /\ i - (n + 1) + 1 = i - n
    BY <1>1
  <2>4. QED
    BY <2>2, <2>3
<1>5. QED
  BY <1>4 DEF Prefix, Taken, n, m

\* The batch is written, and then recorded in the manifest.
LEMMA WrittenExact ==
  ASSUME IInv, ExactInv, run.pc \in {"write", "record"}, RowsStay,
         UNCHANGED <<job, source, saved>>, NEW pc \in Written,
         run' = [run EXCEPT !.pc = pc],
         Prefix(data', run.cp.records + Len(run.batch)) = Taken(data, run.cp, run.batch)
  PROVE  ExactInv'
<1> DEFINE D == Taken(data, run.cp, run.batch)
           cp == run.cp
<1>1. /\ c' = c /\ source' = source /\ source' \in Nat /\ source <= source'
      /\ run \in RunRecord /\ run.pc # "idle" /\ cp.records \in Nat
      /\ Len(run.batch) \in Nat
  BY RowsAreTyped DEF c, IInv, TypeOK
<1>2. saved'.there => CheckpointIsExact(c', saved', Prefix(data', saved'.records), source')
  BY <1>1, SavedStays
<1>3. /\ CheckpointIsExact(c, cp, Prefix(data, cp.records), source)
      /\ run.batch # <<>> /\ Marked(c, run, D, source)
      /\ run.exhausted => Ended(c, D, cp)
      /\ run.exhausted => run.closing
      /\ ~run.closing => UnderWay(c, run, D, source)
  BY DEF ExactInv, RunIsExact, Shape, Under
<1>4. \A i \in 1..cp.records : data'[i] = data[i]
  BY <1>1, RowsOfRun
<1>5. Prefix(data', cp.records) = Prefix(data, cp.records) /\ Taken(data', cp, run.batch) = D
  BY <1>1, <1>4, SamePrefix, SameTaken
<1> HIDE DEF D, cp
<1>6. /\ run'.pc = pc /\ run'.cp = cp /\ run'.batch = run.batch
      /\ run'.mark = run.mark /\ run'.closing = run.closing /\ run'.exhausted = run.exhausted
      /\ run'.at = run.at /\ run'.page = run.page /\ run'.version = run.version
      /\ run'.index = run.index
  BY <1>1 DEF RunRecord, cp
<1>7. Marked(c, run', D, source)
  BY <1>3, <1>6 DEF Marked, cp
<1>8. ~run.closing => UnderWay(c, run', D, source)
  BY <1>3, <1>6 DEF UnderWay, PageIsRead, Whole, cp
<1>9. Prefix(data', cp.records + Len(run.batch)) = D
  BY DEF D, cp
<1>10. RunIsExact(c, run', data', source)
  BY <1>3, <1>5, <1>6, <1>7, <1>8, <1>9 DEF RunIsExact, Shape, Under, Written
<1>11. QED
  BY <1>1, <1>2, <1>10 DEF ExactInv

LEMMA WriteBatchExact == ASSUME IInv, ExactInv, WriteBatch PROVE ExactInv'
<1> DEFINE pc == IF job.format = "jsonl" THEN "save" ELSE "record"
<1>1. /\ run.pc = "write" /\ data' = With(run.batch) /\ run' = [run EXCEPT !.pc = pc]
      /\ UNCHANGED <<job, source, saved>>
  BY DEF WriteBatch, OutputOnly, Goto
<1>2. RowsStay
  BY WriteBatchKeeps
<1>3. pc \in Written
  BY DEF Written
<1>4. run.batch \in Seq(Int)
  BY Numbers DEF IInv
<1>5. Prefix(data', run.cp.records + Len(run.batch)) = Taken(data, run.cp, run.batch)
  BY <1>1, <1>4, WithBatch
<1> HIDE DEF pc
<1>6. QED
  BY <1>1, <1>2, <1>3, <1>5, WrittenExact

LEMMA RecordPartExact == ASSUME IInv, ExactInv, RecordPart PROVE ExactInv'
<1>1. /\ run.pc = "record" /\ run' = [run EXCEPT !.pc = "save"]
      /\ UNCHANGED <<job, source, saved, data>>
  BY DEF RecordPart, OutputOnly, Goto
<1>2. RowsStay /\ "save" \in Written
  BY RecordPartKeeps DEF Written
<1>3. Prefix(data', run.cp.records + Len(run.batch)) = Taken(data, run.cp, run.batch)
  BY <1>1 DEF ExactInv, RunIsExact
<1>4. QED
  BY <1>1, <1>2, <1>3, WrittenExact

\* The mark becomes the position of the checkpoint.
LEMMA SaveCheckpointExact == ASSUME IInv, ExactInv, SaveCheckpoint PROVE ExactInv'
<1> DEFINE D == Taken(data, run.cp, run.batch)
           n == run.cp.records + Len(run.batch)
           cq == [run.cp EXCEPT !.records = n, !.at = run.mark.at, !.off = run.mark.off,
                                !.version = run.mark.version]
           pc == IF run.closing THEN "close" ELSE "take"
<1>1. /\ run.pc = "save" /\ UNCHANGED <<job, source, data, manifest, restarts, faults>>
      /\ saved' = cq /\ run' = [run EXCEPT !.cp = cq, !.batch = <<>>, !.pc = pc]
      /\ c' = c
  BY DEF SaveCheckpoint, c
<1>2. /\ run \in RunRecord /\ run.cp \in CheckpointRecord /\ run.cp.records \in Nat
      /\ run.cp.since \in Nat /\ n \in Nat /\ run.batch \in Seq(Int) /\ Len(run.batch) \in Nat
      /\ source \in Nat
  BY <1>1, RowsAreTyped DEF IInv, TypeOK
<1>3. /\ CheckpointIsExact(c, run.cp, Prefix(data, run.cp.records), source)
      /\ run.batch # <<>> /\ Marked(c, run, D, source)
      /\ run.exhausted => Ended(c, D, run.cp) /\ run.closing
      /\ ~run.closing => UnderWay(c, run, D, source)
      /\ Prefix(data, n) = D
  BY <1>1 DEF ExactInv, RunIsExact, Shape, Under
<1>4. n > 0
  <2>1. Len(run.batch) # 0
    BY <1>2, <1>3
  <2>2. QED
    BY <1>2, <2>1
<1>5. ~run.cp.complete
  BY <1>1 DEF IInv, CheckpointOK, Written
<1>6. /\ cq.records = n /\ cq.at = run.mark.at /\ cq.off = run.mark.off
      /\ cq.version = run.mark.version /\ cq.since = run.cp.since /\ cq.cut = run.cp.cut
      /\ ~cq.complete
  <2> HIDE DEF n
  <2>1. QED
    BY <1>2, <1>5 DEF CheckpointRecord
<1> HIDE DEF D, n, cq, pc
<1>7. About(cq) = run.mark.version
  BY <1>2, <1>4, <1>6 DEF About
<1>s. /\ \A F : Reached(c, D, F, run.cp, source) => Reached(c, D, F, cq, source)
      /\ Exact(c, D, run.cp, source) => Exact(c, D, cq, source)
      /\ Ended(c, D, run.cp) => Ended(c, D, cq)
  BY <1>6 DEF Reached, Exact, Ended, Stable
<1>8. CheckpointIsExact(c, cq, D, source)
  BY <1>3, <1>6, <1>7, <1>s DEF CheckpointIsExact, Marked
<1>9. /\ run'.pc = pc /\ run'.cp = cq /\ run'.batch = <<>> /\ run'.mark = run.mark
      /\ run'.closing = run.closing /\ run'.exhausted = run.exhausted
      /\ run'.at = run.at /\ run'.page = run.page /\ run'.version = run.version
      /\ run'.index = run.index
  BY <1>1, <1>2 DEF RunRecord
<1>10. Taken(data, cq, <<>>) = D
  <2>1. Taken(data, cq, <<>>) = Prefix(data, cq.records)
    BY <1>2, <1>6, TakenNone
  <2>2. QED
    BY <1>3, <1>6, <2>1
<1>11. ~run.closing => UnderWay(c, run', D, source)
  <2> SUFFICES ASSUME ~run.closing PROVE UnderWay(c, run', D, source)
    OBVIOUS
  <2>1. UnderWay(c, run, D, source)
    BY <1>3
  <2>2. Whole(c, run') <=> Whole(c, run)
    BY <1>6, <1>9 DEF Whole
  <2>3. PageIsRead(c, run', source)
    BY <1>6, <1>9, <2>1, <2>2 DEF UnderWay, PageIsRead
  <2>4. QED
    BY <1>9, <1>s, <2>1, <2>2, <2>3 DEF UnderWay
<1>12. pc \in {"close", "take"} /\ (pc = "take" => ~run.closing) /\ (pc = "close" => run.closing)
  BY DEF pc
<1>13. RunIsExact(c, run', data, source)
  BY <1>3, <1>6, <1>8, <1>9, <1>10, <1>11, <1>12, <1>s DEF RunIsExact, Shape, Under
<1>14. CheckpointIsExact(c, saved', Prefix(data, saved'.records), source)
  BY <1>1, <1>3, <1>6, <1>8
<1>15. QED
  BY <1>1, <1>13, <1>14 DEF ExactInv

LEMMA CloseExact == ASSUME IInv, ExactInv, Close PROVE ExactInv'
<1> DEFINE D == Prefix(data, run.cp.records)
           cq == [run.cp EXCEPT !.complete = run.exhausted]
<1>1. /\ run.pc = "close" /\ UNCHANGED <<job, source, data, manifest, restarts, faults>>
      /\ saved' = cq /\ run' = IdleRun /\ c' = c
  BY DEF Close, c
<1>2. run \in RunRecord /\ run.cp \in CheckpointRecord /\ run.cp.records \in Nat
        /\ run.exhausted \in BOOLEAN
  BY <1>1, RowsAreTyped DEF IInv, TypeOK, RunRecord
<1>3. /\ CheckpointIsExact(c, run.cp, D, source) /\ run.batch = <<>>
      /\ run.exhausted => Ended(c, Taken(data, run.cp, <<>>), run.cp)
  BY <1>1 DEF ExactInv, RunIsExact, Shape
<1>4. Taken(data, run.cp, <<>>) = D
  BY <1>2, TakenNone
<1>5. ~run.cp.complete
  BY <1>1 DEF IInv, CheckpointOK, Walking
<1>6. /\ cq.records = run.cp.records /\ cq.at = run.cp.at /\ cq.off = run.cp.off
      /\ cq.version = run.cp.version /\ cq.since = run.cp.since /\ cq.cut = run.cp.cut
      /\ cq.complete = run.exhausted
  BY <1>2 DEF CheckpointRecord
<1> HIDE DEF D, cq
<1>7. About(cq) = About(run.cp)
  BY <1>6 DEF About
<1>s. /\ \A F : Reached(c, D, F, run.cp, source) => Reached(c, D, F, cq, source)
      /\ Exact(c, D, run.cp, source) => Exact(c, D, cq, source)
      /\ Ended(c, D, run.cp) => Ended(c, D, cq)
  BY <1>6 DEF Reached, Exact, Ended, Stable
<1>8. CheckpointIsExact(c, cq, D, source)
  BY <1>3, <1>4, <1>5, <1>6, <1>7, <1>s DEF CheckpointIsExact
<1>9. CheckpointIsExact(c, saved', Prefix(data, saved'.records), source)
  BY <1>1, <1>6, <1>8 DEF D
<1>10. RunIsExact(c, run', data, source)
  BY <1>1, IdleType DEF RunIsExact
<1>11. QED
  BY <1>1, <1>9, <1>10 DEF ExactInv

\* What is said of an invocation stays true when records are published.
LEMMA PublishExact == ASSUME IInv, ExactInv, Publish PROVE ExactInv'
<1> DEFINE D == Taken(data, run.cp, run.batch)
           srd == source'
<1>1. /\ UNCHANGED <<job, saved, data, run>> /\ c' = c
      /\ source \in Nat /\ srd \in Nat /\ source <= srd
  BY DEF Publish, c, IInv, TypeOK
<1>2. RowsStay
  BY PublishKeeps
<1>3. saved'.there => CheckpointIsExact(c', saved', Prefix(data', saved'.records), source')
  BY <1>1, <1>2, SavedStays
<1>4. CASE run.pc = "idle"
  BY <1>1, <1>3, <1>4 DEF ExactInv, RunIsExact
<1>5. CASE run.pc # "idle"
  <2>1. run.cp \in CheckpointRecord /\ run.cp.since \in Nat /\ run.cp.version \in Nat
    BY <1>5, RowsAreTyped DEF CheckpointRecord
  <2>2. CheckpointIsExact(c, run.cp, Prefix(data, run.cp.records), source)
    BY <1>5 DEF ExactInv, RunIsExact
  <2>3. run.cp.since <= source
    <3>1. About(run.cp) \in run.cp.since..source
      BY <2>2 DEF CheckpointIsExact
    <3>2. QED
      BY <1>1, <2>1, <3>1
  <2> HIDE DEF D, srd
  <2>4. CheckpointIsExact(c, run.cp, Prefix(data, run.cp.records), srd)
    BY <1>1, <2>1, <2>2, CheckpointStays
  <2>5. /\ Exact(c, D, run.cp, source) => Exact(c, D, run.cp, srd)
        /\ \A F : Reached(c, D, F, run.cp, source) => Reached(c, D, F, run.cp, srd)
        /\ run.cp.since..source \subseteq run.cp.since..srd
    <3>1. Stable(c, run.cp, srd) => Stable(c, run.cp, source)
      BY <1>1, <2>1, <2>3 DEF Stable
    <3>2. run.cp.since..source \subseteq run.cp.since..srd
      BY <1>1, <2>1
    <3>3. QED
      BY <3>1, <3>2 DEF Exact, Reached
  <2>6. Between(c, run, D, source) => Between(c, run, D, srd)
    BY <2>5 DEF Between
  <2>7. Marked(c, run, D, source) => Marked(c, run, D, srd)
    BY <2>5 DEF Marked
  <2>8. UnderWay(c, run, D, source) => UnderWay(c, run, D, srd)
    BY <2>5 DEF UnderWay, PageIsRead
  <2>9. RunIsExact(c, run, data, srd)
    BY <2>4, <2>6, <2>7, <2>8 DEF ExactInv, RunIsExact, D
  <2>10. QED
    BY <1>1, <1>3, <2>9 DEF ExactInv, srd
<1>6. QED
  BY <1>4, <1>5

LEMMA InitExact == Init => ExactInv
BY AbsentType, IdleType DEF Init, ExactInv, RunIsExact

LEMMA PreparationsExact ==
  ASSUME IInv, ExactInv, PrepareJsonl \/ PrepareGzip \/ PrepareParquet \/ SaveRetained
  PROVE  ExactInv'
<1>1. RowsStay
  BY PrepareJsonlKeeps, PrepareGzipKeeps, PrepareParquetKeeps, SaveRetainedKeeps
<1>2. run.pc \in {"prepare", "retain"} /\ UNCHANGED <<job, source, saved>>
  BY DEF PrepareJsonl, PrepareGzip, PrepareParquet, SaveRetained, OutputOnly
<1>3. run' = IdleRun \/ run' = run \/ Goto("retain") \/ Prepared
  BY DEF PrepareJsonl, PrepareGzip, PrepareParquet, SaveRetained, Raise
<1>4. QED
  BY <1>1, <1>2, <1>3, PrepareExact

LEMMA DiesExact == ASSUME IInv, ExactInv, Dies \/ RequestFails PROVE ExactInv'
<1>1. RowsStay
  BY DiesKeeps, WalkEndsKeeps
<1>2. run' = IdleRun /\ UNCHANGED <<job, source, saved>>
  BY DEF Dies, RequestFails, Raise, RunOnly
<1>3. QED
  BY <1>1, <1>2, OverExact

LEMMA NextExact == ASSUME IInv, ExactInv, [Next]_vars PROVE ExactInv'
<1>1. CASE UNCHANGED vars
  BY <1>1 DEF vars, ExactInv, c
<1>2. CASE Step
  BY <1>2, PreparationsExact, FetchExact, EndOfPageExact, TakeExact, FinishExact, WriteBatchExact,
     RecordPartExact, SaveCheckpointExact, CloseExact DEF Step
<1>3. CASE Next
  BY <1>2, <1>3, FetchCutExact, DiesExact, PublishExact, StartExact DEF Next
<1>4. QED
  BY <1>1, <1>3

LEMMA ExactIsSnapshot == ASSUME IInv, ExactInv PROVE SnapshotIsExact
<1> SUFFICES ASSUME saved.there PROVE SnapshotIsExact
  BY DEF SnapshotIsExact
<1> DEFINE n == saved.records
           D == Prefix(data, n)
<1>1. n \in Nat /\ 1..n \subseteq DOMAIN data
  BY Numbers DEF IInv, OutputOK
<1>2. DOMAIN D = 1..n /\ \A i \in 1..n : D[i] = data[i]
  BY DEF Prefix
<1>3. CheckpointIsExact(c, saved, D, source)
  BY DEF ExactInv
<1> HIDE DEF D
<1>4. Exact(c, D, saved, source) /\ (saved.complete => Ended(c, D, saved))
  BY <1>3 DEF CheckpointIsExact
<1>5. \A i \in 1..n : Emits(c, data[i])
  BY <1>2, <1>4 DEF Exact
<1>6. ASSUME ~saved.cut, NEW k \in 1..Latest(saved.since), Emits(c, k),
             (saved.complete /\ ~StopsEarly(c)) \/ \E i \in 1..n : data[i] < k
      PROVE  \E i \in 1..n : data[i] = k
  <2>1. Has(D, k)
    <3>1. CASE saved.complete /\ ~StopsEarly(c)
      BY <1>4, <1>6, <3>1 DEF Ended
    <3>2. CASE \E i \in 1..n : data[i] < k
      <4>1. \E i \in DOMAIN D : D[i] < k
        BY <1>2, <3>2
      <4>2. QED
        BY <1>4, <1>6, <4>1 DEF Exact
    <3>3. QED
      BY <1>6, <3>1, <3>2
  <2>2. QED
    BY <1>2, <2>1 DEF Has
<1>7. ASSUME c \in Files \/ source = saved.since, NEW i \in 1..n, NEW j \in 1..n, i < j
      PROVE  data[j] < data[i]
  BY <1>2, <1>4, <1>7 DEF Exact, Stable
<1>8. QED
  BY <1>1, <1>5, <1>6, <1>7 DEF SnapshotIsExact, StopsEarly

-----------------------------------------------------------------------------
(* The theorems.                                                           *)

LEMMA Invariance == Spec => []IInv
<1>1. IInv /\ [Next]_vars => IInv'
  BY NextKeeps
<1>2. QED
  BY InitInv, <1>1, PTL DEF Spec

\* Every variable of the collector keeps its shape, whatever the command was given.
THEOREM TypeCorrect == Spec => []TypeOK
<1>1. IInv => TypeOK
  BY DEF IInv
<1>2. QED
  BY Invariance, <1>1, PTL

\* Whatever dies or fails, and whatever a resumed command cuts off or removes from its
\* output, the rows that a checkpoint counts stay as they are, and a complete snapshot
\* is final until --fresh replaces it.
THEOREM CommittedRowsStay == Spec => SnapshotGrows
<1>1. IInv /\ [Next]_vars => [RowsStay]_<<saved, data>>
  BY NextKeeps
<1>2. Spec => [][RowsStay]_<<saved, data>>
  BY Invariance, <1>1, PTL DEF Spec
<1>3. QED
  BY <1>2 DEF RowsStay, SnapshotGrows

\* A resumed command finds in its output all that its checkpoint counts, and its checkpoint
\* at the end of a part: prepare_resume never raises over a directory that only the
\* command has written.
THEOREM CheckpointIsBacked == Spec => []AlwaysResumable
<1>1. IInv => AlwaysResumable
  <2> SUFFICES ASSUME IInv, saved.there PROVE
        /\ saved.records <= Cardinality(DOMAIN data)
        /\ (job.format # "jsonl" /\ saved.records > 0) => saved.records \in manifest
    BY DEF AlwaysResumable
  <2> DEFINE n == saved.records
  <2>1. n \in Nat /\ 1..n \subseteq DOMAIN data /\ IsFiniteSet(DOMAIN data)
    BY Numbers DEF IInv, OutputOK
  <2> HIDE DEF n
  <2>2. Cardinality(1..n) = n
    BY <2>1, Interval
  <2>3. n <= Cardinality(DOMAIN data)
    BY <2>1, <2>2, FS_Subset
  <2>4. QED
    BY <2>3 DEF IInv, OutputOK, n
<1>2. QED
  BY Invariance, <1>1, PTL

LEMMA ExactInvariance == Spec => []ExactInv
<1>1. Init => ExactInv
  BY InitExact
<1>2. IInv /\ ExactInv /\ [Next]_vars => ExactInv'
  BY NextExact
<1>3. QED
  BY Invariance, <1>1, <1>2, PTL DEF Spec

\* A snapshot is what its source had when it was begun: no row that the connector does not
\* emit, no gap up to where the walk has come, nothing left out when it is complete, and
\* nothing twice unless the source changed under a walk by pages; whatever connector walks,
\* wherever invocations died, failed or reached their limit, and however far the source had
\* grown when the next one resumed at the token and the offset of the checkpoint.
THEOREM SnapshotExact == Spec => []SnapshotIsExact
<1>1. IInv /\ ExactInv => SnapshotIsExact
  BY ExactIsSnapshot
<1>2. QED
  BY Invariance, ExactInvariance, <1>1, PTL
=============================================================================
