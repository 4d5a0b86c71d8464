----------------------------- MODULE DemoProofs -----------------------------
(***************************************************************************)
(* Theorems about the demonstration: DemoStream, for any sessions and      *)
(* invocations, any length of a session and of a chunk, and any number of  *)
(* retries and faults; and DemoPreparation, for any operators, users,      *)
(* drops, versions of the fixtures, commands and failures.                 *)
(***************************************************************************)
EXTENDS DemoStream, DemoPreparation, FiniteSetTheorems, TLAPS

-----------------------------------------------------------------------------
(* The stream.                                                             *)

ItemRecord ==
    [session : Sessions \cup {NoSession},
     status : {"none", "running", "stopped", "failed", "completed"},
     total : {0, Total}, emitted : Pulses \cup {0},
     chunk : Chunks \cup {0}, arn : Chunks \cup {0}]
ExecRecord ==
    [pc : {"none", "emit", "wait", "fail", "ended"}, seq : Nat, ce : Nat, tries : Nat,
     tick : Ticks \cup {NoTick}]
CallRecord ==
    [pc : {"idle", "read", "put", "announce", "advance", "rotate", "next", "answer"},
     session : Sessions \cup {NoSession}, chunk : Chunks \cup {0},
     seq : Nat, ce : Nat, total : {0, Total}]

\* An invocation that runs has its session, its chunk and its pulse.
CallsAreNamed ==
    \A t \in Ticks : ticks[t].pc # "idle" =>
        ticks[t].session \in Sessions /\ ticks[t].chunk \in Chunks /\ ticks[t].seq \in Pulses

\* An execution waits for an invocation that runs, and that it has made itself.
CallersAreKnown ==
    \A s \in Sessions, c \in Chunks : execs[s][c].pc = "wait" =>
        \E t \in Ticks : /\ execs[s][c].tick = t /\ ticks[t].pc # "idle"
                         /\ ticks[t].session = s /\ ticks[t].chunk = c

\* The pulse at which an execution is, when it has emitted ce in its own chunk: every
\* chunk before it was of Chunk pulses at least.
Begins(c, seq, ce) == seq >= (c - 1) * Chunk + 1 + ce
ChunksAreFull ==
    /\ \A s \in Sessions, c \in Chunks :
            execs[s][c].pc # "none" => Begins(c, execs[s][c].seq, execs[s][c].ce)
    /\ \A t \in Ticks :
            /\ ticks[t].pc # "idle" => Begins(ticks[t].chunk, ticks[t].seq, ticks[t].ce)
            /\ ticks[t].pc \in {"rotate", "next"} => Rotates(t)

\* Before its item is made, nothing of a session exists.
Unborn(s) ==
    /\ item.session # s /\ landings[s] = {}
    /\ \A c \in Chunks : execs[s][c].pc = "none" /\ execs[s][c].seq = 0
    /\ \A t \in Ticks : ticks[t].session # s
NothingBefore == \A s \in Sessions : starts[s].pc \in {"idle", "create"} => Unborn(s)

\* The item of the session says e, or did so when another session took its place: nobody is
\* further than one pulse ahead of it, and whoever is about to advance it has landed his.
Reached(s, e) ==
    /\ item.session = s => item.emitted = e
    /\ landings[s] \in {1..e, 1..(e + 1)}
    /\ \A c \in Chunks : execs[s][c].seq <= e + 1
    /\ \A t \in Ticks : ticks[t].session = s =>
            /\ ticks[t].seq <= e + 1
            /\ ticks[t].pc \in {"announce", "advance"} => ticks[t].seq \in landings[s]
            /\ ticks[t].pc \in {"rotate", "next"} => ticks[t].seq <= e
InStep == \A s \in Sessions : \E e \in Pulses \cup {0} : Reached(s, e)

StreamInv ==
    /\ StreamTypeOK /\ CallsAreNamed /\ CallersAreKnown /\ ChunksAreFull
    /\ NothingBefore /\ InStep

\* Whoever is about to announce a pulse has landed it, and is the only one to have done so.
OneAnnouncer ==
    \A t \in Ticks : ticks[t].pc = "announce" =>
        LET s == ticks[t].session  q == ticks[t].seq
        IN /\ q \in landings[s] /\ announced[s][q] = 0
           /\ \A u \in Ticks \ {t} :
                ~(ticks[u].pc = "announce" /\ ticks[u].session = s /\ ticks[u].seq = q)

-----------------------------------------------------------------------------
(* Types.                                                                  *)

StreamTyped ==
    /\ item \in ItemRecord
    /\ landings \in [Sessions -> SUBSET Pulses]
    /\ announced \in [Sessions -> [Pulses -> Nat]]
    /\ execs \in [Sessions -> [Chunks -> ExecRecord]]
    /\ ticks \in [Ticks -> CallRecord]

LEMMA Bounds ==
    /\ Total \in Nat \ {0} /\ Chunk \in Nat \ {0} /\ MaxPulses \in Nat
    /\ MaxPulses \div Chunk \in Nat
    /\ Pulses \subseteq Nat \ {0} /\ Chunks \subseteq Nat \ {0} /\ 1 \in Chunks
<1>1. Total \in Nat \ {0} /\ Chunk \in Nat \ {0} /\ MaxPulses \in Nat
  BY DemoStreamAssumption
<1>2. MaxPulses \div Chunk \in Nat
  BY <1>1, SMT
<1>3. QED
  BY <1>1, <1>2 DEF Pulses, Chunks

LEMMA PulsesAreNat == \A q \in Pulses \cup {0} : q \in Nat
BY DEF Pulses

LEMMA EmittedIsNat == StreamTyped => item.emitted \in Nat
BY PulsesAreNat DEF StreamTyped, ItemRecord

LEMMA StreamIsTyped == StreamTypeOK => StreamTyped
BY DEF StreamTypeOK, StreamTyped, ItemRecord, ExecRecord, CallRecord

\* A chunk that gave its pulses leaves room for the next among the chunks of a session.
LEMMA NextChunk ==
    ASSUME NEW c \in Chunks, NEW seq \in Pulses, NEW ce \in Nat,
           Begins(c, seq, ce), ce + 1 >= Chunk
    PROVE  c + 1 \in Chunks /\ Begins(c + 1, seq + 1, 0)
<1> USE Bounds
<1>1. c \in Nat \ {0} /\ seq \in Nat /\ seq <= MaxPulses
  BY DEF Pulses
<1>2. c * Chunk = (c - 1) * Chunk + Chunk
  BY <1>1, SMT
<1>3. (c - 1) * Chunk \in Nat /\ c * Chunk \in Nat
  BY <1>1, SMT
<1>4. seq >= c * Chunk
  BY <1>1, <1>2, <1>3 DEF Begins
<1>5. c <= MaxPulses \div Chunk
  <2>1. c * Chunk <= MaxPulses
    BY <1>1, <1>3, <1>4
  <2>2. QED
    BY <1>1, <2>1, SMT
<1>6. (c + 1) - 1 = c
  BY <1>1
<1>7. QED
  BY <1>1, <1>3, <1>4, <1>5, <1>6 DEF Begins, Chunks

LEMMA InitType == StreamInit => StreamTypeOK
<1> SUFFICES ASSUME StreamInit PROVE StreamTypeOK
  OBVIOUS
<1> USE Bounds
<1>1. item \in ItemRecord
  BY DEF StreamInit, NoItem, ItemRecord
<1>2. NoExec \in ExecRecord /\ NoCall \in CallRecord
  BY DEF NoExec, ExecRecord, NoCall, CallRecord
<1>3. execs \in [Sessions -> [Chunks -> ExecRecord]] /\ ticks \in [Ticks -> CallRecord]
  BY <1>2 DEF StreamInit
<1>4. QED
  BY <1>1, <1>3 DEF StreamInit, StreamTypeOK, ItemRecord, ExecRecord, CallRecord

LEMMA TerminalType ==
    ASSUME item \in ItemRecord, NEW s, NEW status \in {"stopped", "failed"}, Terminal(s, status)
    PROVE  /\ item' \in ItemRecord
           /\ item'.session = item.session /\ item'.emitted = item.emitted
           /\ ~Runs(s) => item' = item
BY DEF Terminal, ItemRecord

LEMMA BindType ==
    ASSUME item \in ItemRecord, NEW s, NEW c \in Chunks, Bind(s, c)
    PROVE  /\ item' \in ItemRecord
           /\ item'.session = item.session /\ item'.emitted = item.emitted
           /\ ~Runs(s) => item' = item
BY DEF Bind, ItemRecord

\* What one execution becomes, when the others stay.
LEMMA OneExec ==
    ASSUME execs \in [Sessions -> [Chunks -> ExecRecord]], NEW s \in Sessions, NEW c \in Chunks,
           NEW x \in ExecRecord, execs' = [execs EXCEPT ![s][c] = x]
    PROVE  /\ execs' \in [Sessions -> [Chunks -> ExecRecord]]
           /\ execs'[s][c] = x
           /\ \A r \in Sessions, d \in Chunks : r # s \/ d # c => execs'[r][d] = execs[r][d]
OBVIOUS

LEMMA StartExecutionType ==
    ASSUME execs \in [Sessions -> [Chunks -> ExecRecord]], NEW s \in Sessions, NEW c \in Chunks,
           NEW seq \in Nat, StartExecution(s, c, seq)
    PROVE  /\ execs' \in [Sessions -> [Chunks -> ExecRecord]]
           /\ execs[s][c].pc = "none" =>
                /\ execs'[s][c].pc = "emit" /\ execs'[s][c].seq = seq /\ execs'[s][c].ce = 0
           /\ execs[s][c].pc # "none" => execs'[s][c] = execs[s][c]
           /\ \A r \in Sessions, d \in Chunks : r # s \/ d # c => execs'[r][d] = execs[r][d]
<1> DEFINE x == IF execs[s][c].pc = "none" THEN [NoExec EXCEPT !.pc = "emit", !.seq = seq]
                ELSE execs[s][c]
<1>1. x \in ExecRecord /\ (execs[s][c].pc = "none" => x.pc = "emit" /\ x.seq = seq /\ x.ce = 0)
  BY DEF NoExec, ExecRecord
<1>2. execs' = [execs EXCEPT ![s][c] = x]
  BY DEF StartExecution
<1> HIDE DEF x
<1>3. /\ execs' \in [Sessions -> [Chunks -> ExecRecord]]
      /\ execs'[s][c] = x
      /\ \A r \in Sessions, d \in Chunks : r # s \/ d # c => execs'[r][d] = execs[r][d]
  BY <1>1, <1>2, OneExec
<1>4. execs[s][c].pc # "none" => x = execs[s][c]
  BY DEF x
<1>5. QED
  BY <1>1, <1>3, <1>4

\* An answer ends its invocation, and moves only the executions that wait for it.
LEMMA AnswerType ==
    ASSUME StreamTyped, NEW t \in Ticks, NEW goOn \in BOOLEAN, NEW seq \in Nat, NEW ce \in Nat,
           Answer(t, goOn, seq, ce)
    PROVE  /\ execs' \in [Sessions -> [Chunks -> ExecRecord]] /\ ticks' \in [Ticks -> CallRecord]
           /\ ticks'[t] = NoCall /\ \A u \in Ticks \ {t} : ticks'[u] = ticks[u]
           /\ \A s \in Sessions, c \in Chunks :
                IF WaitsFor(t, s, c)
                THEN \/ /\ goOn /\ execs'[s][c].pc = "emit"
                        /\ execs'[s][c].seq = seq /\ execs'[s][c].ce = ce
                     \/ /\ execs'[s][c].pc = "ended"
                        /\ execs'[s][c].seq = execs[s][c].seq /\ execs'[s][c].ce = execs[s][c].ce
                ELSE execs'[s][c] = execs[s][c]
<1>1. NoCall \in CallRecord
  BY DEF NoCall, CallRecord
<1>2. ticks' = [ticks EXCEPT ![t] = NoCall] /\ ticks \in [Ticks -> CallRecord]
  BY DEF Answer, StreamTyped
<1> DEFINE x(s, c) == IF WaitsFor(t, s, c)
                      THEN IF goOn THEN [NoExec EXCEPT !.pc = "emit", !.seq = seq, !.ce = ce]
                           ELSE [execs[s][c] EXCEPT !.pc = "ended", !.tick = NoTick]
                      ELSE execs[s][c]
<1>3. execs' = [s \in Sessions |-> [c \in Chunks |-> x(s, c)]]
  BY DEF Answer
<1>4. ASSUME NEW s \in Sessions, NEW c \in Chunks
      PROVE  /\ x(s, c) \in ExecRecord
             /\ IF WaitsFor(t, s, c)
                THEN \/ /\ goOn /\ x(s, c).pc = "emit" /\ x(s, c).seq = seq /\ x(s, c).ce = ce
                     \/ /\ x(s, c).pc = "ended"
                        /\ x(s, c).seq = execs[s][c].seq /\ x(s, c).ce = execs[s][c].ce
                ELSE x(s, c) = execs[s][c]
  <2>1. execs[s][c] \in ExecRecord
    BY DEF StreamTyped
  <2>2. QED
    BY <2>1 DEF NoExec, ExecRecord
<1> HIDE DEF x
<1>5. execs' \in [Sessions -> [Chunks -> ExecRecord]]
  BY <1>3, <1>4
<1>6. \A s \in Sessions, c \in Chunks : execs'[s][c] = x(s, c)
  BY <1>3
<1>7. ticks' \in [Ticks -> CallRecord] /\ ticks'[t] = NoCall
      /\ \A u \in Ticks \ {t} : ticks'[u] = ticks[u]
  BY <1>1, <1>2
<1>8. QED
  BY <1>4, <1>5, <1>6, <1>7

LEMMA GotoTickType ==
    ASSUME ticks \in [Ticks -> CallRecord], NEW t \in Ticks, NEW pc, GotoTick(t, pc),
           pc \in {"put", "announce", "advance", "rotate", "next", "answer"}
    PROVE  /\ ticks' \in [Ticks -> CallRecord] /\ ticks'[t].pc = pc
           /\ ticks'[t].session = ticks[t].session /\ ticks'[t].chunk = ticks[t].chunk
           /\ ticks'[t].seq = ticks[t].seq /\ ticks'[t].ce = ticks[t].ce
           /\ ticks'[t].total = ticks[t].total
           /\ \A u \in Ticks \ {t} : ticks'[u] = ticks[u]
BY DEF GotoTick, CallRecord

\* The requests, and the count of faults.
Asides ==
    /\ starts \in [Sessions -> [pc : {"idle", "create", "start", "failed", "bind", "done"},
                                total : {0, Total}]]
    /\ stops \in [Stops -> [pc : {"idle", "mark", "halt", "done"},
                            session : Sessions \cup {NoSession}, arn : Chunks \cup {0}]]
    /\ faults \in [{"error", "lost", "dead"} -> Nat]

LEMMA TypeParts == StreamTypeOK <=> StreamTyped /\ Asides
BY DEF StreamTypeOK, StreamTyped, Asides, ItemRecord, ExecRecord, CallRecord

LEMMA GotoStartType ==
    ASSUME Asides, NEW s \in Sessions,
           NEW pc \in {"create", "start", "failed", "bind", "done"}, GotoStart(s, pc)
    PROVE  /\ starts' \in [Sessions -> [pc : {"idle", "create", "start", "failed", "bind", "done"},
                                        total : {0, Total}]]
           /\ starts'[s].pc = pc /\ \A r \in Sessions \ {s} : starts'[r] = starts[r]
BY DEF GotoStart, Asides

LEMMA FaultType ==
    ASSUME Asides, NEW kind \in {"error", "lost", "dead"}, Fault(kind)
    PROVE  faults' \in [{"error", "lost", "dead"} -> Nat]
BY DEF Fault, Asides

LEMMA StartStepType ==
    ASSUME StreamTypeOK, NEW s \in Sessions, ReadForStart(s) \/ StartStep(s) \/ StartDies(s)
    PROVE  StreamTypeOK'
<1> USE Bounds
<1>1. StreamTyped /\ Asides
  BY TypeParts
<1> SUFFICES StreamTyped' /\ Asides'
  BY TypeParts DEF StreamTyped, Asides, StreamTypeOK, ItemRecord, ExecRecord, CallRecord
<1>2. item \in ItemRecord /\ execs \in [Sessions -> [Chunks -> ExecRecord]]
  BY <1>1 DEF StreamTyped
<1>3. CASE ReadForStart(s)
  BY <1>1, <1>3 DEF ReadForStart, StreamTyped, Asides
<1>4. CASE CreateItem(s)
  <2>1. starts' \in [Sessions -> [pc : {"idle", "create", "start", "failed", "bind", "done"},
                                  total : {0, Total}]]
    <3>1. GotoStart(s, "start") \/ GotoStart(s, "done")
      BY <1>4 DEF CreateItem
    <3>2. QED
      BY <1>1, <3>1, GotoStartType
  <2>2. item' \in ItemRecord
    <3>1. starts[s].total \in {0, Total}
      BY <1>1 DEF Asides
    <3>2. QED
      BY <1>2, <1>4, <3>1 DEF CreateItem, NoItem, ItemRecord
  <2>3. QED
    BY <1>1, <1>4, <2>1, <2>2 DEF CreateItem, StreamTyped, Asides
<1>5. CASE StartFirst(s)
  <2>1. execs' \in [Sessions -> [Chunks -> ExecRecord]]
    BY <1>2, <1>5, StartExecutionType DEF StartFirst
  <2>2. QED
    BY <1>1, <1>5, <2>1, GotoStartType DEF StartFirst, StreamTyped, Asides
<1>6. CASE StartFirstFails(s)
  <2>1. execs' \in [Sessions -> [Chunks -> ExecRecord]]
    BY <1>2, <1>6, StartExecutionType DEF StartFirstFails
  <2>2. QED
    BY <1>1, <1>6, <2>1, GotoStartType, FaultType DEF StartFirstFails, StreamTyped, Asides
<1>7. CASE RecordStartFailure(s)
  BY <1>1, <1>2, <1>7, GotoStartType, TerminalType DEF RecordStartFailure, StreamTyped, Asides
<1>8. CASE BindFirst(s)
  BY <1>1, <1>2, <1>8, GotoStartType, BindType DEF BindFirst, StreamTyped, Asides
<1>9. CASE StartDies(s)
  BY <1>1, <1>9, GotoStartType, FaultType DEF StartDies, StreamTyped, Asides
<1>10. QED
  BY <1>3, <1>4, <1>5, <1>6, <1>7, <1>8, <1>9 DEF StartStep

\* What a stop leaves of an execution: nothing but its end, if there is one.
LEMMA HaltType ==
    ASSUME StreamTypeOK, NEW r \in Stops, HaltExecution(r)
    PROVE  /\ execs' \in [Sessions -> [Chunks -> ExecRecord]]
           /\ \A s \in Sessions, c \in Chunks :
                \/ execs'[s][c] = execs[s][c]
                \/ /\ execs[s][c].pc # "none" /\ execs'[s][c].pc = "ended"
                   /\ execs'[s][c].seq = execs[s][c].seq /\ execs'[s][c].ce = execs[s][c].ce
<1> DEFINE s == stops[r].session  c == stops[r].arn
           x == IF execs[s][c].pc = "none" THEN execs[s][c]
                ELSE [execs[s][c] EXCEPT !.pc = "ended", !.tick = NoTick]
<1>1. execs \in [Sessions -> [Chunks -> ExecRecord]]
  BY TypeParts DEF StreamTyped
<1>2. CASE UNCHANGED execs
  BY <1>1, <1>2
<1>3. CASE execs' = [execs EXCEPT ![s][c] = x] /\ s \in Sessions /\ c \in Chunks
  <2>1. /\ x \in ExecRecord
        /\ \/ x = execs[s][c]
           \/ /\ execs[s][c].pc # "none" /\ x.pc = "ended"
              /\ x.seq = execs[s][c].seq /\ x.ce = execs[s][c].ce
    <3>1. execs[s][c] \in ExecRecord
      BY <1>1, <1>3
    <3>2. QED
      BY <3>1 DEF ExecRecord
  <2> HIDE DEF x, s, c
  <2>2. /\ execs' \in [Sessions -> [Chunks -> ExecRecord]]
        /\ execs'[s][c] = x
        /\ \A q \in Sessions, d \in Chunks : q # s \/ d # c => execs'[q][d] = execs[q][d]
    BY <1>1, <1>3, <2>1, OneExec
  <2>3. QED
    BY <2>1, <2>2
<1>4. CASE execs' = [execs EXCEPT ![s][c] = x] /\ (s \notin Sessions \/ c \notin Chunks)
  <2>1. execs' = execs
    BY <1>1, <1>4
  <2>2. QED
    BY <1>1, <2>1
<1>5. QED
  BY <1>2, <1>3, <1>4 DEF HaltExecution

LEMMA StopType ==
    ASSUME Asides, NEW r \in Stops, NEW pc \in {"mark", "halt", "done"},
           stops' = [stops EXCEPT ![r] = [@ EXCEPT !.pc = pc]]
    PROVE  stops' \in [Stops -> [pc : {"idle", "mark", "halt", "done"},
                                 session : Sessions \cup {NoSession}, arn : Chunks \cup {0}]]
BY DEF Asides

LEMMA StopStepType ==
    ASSUME StreamTypeOK, NEW r \in Stops, ReadForStop(r) \/ StopStep(r) \/ StopDies(r)
    PROVE  StreamTypeOK'
<1>1. StreamTyped /\ Asides
  BY TypeParts
<1> SUFFICES StreamTyped' /\ Asides'
  BY TypeParts DEF StreamTyped, Asides, StreamTypeOK, ItemRecord, ExecRecord, CallRecord
<1>2. item \in ItemRecord
  BY <1>1 DEF StreamTyped
<1>3. CASE ReadForStop(r)
  BY <1>1, <1>2, <1>3 DEF ReadForStop, StreamTyped, Asides, ItemRecord
<1>4. CASE MarkStopped(r)
  <2>1. item' \in ItemRecord
    BY <1>2, <1>4, TerminalType DEF MarkStopped
  <2>2. stops' \in [Stops -> [pc : {"idle", "mark", "halt", "done"},
                              session : Sessions \cup {NoSession}, arn : Chunks \cup {0}]]
    BY <1>1, <1>4, StopType DEF MarkStopped
  <2>3. QED
    BY <1>1, <1>4, <2>1, <2>2 DEF MarkStopped, StreamTyped, Asides
<1>5. CASE HaltExecution(r)
  <2>1. faults' \in [{"error", "lost", "dead"} -> Nat]
    BY <1>1, <1>5, FaultType DEF HaltExecution, Asides
  <2>2. stops' \in [Stops -> [pc : {"idle", "mark", "halt", "done"},
                              session : Sessions \cup {NoSession}, arn : Chunks \cup {0}]]
    BY <1>1, <1>5, StopType DEF HaltExecution
  <2>3. QED
    BY <1>1, <1>5, <2>1, <2>2, HaltType DEF HaltExecution, StreamTyped, Asides
<1>6. CASE StopDies(r)
  BY <1>1, <1>6, FaultType DEF StopDies, StreamTyped, Asides
<1>7. QED
  BY <1>3, <1>4, <1>5, <1>6 DEF StopStep

LEMMA ExecStepType ==
    ASSUME StreamTypeOK, CallsAreNamed, NEW s \in Sessions, NEW c \in Chunks,
           ExecStep(s, c) \/ LoseAnswer(s, c)
    PROVE  StreamTypeOK'
<1> USE Bounds
<1>1. StreamTyped /\ Asides
  BY TypeParts
<1> SUFFICES StreamTyped' /\ Asides'
  BY TypeParts DEF StreamTyped, Asides, StreamTypeOK, ItemRecord, ExecRecord, CallRecord
<1>2. /\ execs \in [Sessions -> [Chunks -> ExecRecord]] /\ execs[s][c] \in ExecRecord
      /\ ticks \in [Ticks -> CallRecord] /\ item \in ItemRecord
  BY <1>1 DEF StreamTyped
<1>3. ASSUME NEW t \in Ticks, Invoke(s, c, t) PROVE StreamTyped' /\ Asides'
  <2> DEFINE x == [execs[s][c] EXCEPT !.pc = "wait", !.tick = t]
             y == [NoCall EXCEPT !.pc = "read", !.session = s, !.chunk = c,
                                 !.seq = execs[s][c].seq, !.ce = execs[s][c].ce]
  <2>1. x \in ExecRecord /\ y \in CallRecord
    BY <1>2 DEF ExecRecord, NoCall, CallRecord
  <2>2. execs' = [execs EXCEPT ![s][c] = x] /\ ticks' = [ticks EXCEPT ![t] = y]
    BY <1>3 DEF Invoke
  <2> HIDE DEF x, y
  <2>3. execs' \in [Sessions -> [Chunks -> ExecRecord]] /\ ticks' \in [Ticks -> CallRecord]
    BY <1>2, <2>1, <2>2, OneExec
  <2>4. QED
    BY <1>1, <1>3, <2>3 DEF Invoke, StreamTyped, Asides
<1>4. CASE RecordFailure(s, c)
  <2> DEFINE x == [execs[s][c] EXCEPT !.pc = "ended"]
  <2>1. x \in ExecRecord
    BY <1>2 DEF ExecRecord
  <2>2. execs' = [execs EXCEPT ![s][c] = x]
    BY <1>4 DEF RecordFailure
  <2> HIDE DEF x
  <2>3. execs' \in [Sessions -> [Chunks -> ExecRecord]]
    BY <1>2, <2>1, <2>2, OneExec
  <2>4. item' \in ItemRecord /\ faults' \in [{"error", "lost", "dead"} -> Nat]
    BY <1>1, <1>2, <1>4, TerminalType, FaultType DEF RecordFailure, Asides
  <2>5. QED
    BY <1>1, <1>4, <2>3, <2>4 DEF RecordFailure, StreamTyped, Asides
<1>5. CASE LoseAnswer(s, c)
  <2>0. PICK pc \in {"emit", "fail"} :
            execs' = [execs EXCEPT ![s][c] = [@ EXCEPT !.pc = pc, !.tick = NoTick,
                                                       !.tries = execs[s][c].tries + 1]]
    BY <1>5 DEF LoseAnswer
  <2> DEFINE x == [execs[s][c] EXCEPT !.pc = pc, !.tick = NoTick,
                                      !.tries = execs[s][c].tries + 1]
  <2>1. x \in ExecRecord
    <3>1. execs[s][c].tries + 1 \in Nat
      BY <1>2 DEF ExecRecord
    <3>2. QED
      BY <1>2, <3>1 DEF ExecRecord
  <2>2. execs' = [execs EXCEPT ![s][c] = x]
    BY <2>0
  <2> HIDE DEF x
  <2>3. execs' \in [Sessions -> [Chunks -> ExecRecord]]
    BY <1>2, <2>1, <2>2, OneExec
  <2>4. QED
    BY <1>1, <1>5, <2>3, FaultType DEF LoseAnswer, StreamTyped, Asides
<1>6. QED
  BY <1>3, <1>4, <1>5 DEF ExecStep

\* What a step of an invocation finds in its own record.
LEMMA TheCall ==
    ASSUME StreamTyped, CallsAreNamed, NEW t \in Ticks, ticks[t].pc # "idle"
    PROVE  /\ ticks[t] \in CallRecord
           /\ ticks[t].session \in Sessions /\ ticks[t].chunk \in Chunks
           /\ ticks[t].seq \in Pulses /\ ticks[t].seq \in Nat /\ ticks[t].ce \in Nat
           /\ ticks[t].total \in {0, Total}
BY Bounds DEF StreamTyped, CallsAreNamed, CallRecord

LEMMA TickFailsType ==
    ASSUME StreamTypeOK, NEW t \in Ticks, TickFails(t)
    PROVE  /\ StreamTypeOK'
           /\ ticks'[t] = NoCall /\ \A u \in Ticks \ {t} : ticks'[u] = ticks[u]
           /\ \A s \in Sessions, c \in Chunks :
                IF WaitsFor(t, s, c)
                THEN /\ execs'[s][c].pc = "fail" /\ execs'[s][c].seq = execs[s][c].seq
                     /\ execs'[s][c].ce = execs[s][c].ce
                ELSE execs'[s][c] = execs[s][c]
<1>1. StreamTyped /\ Asides
  BY TypeParts
<1> DEFINE x(s, c) == IF WaitsFor(t, s, c) THEN [execs[s][c] EXCEPT !.pc = "fail", !.tick = NoTick]
                      ELSE execs[s][c]
<1>2. execs' = [s \in Sessions |-> [c \in Chunks |-> x(s, c)]]
  BY DEF TickFails
<1>3. ASSUME NEW s \in Sessions, NEW c \in Chunks
      PROVE  /\ x(s, c) \in ExecRecord
             /\ IF WaitsFor(t, s, c)
                THEN /\ x(s, c).pc = "fail" /\ x(s, c).seq = execs[s][c].seq
                     /\ x(s, c).ce = execs[s][c].ce
                ELSE x(s, c) = execs[s][c]
  <2>1. execs[s][c] \in ExecRecord
    BY <1>1 DEF StreamTyped
  <2>2. QED
    BY <2>1 DEF ExecRecord
<1> HIDE DEF x
<1>4. execs' \in [Sessions -> [Chunks -> ExecRecord]]
  BY <1>2, <1>3
<1>5. \A s \in Sessions, c \in Chunks : execs'[s][c] = x(s, c)
  BY <1>2
<1>6. NoCall \in CallRecord /\ ticks \in [Ticks -> CallRecord]
  BY <1>1 DEF NoCall, CallRecord, StreamTyped
<1>7. ticks' \in [Ticks -> CallRecord] /\ ticks'[t] = NoCall
      /\ \A u \in Ticks \ {t} : ticks'[u] = ticks[u]
  BY <1>6 DEF TickFails
<1>8. StreamTyped' /\ Asides'
  BY <1>1, <1>4, <1>7, FaultType DEF TickFails, StreamTyped, Asides
<1>9. StreamTypeOK'
  BY <1>8 DEF StreamTyped, Asides, StreamTypeOK, ItemRecord, ExecRecord, CallRecord
<1>10. QED
  BY <1>3, <1>5, <1>7, <1>9

\* A session that emits a pulse has it in its item, and ends or goes on.
LEMMA AdvanceItem ==
    ASSUME StreamTyped, CallsAreNamed, NEW t \in Ticks, Advance(t)
    PROVE  /\ item' \in ItemRecord /\ item'.session = item.session
           /\ MayAdvance(t) => item.session = ticks[t].session /\ item'.emitted = ticks[t].seq
           /\ ~MayAdvance(t) => item' = item
<1>1. ticks[t].seq \in Pulses
  BY TheCall DEF Advance
<1>2. item \in ItemRecord
  BY DEF StreamTyped
<1>3. CASE MayAdvance(t)
  <2>1. item' = [item EXCEPT !.emitted = ticks[t].seq,
                             !.status = IF Final(t) THEN "completed" ELSE "running"]
    BY <1>3 DEF Advance
  <2>2. item.session = ticks[t].session
    BY <1>3 DEF MayAdvance, Runs
  <2>3. QED
    BY <1>1, <1>2, <1>3, <2>1, <2>2 DEF ItemRecord
<1>4. CASE ~MayAdvance(t)
  BY <1>2, <1>4 DEF Advance
<1>5. QED
  BY <1>3, <1>4

\* The answers of an invocation: whom it concerns has been said by AnswerType.
Answered(t, goOn, seq, ce) ==
    /\ ticks'[t] = NoCall /\ \A u \in Ticks \ {t} : ticks'[u] = ticks[u]
    /\ \A s \in Sessions, c \in Chunks :
        IF WaitsFor(t, s, c)
        THEN \/ /\ goOn /\ execs'[s][c].pc = "emit"
                /\ execs'[s][c].seq = seq /\ execs'[s][c].ce = ce
             \/ /\ execs'[s][c].pc \in {"fail", "ended"}
                /\ execs'[s][c].seq = execs[s][c].seq /\ execs'[s][c].ce = execs[s][c].ce
        ELSE execs'[s][c] = execs[s][c]

LEMMA NoAnswer ==
    ASSUME StreamTyped, NEW t \in Ticks, Answer(t, FALSE, 0, 0)
    PROVE  /\ execs' \in [Sessions -> [Chunks -> ExecRecord]] /\ ticks' \in [Ticks -> CallRecord]
           /\ Answered(t, FALSE, 0, 0)
<1>1. /\ execs' \in [Sessions -> [Chunks -> ExecRecord]] /\ ticks' \in [Ticks -> CallRecord]
      /\ ticks'[t] = NoCall /\ \A u \in Ticks \ {t} : ticks'[u] = ticks[u]
      /\ \A s \in Sessions, c \in Chunks :
            IF WaitsFor(t, s, c)
            THEN /\ execs'[s][c].pc = "ended"
                 /\ execs'[s][c].seq = execs[s][c].seq /\ execs'[s][c].ce = execs[s][c].ce
            ELSE execs'[s][c] = execs[s][c]
  BY AnswerType
<1>2. QED
  BY <1>1 DEF Answered

\* An invocation goes on with what it has.
Moved(t, pc) ==
    /\ ticks'[t].pc = pc
    /\ ticks'[t].session = ticks[t].session /\ ticks'[t].chunk = ticks[t].chunk
    /\ ticks'[t].seq = ticks[t].seq /\ ticks'[t].ce = ticks[t].ce
    /\ \A u \in Ticks \ {t} : ticks'[u] = ticks[u]

LEMMA TickReadShape ==
    ASSUME StreamTyped, CallsAreNamed, NEW t \in Ticks, TickRead(t)
    PROVE  /\ execs' \in [Sessions -> [Chunks -> ExecRecord]] /\ ticks' \in [Ticks -> CallRecord]
           /\ \/ Answered(t, FALSE, 0, 0)
              \/ /\ item.session = ticks[t].session /\ item.emitted >= ticks[t].seq
                 /\ Answered(t, TRUE, item.emitted + 1, ticks[t].ce + 1)
              \/ /\ item.session = ticks[t].session /\ item.emitted < ticks[t].seq
                 /\ Moved(t, "put") /\ UNCHANGED execs
<1> USE Bounds
<1>1. /\ ticks[t] \in CallRecord /\ ticks[t].ce + 1 \in Nat
      /\ item.emitted \in Nat /\ item.emitted + 1 \in Nat
      /\ ticks[t].seq \in Nat /\ item.total \in {0, Total}
  BY TheCall DEF TickRead, StreamTyped, ItemRecord
<1>2. CASE ~Mine(t)
  <2>1. Answer(t, FALSE, 0, 0)
    BY <1>2 DEF TickRead
  <2>2. /\ execs' \in [Sessions -> [Chunks -> ExecRecord]] /\ ticks' \in [Ticks -> CallRecord]
        /\ Answered(t, FALSE, 0, 0)
    BY <2>1, NoAnswer
  <2>3. QED
    BY <2>2
<1>3. CASE Mine(t) /\ item.emitted >= ticks[t].seq
  <2> DEFINE goOn == ~(item.total # 0 /\ item.emitted >= item.total)
  <2>1. Answer(t, goOn, item.emitted + 1, ticks[t].ce + 1) /\ goOn \in BOOLEAN
    BY <1>3 DEF TickRead
  <2> HIDE DEF goOn
  <2>2. item.session = ticks[t].session
    BY <1>3 DEF Mine, Runs
  <2>3. /\ execs' \in [Sessions -> [Chunks -> ExecRecord]] /\ ticks' \in [Ticks -> CallRecord]
        /\ Answered(t, goOn, item.emitted + 1, ticks[t].ce + 1)
    BY <1>1, <2>1, AnswerType DEF Answered
  <2>4. Answered(t, TRUE, item.emitted + 1, ticks[t].ce + 1)
    BY <2>3 DEF Answered
  <2>5. QED
    BY <1>3, <2>2, <2>3, <2>4
<1>4. CASE Mine(t) /\ ~(item.emitted >= ticks[t].seq)
  <2>1. ticks' = [ticks EXCEPT ![t] = [@ EXCEPT !.pc = "put", !.total = item.total]]
        /\ UNCHANGED execs
    BY <1>4 DEF TickRead
  <2>2. item.session = ticks[t].session
    BY <1>4 DEF Mine, Runs
  <2>3. ticks' \in [Ticks -> CallRecord] /\ Moved(t, "put")
    BY <1>1, <2>1 DEF StreamTyped, CallRecord, Moved
  <2>4. item.emitted < ticks[t].seq
    BY <1>1, <1>4
  <2>5. QED
    BY <2>1, <2>2, <2>3, <2>4 DEF StreamTyped
<1>5. QED
  BY <1>2, <1>3, <1>4

LEMMA GotoTickShape ==
    ASSUME StreamTyped, NEW t \in Ticks, NEW pc, GotoTick(t, pc),
           pc \in {"put", "announce", "advance", "rotate", "next", "answer"}
    PROVE  ticks' \in [Ticks -> CallRecord] /\ Moved(t, pc) /\ ticks'[t].total = ticks[t].total
BY GotoTickType DEF StreamTyped, Moved

LEMMA AdvanceShape ==
    ASSUME StreamTyped, CallsAreNamed, NEW t \in Ticks, Advance(t)
    PROVE  /\ execs' \in [Sessions -> [Chunks -> ExecRecord]] /\ ticks' \in [Ticks -> CallRecord]
           /\ \/ /\ MayAdvance(t) /\ Rotates(t) /\ Moved(t, "rotate") /\ UNCHANGED execs
                 /\ ticks'[t].total = ticks[t].total
              \/ ~MayAdvance(t) /\ Answered(t, FALSE, 0, 0)
              \/ MayAdvance(t) /\ Answered(t, TRUE, ticks[t].seq + 1, ticks[t].ce + 1)
<1>1. ticks[t].ce + 1 \in Nat /\ ticks[t].seq + 1 \in Nat
  BY TheCall DEF Advance
<1>2. CASE MayAdvance(t) /\ Rotates(t)
  BY <1>2, GotoTickShape DEF Advance, StreamTyped
<1>3. CASE ~(MayAdvance(t) /\ Rotates(t))
  <2> DEFINE goOn == MayAdvance(t) /\ ~Final(t)
  <2>1. Answer(t, goOn, ticks[t].seq + 1, ticks[t].ce + 1) /\ goOn \in BOOLEAN
    BY <1>3 DEF Advance
  <2>2. ~MayAdvance(t) => ~goOn
    OBVIOUS
  <2> HIDE DEF goOn
  <2>3. /\ execs' \in [Sessions -> [Chunks -> ExecRecord]] /\ ticks' \in [Ticks -> CallRecord]
        /\ Answered(t, goOn, ticks[t].seq + 1, ticks[t].ce + 1)
    BY <1>1, <2>1, AnswerType DEF Answered
  <2>4. MayAdvance(t) => Answered(t, TRUE, ticks[t].seq + 1, ticks[t].ce + 1)
    BY <2>3 DEF Answered
  <2>5. ~MayAdvance(t) => Answered(t, FALSE, 0, 0)
    BY <2>2, <2>3 DEF Answered
  <2>6. QED
    BY <2>3, <2>4, <2>5
<1>4. QED
  BY <1>2, <1>3

LEMMA BindNextShape ==
    ASSUME StreamTyped, CallsAreNamed, NEW t \in Ticks, BindNext(t)
    PROVE  /\ execs' \in [Sessions -> [Chunks -> ExecRecord]] /\ ticks' \in [Ticks -> CallRecord]
           /\ \/ Moved(t, "next") /\ UNCHANGED execs /\ ticks'[t].total = ticks[t].total
              \/ Answered(t, FALSE, 0, 0)
<1>1. CASE GotoTick(t, "next") /\ UNCHANGED execs
  BY <1>1, GotoTickShape DEF StreamTyped
<1>2. CASE Answer(t, FALSE, 0, 0)
  BY <1>2, NoAnswer
<1>3. QED
  BY <1>1, <1>2 DEF BindNext

LEMMA TickStepType ==
    ASSUME StreamInv, NEW t \in Ticks, TickStep(t)
    PROVE  StreamTypeOK'
<1> USE Bounds
<1>1. StreamTyped /\ Asides /\ CallsAreNamed
  BY TypeParts DEF StreamInv
<1> SUFFICES StreamTyped' /\ Asides'
  BY TypeParts DEF StreamTyped, Asides, StreamTypeOK, ItemRecord, ExecRecord, CallRecord
<1>2. item \in ItemRecord /\ execs \in [Sessions -> [Chunks -> ExecRecord]]
      /\ ticks \in [Ticks -> CallRecord]
  BY <1>1 DEF StreamTyped
<1>3. ticks[t].pc # "idle" => ticks[t].session \in Sessions /\ ticks[t].seq \in Pulses
                              /\ ticks[t].chunk \in Chunks /\ ticks[t].ce \in Nat
                              /\ ticks[t].seq \in Nat
  BY <1>1, TheCall
<1>4. CASE TickRead(t)
  BY <1>1, <1>4, TickReadShape DEF TickRead, StreamTyped, Asides
<1>5. CASE PutObject(t)
  <2>1. ticks' \in [Ticks -> CallRecord]
    BY <1>1, <1>5, GotoTickShape DEF PutObject
  <2>2. landings' \in [Sessions -> SUBSET Pulses]
    BY <1>1, <1>3, <1>5 DEF PutObject, StreamTyped
  <2>3. QED
    BY <1>1, <1>5, <2>1, <2>2 DEF PutObject, StreamTyped, Asides
<1>6. CASE Announce(t)
  <2>1. ticks' \in [Ticks -> CallRecord]
    BY <1>1, <1>6, GotoTickShape DEF Announce
  <2>2. announced' \in [Sessions -> [Pulses -> Nat]]
    <3> DEFINE n == announced[ticks[t].session][ticks[t].seq] + 1
    <3>1. n \in Nat
      BY <1>1, <1>3, <1>6 DEF Announce, StreamTyped
    <3>2. announced' = [announced EXCEPT ![ticks[t].session][ticks[t].seq] = n]
      BY <1>6 DEF Announce
    <3> HIDE DEF n
    <3>3. QED
      BY <1>1, <1>3, <1>6, <3>1, <3>2 DEF Announce, StreamTyped
  <2>3. QED
    BY <1>1, <1>6, <2>1, <2>2 DEF Announce, StreamTyped, Asides
<1>7. CASE Advance(t)
  <2>1. item' \in ItemRecord
    BY <1>1, <1>7, AdvanceItem
  <2>2. QED
    BY <1>1, <1>7, <2>1, AdvanceShape DEF Advance, StreamTyped, Asides
<1>8. CASE BindNext(t)
  <2>1. ticks[t].chunk + 1 \in Chunks
    <3>1. Rotates(t) /\ Begins(ticks[t].chunk, ticks[t].seq, ticks[t].ce)
      BY <1>8 DEF BindNext, StreamInv, ChunksAreFull
    <3>2. QED
      BY <1>3, <1>8, <3>1, NextChunk DEF BindNext, Rotates
  <2>2. item' \in ItemRecord
    BY <1>2, <1>8, <2>1, BindType DEF BindNext
  <2>3. QED
    BY <1>1, <1>8, <2>2, BindNextShape DEF BindNext, StreamTyped, Asides
<1>9. CASE StartNext(t)
  <2>1. ticks[t].chunk + 1 \in Chunks
    <3>1. Rotates(t) /\ Begins(ticks[t].chunk, ticks[t].seq, ticks[t].ce)
      BY <1>9 DEF StartNext, StreamInv, ChunksAreFull
    <3>2. QED
      BY <1>3, <1>9, <3>1, NextChunk DEF StartNext, Rotates
  <2>2. execs' \in [Sessions -> [Chunks -> ExecRecord]]
    <3>1. ticks[t].seq + 1 \in Nat
      BY <1>3, <1>9 DEF StartNext
    <3>2. QED
      BY <1>2, <1>3, <1>9, <2>1, <3>1, StartExecutionType DEF StartNext
  <2>3. QED
    BY <1>1, <1>9, <2>2, GotoTickShape DEF StartNext, StreamTyped, Asides
<1>10. CASE AnswerRotation(t)
  BY <1>1, <1>10, AnswerType DEF AnswerRotation, StreamTyped, Asides
<1>11. QED
  BY <1>4, <1>5, <1>6, <1>7, <1>8, <1>9, <1>10 DEF TickStep

-----------------------------------------------------------------------------
(* What every step keeps.                                                  *)

LEMMA BeginsOn ==
    ASSUME NEW c \in Chunks, NEW seq \in Nat, NEW ce \in Nat, NEW later \in Nat,
           Begins(c, seq, ce), later >= seq + 1
    PROVE  Begins(c, later, ce + 1)
<1> USE Bounds
<1>1. (c - 1) * Chunk \in Nat
  BY SMT
<1>2. QED
  BY <1>1 DEF Begins

LEMMA FirstBegins == Begins(1, 1, 0)
<1>1. (1 - 1) * Chunk = 0
  BY Bounds, SMT
<1>2. QED
  BY <1>1 DEF Begins

\* Only the one session whose item is made leaves the requests that have not begun.
StartsGoOn ==
    \A s \in Sessions : starts'[s].pc \in {"idle", "create"} => starts[s].pc \in {"idle", "create"}

\* Some executions end, fail or are to ask again, and nothing else moves.
ExecsSettle ==
    /\ UNCHANGED <<ticks, landings>>
    /\ item'.session = item.session /\ item'.emitted = item.emitted
    /\ \A s \in Sessions, c \in Chunks :
        \/ execs'[s][c] = execs[s][c]
        \/ /\ execs[s][c].pc # "none" /\ execs'[s][c].pc \in {"emit", "fail", "ended"}
           /\ execs'[s][c].seq = execs[s][c].seq /\ execs'[s][c].ce = execs[s][c].ce

LEMMA SettleKeeps ==
    ASSUME StreamInv, StreamTypeOK', StartsGoOn, ExecsSettle
    PROVE  StreamInv'
<1>1. CallsAreNamed'
  BY DEF StreamInv, CallsAreNamed, ExecsSettle
<1>2. CallersAreKnown'
  BY DEF StreamInv, CallersAreKnown, ExecsSettle
<1>3. ChunksAreFull'
  <2>1. \A s \in Sessions, c \in Chunks :
          execs'[s][c].pc # "none" => Begins(c, execs'[s][c].seq, execs'[s][c].ce)
    BY DEF StreamInv, ChunksAreFull, ExecsSettle
  <2>2. QED
    BY <2>1 DEF StreamInv, ChunksAreFull, ExecsSettle, Rotates
<1>4. NothingBefore'
  BY DEF StreamInv, NothingBefore, Unborn, StartsGoOn, ExecsSettle
<1>5. InStep'
  <2> SUFFICES ASSUME NEW s \in Sessions PROVE \E e \in Pulses \cup {0} : Reached(s, e)'
    BY DEF InStep
  <2>1. PICK e \in Pulses \cup {0} : Reached(s, e)
    BY DEF StreamInv, InStep
  <2>2. Reached(s, e)'
    BY <2>1 DEF Reached, ExecsSettle
  <2>3. QED
    BY <2>2
<1>6. QED
  BY <1>1, <1>2, <1>3, <1>4, <1>5 DEF StreamInv

LEMMA StopStepInv ==
    ASSUME StreamInv, NEW r \in Stops, ReadForStop(r) \/ StopStep(r) \/ StopDies(r)
    PROVE  StreamInv'
<1>1. StreamTypeOK' /\ StreamTyped
  BY StopStepType, TypeParts DEF StreamInv
<1>2. StartsGoOn
  BY DEF ReadForStop, StopStep, MarkStopped, HaltExecution, StopDies, StartsGoOn
<1>3. ExecsSettle
  <2>1. CASE HaltExecution(r)
    BY <2>1, HaltType DEF HaltExecution, ExecsSettle, StreamInv
  <2>2. CASE MarkStopped(r)
    <3>1. item \in ItemRecord
      BY <1>1 DEF StreamTyped
    <3>2. QED
      BY <2>2, <3>1, TerminalType DEF MarkStopped, ExecsSettle
  <2>3. QED
    BY <2>1, <2>2 DEF StopStep, ReadForStop, StopDies, ExecsSettle
<1>4. QED
  BY <1>1, <1>2, <1>3, SettleKeeps

\* The first item of a session: what follows it has not begun, and what it replaces is kept.
LEMMA CreateItemInv ==
    ASSUME StreamInv, NEW s \in Sessions, CreateItem(s)
    PROVE  StreamInv'
<1> USE Bounds
<1>1. StreamTypeOK' /\ StreamTyped /\ Asides
  BY StartStepType, TypeParts DEF StreamInv, StartStep
<1>2. CASE MayCreate
  <2>1. /\ item' = [NoItem EXCEPT !.session = s, !.status = "running",
                                  !.total = starts[s].total, !.chunk = 1]
        /\ GotoStart(s, "start") /\ UNCHANGED <<landings, announced, execs, ticks>>
    BY <1>2 DEF CreateItem
  <2>2. item'.session = s /\ item'.emitted = 0
    BY <2>1 DEF NoItem
  <2>3. starts'[s].pc = "start" /\ \A r \in Sessions \ {s} : starts'[r] = starts[r]
    BY <1>1, <2>1, GotoStartType
  <2>4. Unborn(s)
    BY DEF CreateItem, StreamInv, NothingBefore
  <2>5. CallsAreNamed' /\ CallersAreKnown'
    BY <2>1 DEF StreamInv, CallsAreNamed, CallersAreKnown
  <2>6. ChunksAreFull'
    BY <2>1 DEF StreamInv, ChunksAreFull, Rotates
  <2>7. NothingBefore'
    BY <2>1, <2>2, <2>3 DEF StreamInv, NothingBefore, Unborn
  <2>8. InStep'
    <3> SUFFICES ASSUME NEW r \in Sessions PROVE \E e \in Pulses \cup {0} : Reached(r, e)'
      BY DEF InStep
    <3>1. CASE r = s
      <4>1. landings[s] = 1..0
        BY <2>4 DEF Unborn
      <4>2. Reached(s, 0)'
        BY <2>1, <2>2, <2>4, <4>1 DEF Unborn, Reached
      <4>3. QED
        BY <3>1, <4>2
    <3>2. CASE r # s
      <4>1. PICK e \in Pulses \cup {0} : Reached(r, e)
        BY DEF StreamInv, InStep
      <4>2. Reached(r, e)'
        BY <2>1, <2>2, <3>2, <4>1 DEF Reached
      <4>3. QED
        BY <4>2
    <3>3. QED
      BY <3>1, <3>2
  <2>9. QED
    BY <1>1, <2>5, <2>6, <2>7, <2>8 DEF StreamInv
<1>3. CASE ~MayCreate
  <2>1. GotoStart(s, "done") /\ UNCHANGED <<item, landings, execs, ticks>>
    BY <1>3 DEF CreateItem
  <2>2. StartsGoOn
    BY <1>1, <2>1, GotoStartType DEF StartsGoOn
  <2>3. ExecsSettle
    BY <2>1 DEF ExecsSettle
  <2>4. QED
    BY <1>1, <2>2, <2>3, SettleKeeps
<1>4. QED
  BY <1>2, <1>3

\* An execution begins with the pulse after those that its session has emitted.
LEMMA StartKeeps ==
    ASSUME StreamInv, StreamTypeOK', StartsGoOn, NEW s \in Sessions, NEW c \in Chunks, NEW seq \in Nat,
           StartExecution(s, c, seq), UNCHANGED <<item, landings>>,
           starts[s].pc \notin {"idle", "create"}, Begins(c, seq, 0),
           \A e \in Pulses \cup {0} : Reached(s, e) => seq <= e + 1,
           \A t \in Ticks : ticks'[t] = ticks[t] \/
                (/\ ticks'[t].pc = "answer" /\ ticks[t].pc # "idle"
                 /\ ticks'[t].session = ticks[t].session /\ ticks'[t].chunk = ticks[t].chunk
                 /\ ticks'[t].seq = ticks[t].seq /\ ticks'[t].ce = ticks[t].ce)
    PROVE  StreamInv'
<1>1. StreamTyped
  BY TypeParts DEF StreamInv
<1>2. /\ execs[s][c].pc = "none" =>
            /\ execs'[s][c].pc = "emit" /\ execs'[s][c].seq = seq /\ execs'[s][c].ce = 0
      /\ execs[s][c].pc # "none" => execs'[s][c] = execs[s][c]
      /\ \A r \in Sessions, d \in Chunks : r # s \/ d # c => execs'[r][d] = execs[r][d]
  BY <1>1, StartExecutionType DEF StreamTyped
<1>3. ChunksAreFull'
  <2>1. ASSUME NEW r \in Sessions, NEW d \in Chunks, execs'[r][d].pc # "none"
        PROVE  Begins(d, execs'[r][d].seq, execs'[r][d].ce)
    <3>1. CASE r = s /\ d = c /\ execs[s][c].pc = "none"
      BY <1>2, <3>1
    <3>2. CASE ~(r = s /\ d = c /\ execs[s][c].pc = "none")
      BY <1>2, <2>1, <3>2 DEF StreamInv, ChunksAreFull
    <3>3. QED
      BY <3>1, <3>2
  <2>2. ASSUME NEW t \in Ticks
        PROVE  /\ ticks'[t].pc # "idle" => Begins(ticks'[t].chunk, ticks'[t].seq, ticks'[t].ce)
               /\ ticks'[t].pc \in {"rotate", "next"} => Rotates(t)'
    <3>1. ticks'[t] = ticks[t] => (Rotates(t) <=> Rotates(t)')
      BY DEF Rotates
    <3>2. QED
      BY <3>1 DEF StreamInv, ChunksAreFull
  <2>3. QED
    BY <2>1, <2>2 DEF ChunksAreFull
<1>4. NothingBefore'
  BY <1>2 DEF StreamInv, NothingBefore, Unborn, StartsGoOn
<1>5. InStep'
  <2> SUFFICES ASSUME NEW r \in Sessions PROVE \E e \in Pulses \cup {0} : Reached(r, e)'
    BY DEF InStep
  <2>1. PICK e \in Pulses \cup {0} : Reached(r, e)
    BY DEF StreamInv, InStep
  <2>2. \A d \in Chunks : execs'[r][d].seq <= e + 1
    BY <1>2, <2>1 DEF Reached
  <2>3. Reached(r, e)'
    BY <2>1, <2>2 DEF Reached
  <2>4. QED
    BY <2>3
<1>6. CallsAreNamed'
  BY DEF StreamInv, CallsAreNamed
<1>7. CallersAreKnown'
  <2> SUFFICES ASSUME NEW r \in Sessions, NEW d \in Chunks, execs'[r][d].pc = "wait"
               PROVE  \E t \in Ticks : /\ execs'[r][d].tick = t /\ ticks'[t].pc # "idle"
                                       /\ ticks'[t].session = r /\ ticks'[t].chunk = d
    BY DEF CallersAreKnown
  <2>1. execs'[r][d] = execs[r][d]
    BY <1>2
  <2>2. PICK t \in Ticks : /\ execs[r][d].tick = t /\ ticks[t].pc # "idle"
                           /\ ticks[t].session = r /\ ticks[t].chunk = d
    BY <2>1 DEF StreamInv, CallersAreKnown
  <2>3. QED
    BY <2>1, <2>2
<1>8. QED
  BY <1>3, <1>4, <1>5, <1>6, <1>7 DEF StreamInv

LEMMA StartStepInv ==
    ASSUME StreamInv, NEW s \in Sessions, ReadForStart(s) \/ StartStep(s) \/ StartDies(s)
    PROVE  StreamInv'
<1> USE Bounds
<1>1. StreamTypeOK' /\ StreamTyped /\ Asides
  BY StartStepType, TypeParts DEF StreamInv
<1>2. item \in ItemRecord
  BY <1>1 DEF StreamTyped
<1>3. CASE CreateItem(s)
  BY <1>3, CreateItemInv
<1>4. CASE /\ starts[s].pc = "start" /\ UNCHANGED <<item, landings, announced, ticks>>
           /\ GotoStart(s, "bind") \/ GotoStart(s, "failed")
           /\ StartExecution(s, 1, 1)
  <2>1. StartsGoOn
    BY <1>1, <1>4, GotoStartType DEF StartsGoOn
  <2>2. \A e \in Pulses \cup {0} : 1 <= e + 1
    OBVIOUS
  <2>3. QED
    BY <1>1, <1>4, <2>1, <2>2, FirstBegins, StartKeeps
<1>5. CASE StartFirstFails(s) /\ UNCHANGED execs
  <2>1. StartsGoOn
    BY <1>1, <1>5, GotoStartType DEF StartFirstFails, StartsGoOn
  <2>2. ExecsSettle
    BY <1>5 DEF StartFirstFails, ExecsSettle
  <2>3. QED
    BY <1>1, <2>1, <2>2, SettleKeeps
<1>6. CASE ReadForStart(s) \/ RecordStartFailure(s) \/ BindFirst(s) \/ StartDies(s)
  <2>1. StartsGoOn
    <3>1. CASE ReadForStart(s)
      BY <1>1, <3>1 DEF ReadForStart, StartsGoOn, Asides
    <3>2. CASE ~ReadForStart(s)
      <4>1. GotoStart(s, "done")
        BY <1>6, <3>2 DEF RecordStartFailure, BindFirst, StartDies
      <4>2. QED
        BY <1>1, <4>1, GotoStartType DEF StartsGoOn
    <3>3. QED
      BY <3>1, <3>2
  <2>2. ExecsSettle
    <3>1. UNCHANGED <<ticks, landings, execs>>
      BY <1>6 DEF ReadForStart, RecordStartFailure, BindFirst, StartDies
    <3>2. item'.session = item.session /\ item'.emitted = item.emitted
      BY <1>2, <1>6, TerminalType, BindType
      DEF ReadForStart, RecordStartFailure, BindFirst, StartDies
    <3>3. QED
      BY <3>1, <3>2 DEF ExecsSettle
  <2>3. QED
    BY <1>1, <2>1, <2>2, SettleKeeps
<1>7. QED
  BY <1>3, <1>4, <1>5, <1>6 DEF StartStep, StartFirst, StartFirstFails

LEMMA InvokeInv ==
    ASSUME StreamInv, NEW s \in Sessions, NEW c \in Chunks, NEW t \in Ticks, Invoke(s, c, t)
    PROVE  StreamInv'
<1>1. StreamTypeOK' /\ StreamTyped
  BY ExecStepType, TypeParts DEF StreamInv, ExecStep
<1>2. execs[s][c] \in ExecRecord /\ execs \in [Sessions -> [Chunks -> ExecRecord]]
      /\ ticks \in [Ticks -> CallRecord]
  BY <1>1 DEF StreamTyped
<1>3. /\ execs'[s][c].pc = "wait" /\ execs'[s][c].tick = t
      /\ execs'[s][c].seq = execs[s][c].seq /\ execs'[s][c].ce = execs[s][c].ce
      /\ \A r \in Sessions, d \in Chunks : r # s \/ d # c => execs'[r][d] = execs[r][d]
  <2> DEFINE x == [execs[s][c] EXCEPT !.pc = "wait", !.tick = t]
  <2>1. /\ x \in ExecRecord /\ x.pc = "wait" /\ x.tick = t
        /\ x.seq = execs[s][c].seq /\ x.ce = execs[s][c].ce
    BY <1>2 DEF ExecRecord
  <2>2. execs' = [execs EXCEPT ![s][c] = x]
    BY DEF Invoke
  <2> HIDE DEF x
  <2>3. QED
    BY <1>2, <2>1, <2>2, OneExec
<1>4. /\ ticks'[t].pc = "read" /\ ticks'[t].session = s /\ ticks'[t].chunk = c
      /\ ticks'[t].seq = execs[s][c].seq /\ ticks'[t].ce = execs[s][c].ce
      /\ \A u \in Ticks \ {t} : ticks'[u] = ticks[u]
  BY <1>2 DEF Invoke, NoCall
<1>5. /\ UNCHANGED <<item, landings, starts>> /\ execs[s][c].pc = "emit"
      /\ ticks[t].pc = "idle" /\ execs[s][c].seq \in Pulses
  BY DEF Invoke
<1>6. CallsAreNamed'
  BY <1>4, <1>5 DEF StreamInv, CallsAreNamed
<1>7. CallersAreKnown'
  BY <1>3, <1>4, <1>5 DEF StreamInv, CallersAreKnown
<1>8. ChunksAreFull'
  <2>1. Begins(c, execs[s][c].seq, execs[s][c].ce)
    BY <1>5 DEF StreamInv, ChunksAreFull
  <2>2. \A r \in Sessions, d \in Chunks :
          execs'[r][d].pc # "none" => Begins(d, execs'[r][d].seq, execs'[r][d].ce)
    BY <1>3, <2>1 DEF StreamInv, ChunksAreFull
  <2>3. \A u \in Ticks :
            /\ ticks'[u].pc # "idle" => Begins(ticks'[u].chunk, ticks'[u].seq, ticks'[u].ce)
            /\ ticks'[u].pc \in {"rotate", "next"} => Rotates(u)'
    BY <1>4, <2>1 DEF StreamInv, ChunksAreFull, Rotates
  <2>4. QED
    BY <2>2, <2>3 DEF ChunksAreFull
<1>9. NothingBefore'
  BY <1>3, <1>4, <1>5 DEF StreamInv, NothingBefore, Unborn
<1>10. InStep'
  <2> SUFFICES ASSUME NEW r \in Sessions PROVE \E e \in Pulses \cup {0} : Reached(r, e)'
    BY DEF InStep
  <2>1. PICK e \in Pulses \cup {0} : Reached(r, e)
    BY DEF StreamInv, InStep
  <2>2. \A d \in Chunks : execs'[r][d].seq <= e + 1
    BY <1>3, <2>1 DEF Reached
  <2>3. Reached(r, e)'
    BY <1>4, <1>5, <2>1, <2>2 DEF Reached
  <2>4. QED
    BY <2>3
<1>11. QED
  BY <1>1, <1>6, <1>7, <1>8, <1>9, <1>10 DEF StreamInv

LEMMA ExecStepInv ==
    ASSUME StreamInv, NEW s \in Sessions, NEW c \in Chunks, ExecStep(s, c) \/ LoseAnswer(s, c)
    PROVE  StreamInv'
<1>1. StreamTypeOK' /\ StreamTyped
  BY ExecStepType, TypeParts DEF StreamInv
<1>2. execs[s][c] \in ExecRecord /\ execs \in [Sessions -> [Chunks -> ExecRecord]]
      /\ item \in ItemRecord
  BY <1>1 DEF StreamTyped
<1>3. CASE \E t \in Ticks : Invoke(s, c, t)
  BY <1>3, InvokeInv
<1>4. CASE RecordFailure(s, c)
  <2> DEFINE x == [execs[s][c] EXCEPT !.pc = "ended"]
  <2>1. /\ x \in ExecRecord /\ x.pc = "ended"
        /\ x.seq = execs[s][c].seq /\ x.ce = execs[s][c].ce
    BY <1>2 DEF ExecRecord
  <2>2. execs' = [execs EXCEPT ![s][c] = x] /\ execs[s][c].pc = "fail"
    BY <1>4 DEF RecordFailure
  <2>3. UNCHANGED <<ticks, landings, starts>>
        /\ item'.session = item.session /\ item'.emitted = item.emitted
    BY <1>2, <1>4, TerminalType DEF RecordFailure
  <2> HIDE DEF x
  <2>4. ExecsSettle
    BY <1>2, <2>1, <2>2, <2>3, OneExec DEF ExecsSettle
  <2>5. QED
    BY <1>1, <2>3, <2>4, SettleKeeps DEF StartsGoOn
<1>5. CASE LoseAnswer(s, c)
  <2>0. PICK pc \in {"emit", "fail"} :
            execs' = [execs EXCEPT ![s][c] = [@ EXCEPT !.pc = pc, !.tick = NoTick,
                                                       !.tries = execs[s][c].tries + 1]]
    BY <1>5 DEF LoseAnswer
  <2> DEFINE x == [execs[s][c] EXCEPT !.pc = pc, !.tick = NoTick,
                                      !.tries = execs[s][c].tries + 1]
  <2>1. x \in ExecRecord
    <3>1. execs[s][c].tries + 1 \in Nat
      BY <1>2 DEF ExecRecord
    <3>2. QED
      BY <1>2, <3>1 DEF ExecRecord
  <2>2. x.pc \in {"emit", "fail"} /\ x.seq = execs[s][c].seq /\ x.ce = execs[s][c].ce
    BY <1>2 DEF ExecRecord
  <2>3. execs' = [execs EXCEPT ![s][c] = x] /\ execs[s][c].pc = "wait"
        /\ UNCHANGED <<item, ticks, landings, starts>>
    BY <1>5, <2>0 DEF LoseAnswer
  <2> HIDE DEF x
  <2>4. ExecsSettle
    BY <1>2, <2>1, <2>2, <2>3, OneExec DEF ExecsSettle
  <2>5. QED
    BY <1>1, <2>3, <2>4, SettleKeeps DEF StartsGoOn
<1>6. QED
  BY <1>3, <1>4, <1>5 DEF ExecStep

LEMMA TheCaller ==
    ASSUME StreamInv, NEW s \in Sessions, NEW c \in Chunks, execs[s][c].pc = "wait"
    PROVE  \E t \in Ticks : /\ execs[s][c].tick = t /\ ticks[t].pc # "idle"
                            /\ ticks[t].session = s /\ ticks[t].chunk = c
BY DEF StreamInv, CallersAreKnown

\* A step of an invocation t that goes on.
LEMMA MovedKeeps ==
    ASSUME StreamInv, StreamTypeOK', UNCHANGED <<starts, execs>>, item'.session = item.session,
           NEW t \in Ticks, ticks[t].pc # "idle", NEW pc, pc # "idle", Moved(t, pc),
           pc \in {"rotate", "next"} => Rotates(t)',
           \A s \in Sessions : s # ticks[t].session => landings'[s] = landings[s]
    PROVE  CallsAreNamed' /\ CallersAreKnown' /\ ChunksAreFull' /\ NothingBefore'
<1>1. CallsAreNamed'
  BY DEF StreamInv, CallsAreNamed, Moved
<1>2. CallersAreKnown'
  <2> SUFFICES ASSUME NEW r \in Sessions, NEW d \in Chunks, execs[r][d].pc = "wait"
               PROVE  \E u \in Ticks : /\ execs[r][d].tick = u /\ ticks'[u].pc # "idle"
                                       /\ ticks'[u].session = r /\ ticks'[u].chunk = d
    BY DEF CallersAreKnown
  <2>1. PICK u \in Ticks : /\ execs[r][d].tick = u /\ ticks[u].pc # "idle"
                           /\ ticks[u].session = r /\ ticks[u].chunk = d
    BY DEF StreamInv, CallersAreKnown
  <2>2. QED
    BY <2>1 DEF Moved
<1>3. ChunksAreFull'
  <2>1. \A u \in Ticks \ {t} : Rotates(u) <=> Rotates(u)'
    BY DEF Moved, Rotates
  <2>2. \A u \in Ticks :
            /\ ticks'[u].pc # "idle" => Begins(ticks'[u].chunk, ticks'[u].seq, ticks'[u].ce)
            /\ ticks'[u].pc \in {"rotate", "next"} => Rotates(u)'
    BY <2>1 DEF StreamInv, ChunksAreFull, Moved
  <2>3. QED
    BY <2>2 DEF StreamInv, ChunksAreFull
<1>4. NothingBefore'
  BY DEF StreamInv, NothingBefore, Unborn, Moved
<1>5. QED
  BY <1>1, <1>2, <1>3, <1>4

\* A step of an invocation t that is its last.
LEMMA AnsweredKeeps ==
    ASSUME StreamInv, StreamTypeOK', UNCHANGED <<starts, landings>>, item'.session = item.session,
           NEW t \in Ticks, ticks[t].pc # "idle", NEW goOn, NEW seq \in Nat, NEW ce \in Nat,
           Answered(t, goOn, seq, ce), goOn => seq >= ticks[t].seq + 1 /\ ce = ticks[t].ce + 1
    PROVE  CallsAreNamed' /\ CallersAreKnown' /\ ChunksAreFull' /\ NothingBefore'
<1> USE Bounds
<1>1. /\ ticks'[t].pc = "idle" /\ ticks'[t].session = NoSession
      /\ \A u \in Ticks \ {t} : ticks'[u] = ticks[u]
  BY DEF Answered, NoCall
<1>2. /\ ticks[t].session \in Sessions /\ ticks[t].chunk \in Chunks
      /\ ticks[t].seq \in Nat /\ ticks[t].ce \in Nat
  BY TheCall, TypeParts DEF StreamInv
<1>3. ASSUME NEW s \in Sessions, NEW c \in Chunks
      PROVE  \/ execs'[s][c] = execs[s][c] /\ ~WaitsFor(t, s, c)
             \/ /\ WaitsFor(t, s, c) /\ goOn /\ execs'[s][c].pc = "emit"
                /\ execs'[s][c].seq = seq /\ execs'[s][c].ce = ce
             \/ /\ WaitsFor(t, s, c) /\ execs'[s][c].pc \in {"fail", "ended"}
                /\ execs'[s][c].seq = execs[s][c].seq /\ execs'[s][c].ce = execs[s][c].ce
  BY DEF Answered
<1>4. CallsAreNamed'
  BY <1>1 DEF StreamInv, CallsAreNamed
<1>5. CallersAreKnown'
  <2> SUFFICES ASSUME NEW r \in Sessions, NEW d \in Chunks, execs'[r][d].pc = "wait"
               PROVE  \E u \in Ticks : /\ execs'[r][d].tick = u /\ ticks'[u].pc # "idle"
                                       /\ ticks'[u].session = r /\ ticks'[u].chunk = d
    BY DEF CallersAreKnown
  <2>1. execs'[r][d] = execs[r][d] /\ execs[r][d].pc = "wait" /\ execs[r][d].tick # t
    BY <1>3 DEF WaitsFor
  <2>2. PICK u \in Ticks : /\ execs[r][d].tick = u /\ ticks[u].pc # "idle"
                           /\ ticks[u].session = r /\ ticks[u].chunk = d
    BY <2>1, TheCaller
  <2>3. u # t
    BY <2>1, <2>2
  <2>4. QED
    BY <1>1, <2>1, <2>2, <2>3
<1>6. ChunksAreFull'
  <2>1. ASSUME NEW r \in Sessions, NEW d \in Chunks, execs'[r][d].pc # "none"
        PROVE  Begins(d, execs'[r][d].seq, execs'[r][d].ce)
    <3>1. CASE execs'[r][d] = execs[r][d]
      BY <2>1, <3>1 DEF StreamInv, ChunksAreFull
    <3>2. CASE WaitsFor(t, r, d) /\ goOn /\ execs'[r][d].seq = seq /\ execs'[r][d].ce = ce
      <4>1. ticks[t].chunk = d
        BY <3>2 DEF StreamInv, CallersAreKnown, WaitsFor
      <4>2. Begins(d, ticks[t].seq, ticks[t].ce)
        BY <4>1 DEF StreamInv, ChunksAreFull
      <4>3. Begins(d, seq, ticks[t].ce + 1)
        BY <1>2, <3>2, <4>2, BeginsOn
      <4>4. QED
        BY <3>2, <4>3
    <3>3. CASE WaitsFor(t, r, d) /\ execs'[r][d].seq = execs[r][d].seq
               /\ execs'[r][d].ce = execs[r][d].ce
      BY <3>3 DEF StreamInv, ChunksAreFull, WaitsFor
    <3>4. QED
      BY <1>3, <3>1, <3>2, <3>3
  <2>2. \A u \in Ticks \ {t} : Rotates(u) <=> Rotates(u)'
    BY <1>1 DEF Rotates
  <2>3. \A u \in Ticks :
            /\ ticks'[u].pc # "idle" => Begins(ticks'[u].chunk, ticks'[u].seq, ticks'[u].ce)
            /\ ticks'[u].pc \in {"rotate", "next"} => Rotates(u)'
    BY <1>1, <2>2 DEF StreamInv, ChunksAreFull
  <2>4. QED
    BY <2>1, <2>3 DEF ChunksAreFull
<1>7. NothingBefore'
  <2> SUFFICES ASSUME NEW s \in Sessions, starts[s].pc \in {"idle", "create"} PROVE Unborn(s)'
    BY DEF NothingBefore
  <2>1. Unborn(s)
    BY DEF StreamInv, NothingBefore
  <2>2. \A c \in Chunks : execs'[s][c] = execs[s][c]
    BY <1>3, <2>1 DEF Unborn, WaitsFor
  <2>3. s # NoSession
    BY DemoStreamAssumption
  <2>4. QED
    BY <1>1, <2>1, <2>2, <2>3 DEF Unborn
<1>8. QED
  BY <1>4, <1>5, <1>6, <1>7

\* An answer that goes on after seq lets nobody get ahead of an item that has reached seq.
LEMMA AnsweredReached ==
    ASSUME StreamInv, NEW t \in Ticks, ticks[t].pc # "idle", NEW goOn, NEW seq \in Nat,
           NEW ce \in Nat, Answered(t, goOn, seq, ce),
           NEW s \in Sessions, NEW e \in Nat, NEW d \in Nat, Reached(s, e), e <= d,
           UNCHANGED landings, landings[s] \in {1..d, 1..(d + 1)},
           item'.session = s => item'.emitted = d,
           goOn /\ s = ticks[t].session => seq <= d + 1
    PROVE  Reached(s, d)'
<1>1. ASSUME NEW c \in Chunks PROVE execs'[s][c].seq <= d + 1
  <2>1. execs[s][c].seq <= e + 1 /\ execs[s][c].seq \in Nat
    BY TypeParts DEF Reached, StreamInv, StreamTyped, ExecRecord
  <2>2. WaitsFor(t, s, c) => s = ticks[t].session
    BY DEF StreamInv, CallersAreKnown, WaitsFor
  <2>3. \/ execs'[s][c].seq = execs[s][c].seq
        \/ execs'[s][c].seq = seq /\ goOn /\ WaitsFor(t, s, c)
    BY DEF Answered
  <2>4. QED
    BY <2>1, <2>2, <2>3
<1>2. ASSUME NEW u \in Ticks, ticks'[u].session = s
      PROVE  /\ ticks'[u].seq <= d + 1
             /\ ticks'[u].pc \in {"announce", "advance"} => ticks'[u].seq \in landings[s]
             /\ ticks'[u].pc \in {"rotate", "next"} => ticks'[u].seq <= d
  <2>1. u # t
    BY <1>2, DemoStreamAssumption DEF Answered, NoCall
  <2>2. ticks'[u] = ticks[u] /\ ticks[u].seq \in Nat
    BY <2>1, TypeParts DEF Answered, StreamInv, StreamTyped, CallRecord
  <2>3. /\ ticks[u].seq <= e + 1
        /\ ticks[u].pc \in {"announce", "advance"} => ticks[u].seq \in landings[s]
        /\ ticks[u].pc \in {"rotate", "next"} => ticks[u].seq <= e
    BY <1>2, <2>2 DEF Reached
  <2>4. QED
    BY <2>2, <2>3
<1>3. QED
  BY <1>1, <1>2 DEF Reached

LEMMA EndReached ==
    ASSUME StreamInv, NEW t \in Ticks, ticks[t].pc # "idle", Answered(t, FALSE, 0, 0),
           NEW s \in Sessions, NEW e \in Nat, Reached(s, e), UNCHANGED landings,
           item'.session = s => item'.emitted = e
    PROVE  Reached(s, e)'
<1>1. landings[s] \in {1..e, 1..(e + 1)} /\ e <= e /\ 0 \in Nat
  BY DEF Reached
<1> DEFINE goOn == FALSE
           seq == 0
<1>2. ~goOn /\ seq \in Nat /\ Answered(t, goOn, seq, seq)
  OBVIOUS
<1> HIDE DEF goOn, seq
<1>3. QED
  BY <1>1, <1>2, AnsweredReached

LEMMA GoOnReached ==
    ASSUME StreamInv, NEW t \in Ticks, ticks[t].pc # "idle", NEW seq \in Nat, NEW ce \in Nat,
           Answered(t, TRUE, seq, ce), NEW s \in Sessions, NEW e \in Nat, NEW d \in Nat,
           Reached(s, e), e <= d, UNCHANGED landings, landings[s] \in {1..d, 1..(d + 1)},
           item'.session = s => item'.emitted = d,
           s = ticks[t].session => seq <= d + 1
    PROVE  Reached(s, d)'
<1> DEFINE goOn == TRUE
<1>1. Answered(t, goOn, seq, ce)
  OBVIOUS
<1> HIDE DEF goOn
<1>2. QED
  BY <1>1, AnsweredReached

\* A step of an invocation that goes on, when the item or the objects go on with it.
LEMMA MovedReached ==
    ASSUME StreamInv, NEW t \in Ticks, ticks[t].pc # "idle", NEW pc, Moved(t, pc),
           UNCHANGED execs, NEW s \in Sessions, NEW e \in Nat, NEW d \in Nat, Reached(s, e), e <= d,
           landings'[s] \in {1..d, 1..(d + 1)}, landings[s] \subseteq landings'[s],
           item'.session = s => item'.emitted = d,
           s = ticks[t].session =>
                /\ pc \in {"announce", "advance"} => ticks[t].seq \in landings'[s]
                /\ pc \in {"rotate", "next"} => ticks[t].seq <= d
    PROVE  Reached(s, d)'
<1>1. ASSUME NEW c \in Chunks PROVE execs[s][c].seq <= d + 1
  <2>1. execs[s][c].seq <= e + 1 /\ execs[s][c].seq \in Nat
    BY TypeParts DEF Reached, StreamInv, StreamTyped, ExecRecord
  <2>2. QED
    BY <2>1
<1>2. ASSUME NEW u \in Ticks, ticks'[u].session = s
      PROVE  /\ ticks'[u].seq <= d + 1
             /\ ticks'[u].pc \in {"announce", "advance"} => ticks'[u].seq \in landings'[s]
             /\ ticks'[u].pc \in {"rotate", "next"} => ticks'[u].seq <= d
  <2>1. ticks'[u].session = ticks[u].session /\ ticks'[u].seq = ticks[u].seq
        /\ ticks[u].seq \in Nat
    BY TypeParts DEF Moved, StreamInv, StreamTyped, CallRecord
  <2>2. /\ ticks[u].seq <= e + 1
        /\ ticks[u].pc \in {"announce", "advance"} => ticks[u].seq \in landings[s]
        /\ ticks[u].pc \in {"rotate", "next"} => ticks[u].seq <= e
    BY <1>2, <2>1 DEF Reached
  <2>3. CASE u = t
    BY <1>2, <2>1, <2>2, <2>3 DEF Moved
  <2>4. CASE u # t
    BY <2>1, <2>2, <2>4 DEF Moved
  <2>5. QED
    BY <2>3, <2>4
<1>3. QED
  BY <1>1, <1>2 DEF Reached

LEMMA OneMore ==
    ASSUME NEW e \in Nat, NEW q \in Nat \ {0}, q <= e + 1, NEW L \in {1..e, 1..(e + 1)}
    PROVE  L \cup {q} \in {1..e, 1..(e + 1)}
<1>1. CASE L = 1..e /\ q <= e
  BY <1>1
<1>2. CASE L = 1..e /\ q = e + 1
  <2>1. 1..e \cup {e + 1} = 1..(e + 1)
    OBVIOUS
  <2>2. QED
    BY <1>2, <2>1
<1>3. CASE L = 1..(e + 1)
  BY <1>3
<1>4. QED
  BY <1>1, <1>2, <1>3

\* The end of an invocation that leaves the item as it is.
LEMMA EndKeeps ==
    ASSUME StreamInv, StreamTypeOK', UNCHANGED <<starts, landings>>,
           item'.session = item.session, item'.emitted = item.emitted,
           NEW t \in Ticks, ticks[t].pc # "idle", Answered(t, FALSE, 0, 0)
    PROVE  StreamInv'
<1>1. CallsAreNamed' /\ CallersAreKnown' /\ ChunksAreFull' /\ NothingBefore'
  BY AnsweredKeeps
<1>2. ASSUME NEW s \in Sessions PROVE \E e \in Pulses \cup {0} : Reached(s, e)'
  <2>1. PICK e \in Pulses \cup {0} : Reached(s, e)
    BY DEF StreamInv, InStep
  <2>2. e \in Nat /\ landings[s] \in {1..e, 1..(e + 1)}
        /\ (item'.session = s => item'.emitted = e)
    BY <2>1, PulsesAreNat DEF Reached
  <2>3. Reached(s, e)'
    BY <2>1, <2>2, EndReached
  <2>4. QED
    BY <2>3
<1>3. QED
  BY <1>1, <1>2 DEF StreamInv, InStep

LEMMA TickReadInv ==
    ASSUME StreamInv, NEW t \in Ticks, TickRead(t)
    PROVE  StreamInv'
<1>1. StreamTypeOK' /\ StreamTyped /\ CallsAreNamed
  BY TickStepType, TypeParts DEF StreamInv, TickStep
<1>2. ticks[t].pc # "idle" /\ UNCHANGED <<item, landings, starts>>
  BY DEF TickRead
<1>3. ticks[t].seq \in Nat /\ ticks[t].ce + 1 \in Nat /\ ticks[t].session \in Sessions
      /\ item.emitted \in Nat
  <2>1. item.emitted \in Nat
    BY <1>1, EmittedIsNat
  <2>2. QED
    BY <1>1, <1>2, <2>1, TheCall
<1>4. CASE Answered(t, FALSE, 0, 0)
  BY <1>1, <1>2, <1>4, EndKeeps
<1>5. CASE /\ item.session = ticks[t].session /\ item.emitted >= ticks[t].seq
           /\ Answered(t, TRUE, item.emitted + 1, ticks[t].ce + 1)
  <2>1. item.emitted + 1 \in Nat /\ item.emitted + 1 >= ticks[t].seq + 1
    BY <1>3, <1>5
  <2>2. CallsAreNamed' /\ CallersAreKnown' /\ ChunksAreFull' /\ NothingBefore'
    BY <1>1, <1>2, <1>3, <1>5, <2>1, AnsweredKeeps
  <2>3. ASSUME NEW s \in Sessions PROVE \E e \in Pulses \cup {0} : Reached(s, e)'
    <3>1. PICK e \in Pulses \cup {0} : Reached(s, e)
      BY DEF StreamInv, InStep
    <3>2. e \in Nat /\ landings[s] \in {1..e, 1..(e + 1)} /\ (item.session = s => item.emitted = e)
      BY <3>1, PulsesAreNat DEF Reached
    <3>3. (s = ticks[t].session => item.emitted + 1 <= e + 1) /\ e <= e
      BY <1>5, <3>2
    <3>4. Reached(s, e)'
      BY <1>2, <1>3, <1>5, <2>1, <3>1, <3>2, <3>3, GoOnReached
    <3>5. QED
      BY <3>4
  <2>4. QED
    BY <1>1, <2>2, <2>3 DEF StreamInv, InStep
<1>6. CASE Moved(t, "put") /\ UNCHANGED execs
  <2>1. CallsAreNamed' /\ CallersAreKnown' /\ ChunksAreFull' /\ NothingBefore'
    BY <1>1, <1>2, <1>6, MovedKeeps
  <2>2. ASSUME NEW s \in Sessions PROVE \E e \in Pulses \cup {0} : Reached(s, e)'
    <3>1. PICK e \in Pulses \cup {0} : Reached(s, e)
      BY DEF StreamInv, InStep
    <3>2. e \in Nat /\ landings[s] \in {1..e, 1..(e + 1)} /\ (item.session = s => item.emitted = e)
      BY <3>1, PulsesAreNat DEF Reached
    <3>3. Reached(s, e)'
      BY <1>2, <1>6, <3>1, <3>2, MovedReached
    <3>4. QED
      BY <3>3
  <2>3. QED
    BY <1>1, <2>1, <2>2 DEF StreamInv, InStep
<1>7. QED
  BY <1>1, <1>4, <1>5, <1>6, TickReadShape

LEMMA PutObjectInv ==
    ASSUME StreamInv, NEW t \in Ticks, PutObject(t)
    PROVE  StreamInv'
<1>1. StreamTypeOK' /\ StreamTyped /\ CallsAreNamed
  BY TickStepType, TypeParts DEF StreamInv, TickStep
<1>2. ticks[t].pc # "idle" /\ UNCHANGED <<item, execs, starts>>
  BY DEF PutObject
<1>3. ticks[t].seq \in Nat \ {0} /\ ticks[t].session \in Sessions
  BY <1>1, <1>2, TheCall, Bounds
<1>4. PICK pc \in {"announce", "advance"} : Moved(t, pc)
  BY <1>1, GotoTickShape DEF PutObject
<1>5. /\ landings'[ticks[t].session] = landings[ticks[t].session] \cup {ticks[t].seq}
      /\ \A s \in Sessions : s # ticks[t].session => landings'[s] = landings[s]
  BY <1>1, <1>3 DEF PutObject, StreamTyped
<1>6. CallsAreNamed' /\ CallersAreKnown' /\ ChunksAreFull' /\ NothingBefore'
  BY <1>1, <1>2, <1>4, <1>5, MovedKeeps
<1>7. ASSUME NEW s \in Sessions PROVE \E e \in Pulses \cup {0} : Reached(s, e)'
  <2>1. PICK e \in Pulses \cup {0} : Reached(s, e)
    BY DEF StreamInv, InStep
  <2>2. e \in Nat /\ landings[s] \in {1..e, 1..(e + 1)} /\ (item.session = s => item.emitted = e)
    BY <2>1, PulsesAreNat DEF Reached
  <2>3. s = ticks[t].session => ticks[t].seq <= e + 1
    BY <2>1 DEF Reached
  <2>4. landings'[s] \in {1..e, 1..(e + 1)} /\ landings[s] \subseteq landings'[s]
        /\ (s = ticks[t].session => ticks[t].seq \in landings'[s])
    BY <1>3, <1>5, <2>2, <2>3, OneMore
  <2>5. Reached(s, e)'
    BY <1>2, <1>4, <2>1, <2>2, <2>4, MovedReached
  <2>6. QED
    BY <2>5
<1>8. QED
  BY <1>1, <1>6, <1>7 DEF StreamInv, InStep

LEMMA AnnounceInv ==
    ASSUME StreamInv, NEW t \in Ticks, Announce(t)
    PROVE  StreamInv'
<1>1. StreamTypeOK' /\ StreamTyped /\ CallsAreNamed
  BY TickStepType, TypeParts DEF StreamInv, TickStep
<1>2. ticks[t].pc = "announce" /\ UNCHANGED <<item, landings, execs, starts>>
  BY DEF Announce
<1>3. Moved(t, "advance")
  BY <1>1, GotoTickShape DEF Announce
<1>4. CallsAreNamed' /\ CallersAreKnown' /\ ChunksAreFull' /\ NothingBefore'
  BY <1>1, <1>2, <1>3, MovedKeeps
<1>5. ASSUME NEW s \in Sessions PROVE \E e \in Pulses \cup {0} : Reached(s, e)'
  <2>1. PICK e \in Pulses \cup {0} : Reached(s, e)
    BY DEF StreamInv, InStep
  <2>2. e \in Nat /\ landings[s] \in {1..e, 1..(e + 1)} /\ (item.session = s => item.emitted = e)
    BY <2>1, PulsesAreNat DEF Reached
  <2>3. s = ticks[t].session => ticks[t].seq \in landings[s]
    BY <1>2, <2>1 DEF Reached
  <2>4. Reached(s, e)'
    BY <1>2, <1>3, <2>1, <2>2, <2>3, MovedReached
  <2>5. QED
    BY <2>4
<1>6. QED
  BY <1>1, <1>4, <1>5 DEF StreamInv, InStep

LEMMA AdvanceInv ==
    ASSUME StreamInv, NEW t \in Ticks, Advance(t)
    PROVE  StreamInv'
<1>1. StreamTypeOK' /\ StreamTyped /\ CallsAreNamed
  BY TickStepType, TypeParts DEF StreamInv, TickStep
<1>2. ticks[t].pc = "advance" /\ UNCHANGED <<landings, starts>> /\ item'.session = item.session
  BY <1>1, AdvanceItem DEF Advance
<1>3. /\ ticks[t].seq \in Pulses /\ ticks[t].seq \in Nat /\ ticks[t].seq + 1 \in Nat
      /\ ticks[t].ce + 1 \in Nat /\ ticks[t].session \in Sessions
  BY <1>1, <1>2, TheCall
<1>4. CASE ~MayAdvance(t)
  <2>1. Answered(t, FALSE, 0, 0) /\ item' = item
    BY <1>1, <1>4, AdvanceShape, AdvanceItem
  <2>2. QED
    BY <1>1, <1>2, <2>1, EndKeeps
<1>5. CASE MayAdvance(t)
  <2>1. /\ item.session = ticks[t].session /\ item'.emitted = ticks[t].seq
        /\ item.emitted < ticks[t].seq
    BY <1>1, <1>5, AdvanceItem DEF MayAdvance
  <2>2. \/ Rotates(t) /\ Moved(t, "rotate") /\ UNCHANGED execs /\ ticks'[t].total = ticks[t].total
        \/ Answered(t, TRUE, ticks[t].seq + 1, ticks[t].ce + 1)
    BY <1>1, <1>5, AdvanceShape
  <2>3. CallsAreNamed' /\ CallersAreKnown' /\ ChunksAreFull' /\ NothingBefore'
    <3>1. CASE Rotates(t) /\ Moved(t, "rotate") /\ UNCHANGED execs
               /\ ticks'[t].total = ticks[t].total
      <4>1. Rotates(t)'
        BY <3>1 DEF Rotates, Moved
      <4>2. QED
        BY <1>1, <1>2, <3>1, <4>1, MovedKeeps
    <3>2. CASE Answered(t, TRUE, ticks[t].seq + 1, ticks[t].ce + 1)
      <4>1. ticks[t].seq + 1 >= ticks[t].seq + 1
        BY <1>3
      <4>2. QED
        BY <1>1, <1>2, <1>3, <3>2, <4>1, AnsweredKeeps
    <3>3. QED
      BY <2>2, <3>1, <3>2
  <2>4. ASSUME NEW s \in Sessions PROVE \E e \in Pulses \cup {0} : Reached(s, e)'
    <3>1. PICK e \in Pulses \cup {0} : Reached(s, e)
      BY DEF StreamInv, InStep
    <3>2. e \in Nat /\ landings[s] \in {1..e, 1..(e + 1)} /\ (item.session = s => item.emitted = e)
      BY <3>1, PulsesAreNat DEF Reached
    <3>3. PICK d \in Pulses \cup {0} :
            /\ s = ticks[t].session => d = ticks[t].seq
            /\ s # ticks[t].session => d = e
      BY <1>3
    <3>4. /\ d \in Nat /\ e <= d /\ landings[s] \in {1..d, 1..(d + 1)}
          /\ item'.session = s => item'.emitted = d
      <4>1. CASE s = ticks[t].session
        <5>1. ticks[t].seq \in landings[s] /\ ticks[t].seq <= e + 1
          BY <1>2, <3>1, <4>1 DEF Reached
        <5>2. ticks[t].seq = e + 1
          BY <1>3, <2>1, <3>2, <4>1, <5>1
        <5>3. landings[s] = 1..(e + 1)
          BY <3>2, <5>1, <5>2
        <5>4. QED
          BY <1>2, <2>1, <3>2, <3>3, <4>1, <5>2, <5>3
      <4>2. CASE s # ticks[t].session
        <5>1. d = e /\ e <= e
          BY <3>2, <3>3, <4>2
        <5>2. item'.session # s
          BY <1>2, <2>1, <4>2
        <5>3. QED
          BY <3>2, <5>1, <5>2
      <4>3. QED
        BY <4>1, <4>2
    <3>5. Reached(s, d)'
      <4>1. CASE Moved(t, "rotate") /\ UNCHANGED execs
        <5>1. s = ticks[t].session => ticks[t].seq <= d
          BY <1>3, <3>3
        <5>2. QED
          BY <1>2, <3>1, <3>2, <3>4, <4>1, <5>1, MovedReached
      <4>2. CASE Answered(t, TRUE, ticks[t].seq + 1, ticks[t].ce + 1)
        <5>1. s = ticks[t].session => ticks[t].seq + 1 <= d + 1
          BY <1>3, <3>3
        <5>2. QED
          BY <1>2, <1>3, <3>1, <3>2, <3>4, <4>2, <5>1, GoOnReached
      <4>3. QED
        BY <2>2, <4>1, <4>2
    <3>6. QED
      BY <3>5
  <2>5. QED
    BY <1>1, <2>3, <2>4 DEF StreamInv, InStep
<1>6. QED
  BY <1>4, <1>5

LEMMA RotationInv ==
    ASSUME StreamInv, NEW t \in Ticks, BindNext(t) \/ StartNext(t) \/ AnswerRotation(t)
    PROVE  StreamInv'
<1>1. StreamTypeOK' /\ StreamTyped /\ CallsAreNamed
  BY TickStepType, TypeParts DEF StreamInv, TickStep
<1>2. ticks[t].pc \in {"rotate", "next", "answer"} /\ UNCHANGED <<landings, starts>>
  BY DEF BindNext, StartNext, AnswerRotation
<1>3. /\ ticks[t].seq \in Pulses /\ ticks[t].seq \in Nat /\ ticks[t].seq + 1 \in Nat
      /\ ticks[t].ce \in Nat /\ ticks[t].session \in Sessions /\ ticks[t].chunk \in Chunks
  BY <1>1, <1>2, TheCall
<1>4. ticks[t].pc \in {"rotate", "next"} =>
        ticks[t].chunk + 1 \in Chunks /\ Begins(ticks[t].chunk + 1, ticks[t].seq + 1, 0)
        /\ Rotates(t)
  <2>1. ticks[t].pc \in {"rotate", "next"} =>
            Rotates(t) /\ Begins(ticks[t].chunk, ticks[t].seq, ticks[t].ce)
    BY DEF StreamInv, ChunksAreFull
  <2>2. QED
    BY <1>3, <2>1, NextChunk DEF Rotates
<1>5. CASE BindNext(t)
  <2>1. item'.session = item.session /\ item'.emitted = item.emitted
    BY <1>1, <1>4, <1>5, BindType DEF BindNext, StreamTyped
  <2>2. CASE Answered(t, FALSE, 0, 0)
    BY <1>1, <1>2, <2>1, <2>2, EndKeeps
  <2>3. CASE Moved(t, "next") /\ UNCHANGED execs /\ ticks'[t].total = ticks[t].total
    <3>1. Rotates(t)'
      BY <1>4, <1>5, <2>3 DEF BindNext, Rotates, Moved
    <3>2. CallsAreNamed' /\ CallersAreKnown' /\ ChunksAreFull' /\ NothingBefore'
      BY <1>1, <1>2, <2>1, <2>3, <3>1, MovedKeeps
    <3>3. ASSUME NEW s \in Sessions PROVE \E e \in Pulses \cup {0} : Reached(s, e)'
      <4>1. PICK e \in Pulses \cup {0} : Reached(s, e)
        BY DEF StreamInv, InStep
      <4>2. e \in Nat /\ landings[s] \in {1..e, 1..(e + 1)} /\ e <= e
            /\ (item.session = s => item.emitted = e)
        BY <4>1, PulsesAreNat DEF Reached
      <4>3. s = ticks[t].session => ticks[t].seq <= e
        BY <1>5, <4>1 DEF Reached, BindNext
      <4>4. Reached(s, e)'
        BY <1>2, <2>1, <2>3, <4>1, <4>2, <4>3, MovedReached
      <4>5. QED
        BY <4>4
    <3>4. QED
      BY <1>1, <3>2, <3>3 DEF StreamInv, InStep
  <2>4. QED
    BY <1>1, <1>5, <2>2, <2>3, BindNextShape
<1>6. CASE StartNext(t)
  <2>1. Moved(t, "answer")
    BY <1>1, <1>6, GotoTickShape DEF StartNext
  <2>2. starts[ticks[t].session].pc \notin {"idle", "create"}
    BY <1>3 DEF StreamInv, NothingBefore, Unborn
  <2>3. ASSUME NEW e \in Pulses \cup {0}, Reached(ticks[t].session, e)
        PROVE  ticks[t].seq + 1 <= e + 1
    <3>1. ticks[t].seq <= e
      BY <1>6, <2>3 DEF Reached, StartNext
    <3>2. QED
      BY <1>3, <3>1, PulsesAreNat
  <2>4. \A u \in Ticks : ticks'[u] = ticks[u] \/
                (/\ ticks'[u].pc = "answer" /\ ticks[u].pc # "idle"
                 /\ ticks'[u].session = ticks[u].session /\ ticks'[u].chunk = ticks[u].chunk
                 /\ ticks'[u].seq = ticks[u].seq /\ ticks'[u].ce = ticks[u].ce)
    BY <1>2, <2>1 DEF Moved
  <2>5. StartsGoOn
    BY <1>2 DEF StartsGoOn
  <2>6. StartExecution(ticks[t].session, ticks[t].chunk + 1, ticks[t].seq + 1)
        /\ UNCHANGED item /\ ticks[t].pc = "next"
    BY <1>6 DEF StartNext
  <2>7. QED
    BY <1>1, <1>2, <1>3, <1>4, <2>2, <2>3, <2>4, <2>5, <2>6, StartKeeps
<1>7. CASE AnswerRotation(t)
  <2>1. Answered(t, FALSE, 0, 0) /\ UNCHANGED item
    BY <1>1, <1>7, NoAnswer DEF AnswerRotation
  <2>2. QED
    BY <1>1, <1>2, <2>1, EndKeeps
<1>8. QED
  BY <1>5, <1>6, <1>7

LEMMA TickFailsInv ==
    ASSUME StreamInv, NEW t \in Ticks, TickFails(t)
    PROVE  StreamInv'
<1>1. StreamTypeOK' /\ Answered(t, FALSE, 0, 0)
  BY TickFailsType DEF StreamInv, Answered
<1>2. ticks[t].pc # "idle" /\ UNCHANGED <<item, landings, starts>>
  BY DEF TickFails
<1>3. QED
  BY <1>1, <1>2, EndKeeps

LEMMA InitInv == StreamInit => StreamInv
<1> SUFFICES ASSUME StreamInit PROVE StreamInv
  OBVIOUS
<1>1. StreamTypeOK
  BY InitType
<1>2. /\ \A s \in Sessions : landings[s] = {} /\ item.session # s
      /\ \A s \in Sessions, c \in Chunks : execs[s][c].pc = "none" /\ execs[s][c].seq = 0
      /\ \A t \in Ticks : ticks[t].pc = "idle" /\ ticks[t].session = NoSession
  BY DemoStreamAssumption DEF StreamInit, NoItem, NoExec, NoCall
<1>3. \A s \in Sessions : s # NoSession
  BY DemoStreamAssumption
<1>4. CallsAreNamed /\ CallersAreKnown /\ ChunksAreFull
  BY <1>2 DEF CallsAreNamed, CallersAreKnown, ChunksAreFull
<1>5. NothingBefore
  BY <1>2, <1>3 DEF NothingBefore, Unborn
<1>6. InStep
  <2> SUFFICES ASSUME NEW s \in Sessions PROVE Reached(s, 0)
    BY DEF InStep
  <2>1. landings[s] = 1..0
    BY <1>2
  <2>2. QED
    BY <1>2, <1>3, <2>1 DEF Reached
<1>7. QED
  BY <1>1, <1>4, <1>5, <1>6 DEF StreamInv

LEMMA NextInv == StreamInv /\ [StreamNext]_streamVars => StreamInv'
<1> SUFFICES ASSUME StreamInv, [StreamNext]_streamVars PROVE StreamInv'
  OBVIOUS
<1>1. CASE UNCHANGED streamVars
  <2>1. StartsGoOn /\ ExecsSettle
    BY <1>1 DEF streamVars, StartsGoOn, ExecsSettle
  <2>2. StreamTypeOK'
    BY <1>1 DEF streamVars, StreamInv, StreamTypeOK
  <2>3. QED
    BY <2>1, <2>2, SettleKeeps
<1>2. CASE \E s \in Sessions : \/ ReadForStart(s) \/ StartStep(s) \/ StartDies(s)
                               \/ \E c \in Chunks : ExecStep(s, c) \/ LoseAnswer(s, c)
  BY <1>2, StartStepInv, ExecStepInv
<1>3. CASE \E r \in Stops : ReadForStop(r) \/ StopStep(r) \/ StopDies(r)
  BY <1>3, StopStepInv
<1>4. CASE \E t \in Ticks : TickStep(t) \/ TickFails(t)
  BY <1>4, TickReadInv, PutObjectInv, AnnounceInv, AdvanceInv, RotationInv, TickFailsInv DEF TickStep
<1>5. QED
  BY <1>1, <1>2, <1>3, <1>4 DEF StreamNext

-----------------------------------------------------------------------------
(* What is announced.                                                      *)

AnnouncedInv == OneAnnouncer /\ AnnouncedOnce

\* Nobody lands an object or announces it.
LEMMA SilentKeeps ==
    ASSUME AnnouncedInv, UNCHANGED <<landings, announced>>,
           \A u \in Ticks : ticks'[u].pc = "announce" => ticks'[u] = ticks[u]
    PROVE  AnnouncedInv'
<1>1. AnnouncedOnce'
  BY DEF AnnouncedInv, AnnouncedOnce
<1>2. OneAnnouncer'
  BY DEF AnnouncedInv, OneAnnouncer
<1>3. QED
  BY <1>1, <1>2 DEF AnnouncedInv

\* The first to land an object is the one that will announce it.
LEMMA PutAnnounced ==
    ASSUME StreamInv, AnnouncedInv, NEW t \in Ticks, PutObject(t)
    PROVE  AnnouncedInv'
<1>1. StreamTyped /\ CallsAreNamed
  BY TypeParts DEF StreamInv
<1> DEFINE s == ticks[t].session
           q == ticks[t].seq
<1>2. s \in Sessions /\ q \in Pulses /\ announced \in [Sessions -> [Pulses -> Nat]]
  BY <1>1, TheCall DEF PutObject, StreamTyped
<1>3. /\ landings'[s] = landings[s] \cup {q}
      /\ \A r \in Sessions : r # s => landings'[r] = landings[r]
      /\ UNCHANGED announced
  BY <1>1, <1>2 DEF PutObject, StreamTyped
<1>4. CASE q \notin landings[s] /\ Moved(t, "announce")
  <2>1. announced[s][q] <= 0
    BY <1>2, <1>4 DEF AnnouncedInv, AnnouncedOnce
  <2>2. announced[s][q] = 0
    BY <1>2, <2>1
  <2>3. AnnouncedOnce'
    <3> SUFFICES ASSUME NEW r \in Sessions, NEW p \in Pulses
                 PROVE  announced[r][p] <= IF p \in landings'[r] THEN 1 ELSE 0
      BY <1>3 DEF AnnouncedOnce
    <3>1. announced[r][p] <= IF p \in landings[r] THEN 1 ELSE 0
      BY DEF AnnouncedInv, AnnouncedOnce
    <3>2. announced[r][p] \in Nat /\ (p \in landings[r] => p \in landings'[r])
      BY <1>2, <1>3
    <3>3. QED
      BY <3>1, <3>2
  <2>4. \A u \in Ticks \ {t} : ticks[u].pc = "announce" =>
            ~(ticks[u].session = s /\ ticks[u].seq = q)
    BY <1>4 DEF AnnouncedInv, OneAnnouncer
  <2>5. OneAnnouncer'
    <3> SUFFICES ASSUME NEW u \in Ticks, ticks'[u].pc = "announce"
                 PROVE  /\ ticks'[u].seq \in landings'[ticks'[u].session]
                        /\ announced[ticks'[u].session][ticks'[u].seq] = 0
                        /\ \A v \in Ticks \ {u} :
                              ~(/\ ticks'[v].pc = "announce"
                                /\ ticks'[v].session = ticks'[u].session
                                /\ ticks'[v].seq = ticks'[u].seq)
      BY <1>3 DEF OneAnnouncer
    <3>1. CASE u = t
      BY <1>3, <1>4, <2>2, <2>4, <3>1 DEF Moved
    <3>2. CASE u # t
      <4>1. ticks'[u] = ticks[u] /\ ticks[u].session \in Sessions
        BY <1>1, <1>4, <3>2, TheCall DEF Moved
      <4>2. ticks[u].seq \in landings[ticks[u].session]
            /\ announced[ticks[u].session][ticks[u].seq] = 0
        BY <4>1 DEF AnnouncedInv, OneAnnouncer
      <4>3. ticks[u].seq \in landings'[ticks[u].session]
        BY <1>3, <4>1, <4>2
      <4>4. ASSUME NEW v \in Ticks \ {u}
            PROVE  ~(/\ ticks'[v].pc = "announce"
                     /\ ticks'[v].session = ticks[u].session
                     /\ ticks'[v].seq = ticks[u].seq)
        <5>1. CASE v = t
          BY <1>4, <2>4, <3>2, <4>1, <5>1 DEF Moved
        <5>2. CASE v # t
          BY <1>4, <4>1, <5>2 DEF AnnouncedInv, OneAnnouncer, Moved
        <5>3. QED
          BY <5>1, <5>2
      <4>5. QED
        BY <4>1, <4>2, <4>3, <4>4
    <3>3. QED
      BY <3>1, <3>2
  <2>6. QED
    BY <2>3, <2>5 DEF AnnouncedInv
<1>5. CASE q \in landings[s] /\ Moved(t, "advance")
  <2>1. UNCHANGED <<landings, announced>>
    <3>1. landings' = [landings EXCEPT ![s] = @ \cup {q}] /\ landings[s] \cup {q} = landings[s]
      BY <1>5 DEF PutObject
    <3>2. landings' = landings
      BY <1>1, <1>2, <3>1 DEF StreamTyped
    <3>3. QED
      BY <1>3, <3>2
  <2>2. QED
    BY <1>5, <2>1, SilentKeeps DEF Moved
<1>6. QED
  BY <1>1, <1>4, <1>5, GotoTickShape DEF PutObject, Creates

LEMMA AnnounceAnnounced ==
    ASSUME StreamInv, AnnouncedInv, NEW t \in Ticks, Announce(t)
    PROVE  AnnouncedInv'
<1>1. StreamTyped /\ CallsAreNamed
  BY TypeParts DEF StreamInv
<1> DEFINE s == ticks[t].session
           q == ticks[t].seq
<1>2. s \in Sessions /\ q \in Pulses /\ announced \in [Sessions -> [Pulses -> Nat]]
  BY <1>1, TheCall DEF Announce, StreamTyped
<1>3. q \in landings[s] /\ announced[s][q] = 0
  BY DEF AnnouncedInv, OneAnnouncer, Announce
<1>4. /\ announced'[s][q] = 1 /\ UNCHANGED landings
      /\ \A r \in Sessions, p \in Pulses : r # s \/ p # q => announced'[r][p] = announced[r][p]
  <2>1. announced' = [announced EXCEPT ![s][q] = 1]
    BY <1>3 DEF Announce
  <2>2. UNCHANGED landings
    BY DEF Announce
  <2> HIDE DEF s, q
  <2>3. QED
    BY <1>2, <2>1, <2>2
<1>5. Moved(t, "advance")
  BY <1>1, GotoTickShape DEF Announce
<1>6. AnnouncedOnce'
  <2> SUFFICES ASSUME NEW r \in Sessions, NEW p \in Pulses
               PROVE  announced'[r][p] <= IF p \in landings[r] THEN 1 ELSE 0
    BY <1>4 DEF AnnouncedOnce
  <2>1. CASE r = s /\ p = q
    BY <1>3, <1>4, <2>1
  <2>2. CASE r # s \/ p # q
    BY <1>4, <2>2 DEF AnnouncedInv, AnnouncedOnce
  <2>3. QED
    BY <2>1, <2>2
<1>7. OneAnnouncer'
  <2> SUFFICES ASSUME NEW u \in Ticks, ticks'[u].pc = "announce"
               PROVE  /\ ticks'[u].seq \in landings[ticks'[u].session]
                      /\ announced'[ticks'[u].session][ticks'[u].seq] = 0
                      /\ \A v \in Ticks \ {u} :
                            ~(/\ ticks'[v].pc = "announce"
                              /\ ticks'[v].session = ticks'[u].session
                              /\ ticks'[v].seq = ticks'[u].seq)
    BY <1>4 DEF OneAnnouncer
  <2>1. u # t /\ ticks'[u] = ticks[u]
    BY <1>5 DEF Moved
  <2>2. ticks[u].session \in Sessions /\ ticks[u].seq \in Pulses
    BY <1>1, <2>1, TheCall
  <2>3. /\ ticks[u].seq \in landings[ticks[u].session]
        /\ announced[ticks[u].session][ticks[u].seq] = 0
        /\ ~(ticks[u].session = s /\ ticks[u].seq = q)
    BY <2>1 DEF AnnouncedInv, OneAnnouncer, Announce
  <2>4. announced'[ticks[u].session][ticks[u].seq] = 0
    BY <1>4, <2>2, <2>3
  <2>5. \A v \in Ticks \ {u} : ticks'[v].pc = "announce" =>
            ~(ticks'[v].session = ticks[u].session /\ ticks'[v].seq = ticks[u].seq)
    BY <1>5, <2>1 DEF AnnouncedInv, OneAnnouncer, Moved
  <2>6. QED
    BY <2>1, <2>3, <2>4, <2>5
<1>8. QED
  BY <1>6, <1>7 DEF AnnouncedInv

LEMMA NextAnnounced == StreamInv /\ AnnouncedInv /\ [StreamNext]_streamVars => AnnouncedInv'
<1> SUFFICES ASSUME StreamInv, AnnouncedInv, [StreamNext]_streamVars PROVE AnnouncedInv'
  OBVIOUS
<1>1. StreamTyped /\ CallsAreNamed
  BY TypeParts DEF StreamInv
<1>2. CASE UNCHANGED <<landings, announced, ticks>>
  BY <1>2, SilentKeeps
<1>3. ASSUME NEW s \in Sessions, NEW c \in Chunks, NEW t \in Ticks, Invoke(s, c, t)
      PROVE  AnnouncedInv'
  <2>1. ticks'[t].pc = "read" /\ \A u \in Ticks \ {t} : ticks'[u] = ticks[u]
    BY <1>1, <1>3 DEF Invoke, NoCall, StreamTyped
  <2>2. QED
    BY <1>3, <2>1, SilentKeeps DEF Invoke
<1>4. ASSUME NEW t \in Ticks, TickStep(t) \/ TickFails(t) PROVE AnnouncedInv'
  <2>1. CASE PutObject(t) \/ Announce(t)
    BY <2>1, PutAnnounced, AnnounceAnnounced
  <2>2. CASE ~(PutObject(t) \/ Announce(t))
    <3>1. UNCHANGED <<landings, announced>>
      <4>1. CASE TickRead(t) \/ StartNext(t) \/ AnswerRotation(t)
        BY <4>1, Zenon DEF TickRead, StartNext, AnswerRotation
      <4>2. CASE Advance(t) \/ BindNext(t)
        BY <4>2, Zenon DEF Advance, BindNext
      <4>3. CASE TickFails(t)
        BY <4>3, Zenon DEF TickFails
      <4>4. QED
        BY <1>4, <2>2, <4>1, <4>2, <4>3 DEF TickStep
    <3> DEFINE Still == /\ ticks'[t].pc # "announce"
                        /\ \A u \in Ticks \ {t} : ticks'[u] = ticks[u]
    <3>2. Still
      <4>1. CASE TickRead(t)
        BY <1>1, <4>1, TickReadShape DEF Answered, Moved, NoCall
      <4>2. CASE Advance(t)
        BY <1>1, <4>2, AdvanceShape DEF Answered, Moved, NoCall
      <4>3. CASE BindNext(t)
        BY <1>1, <4>3, BindNextShape DEF Answered, Moved, NoCall
      <4>4. CASE StartNext(t)
        BY <1>1, <4>4, GotoTickShape DEF StartNext, Moved
      <4>5. CASE AnswerRotation(t)
        <5>1. ticks' = [ticks EXCEPT ![t] = NoCall]
          BY <4>5, Zenon DEF AnswerRotation, Answer
        <5>2. QED
          BY <1>1, <5>1 DEF StreamTyped, NoCall
      <4>6. CASE TickFails(t)
        <5>1. ticks' = [ticks EXCEPT ![t] = NoCall]
          BY <4>6, Zenon DEF TickFails
        <5>2. QED
          BY <1>1, <5>1 DEF StreamTyped, NoCall
      <4>7. QED
        BY <1>4, <2>2, <4>1, <4>2, <4>3, <4>4, <4>5, <4>6 DEF TickStep
    <3>4. QED
      BY <3>1, <3>2, SilentKeeps
  <2>3. QED
    BY <2>1, <2>2
<1>5. ASSUME NEW s \in Sessions, ReadForStart(s) \/ StartStep(s) \/ StartDies(s)
      PROVE  UNCHANGED <<landings, announced, ticks>>
  BY <1>5 DEF StartStep, ReadForStart, CreateItem, StartFirst, StartFirstFails,
              RecordStartFailure, BindFirst, StartDies
<1>6. ASSUME NEW s \in Sessions, NEW c \in Chunks, RecordFailure(s, c) \/ LoseAnswer(s, c)
      PROVE  UNCHANGED <<landings, announced, ticks>>
  BY <1>6 DEF RecordFailure, LoseAnswer
<1>7. ASSUME NEW r \in Stops, ReadForStop(r) \/ StopStep(r) \/ StopDies(r)
      PROVE  UNCHANGED <<landings, announced, ticks>>
  BY <1>7 DEF StopStep, ReadForStop, MarkStopped, HaltExecution, StopDies
<1>8. CASE UNCHANGED streamVars
  BY <1>2, <1>8 DEF streamVars
<1>9. QED
  BY <1>2, <1>3, <1>4, <1>5, <1>6, <1>7, <1>8 DEF StreamNext, ExecStep

LEMMA InitAnnounced == StreamInit => AnnouncedInv
BY DEF StreamInit, AnnouncedInv, OneAnnouncer, AnnouncedOnce, NoCall

-----------------------------------------------------------------------------
(* What the stream promises.                                               *)

LEMMA StreamInvOrder == StreamInv => LandedInOrder
<1> SUFFICES ASSUME StreamInv, NEW s \in Sessions
             PROVE  /\ landings[s] = 1..Cardinality(landings[s])
                    /\ item.session = s => Cardinality(landings[s]) \in {item.emitted, item.emitted + 1}
  BY DEF LandedInOrder
<1>1. PICK e \in Pulses \cup {0} : Reached(s, e)
  BY DEF StreamInv, InStep
<1>2. e \in Nat
  BY PulsesAreNat
<1>3. Cardinality(1..e) = e /\ Cardinality(1..(e + 1)) = e + 1
  BY <1>2, FS_Interval
<1>4. /\ landings[s] \in {1..e, 1..(e + 1)}
      /\ item.session = s => item.emitted = e
  BY <1>1 DEF Reached
<1>5. QED
  BY <1>3, <1>4

\* Only the creation of an item gives it another session.
LEMMA ItemSession ==
    ASSUME StreamInv, StreamNext, item' # item
    PROVE  \/ item'.session = item.session
           \/ \E s \in Sessions : CreateItem(s) /\ MayCreate
<1>1. StreamTyped /\ CallsAreNamed /\ item \in ItemRecord
  BY TypeParts DEF StreamInv, StreamTyped
<1>2. ASSUME NEW s, NEW status, Terminal(s, status) PROVE item'.session = item.session
  BY <1>1, <1>2 DEF Terminal, ItemRecord
<1>3. ASSUME NEW s, NEW c, Bind(s, c) PROVE item'.session = item.session
  BY <1>1, <1>3 DEF Bind, ItemRecord
<1>4. ASSUME NEW s \in Sessions, ReadForStart(s) \/ StartStep(s) \/ StartDies(s)
      PROVE  \/ item'.session = item.session
             \/ CreateItem(s) /\ MayCreate
  <2>1. CASE CreateItem(s)
    BY <2>1 DEF CreateItem
  <2>2. CASE RecordStartFailure(s) \/ BindFirst(s)
    BY <1>2, <1>3, <2>2 DEF RecordStartFailure, BindFirst
  <2>3. CASE ReadForStart(s) \/ StartFirst(s) \/ StartFirstFails(s) \/ StartDies(s)
    BY <2>3 DEF ReadForStart, StartFirst, StartFirstFails, StartDies
  <2>4. QED
    BY <1>4, <2>1, <2>2, <2>3 DEF StartStep
<1>5. ASSUME NEW s \in Sessions, NEW c \in Chunks, ExecStep(s, c) \/ LoseAnswer(s, c)
      PROVE  item'.session = item.session
  <2>1. UNCHANGED item \/ Terminal(s, "failed")
    BY <1>5, Zenon DEF ExecStep, Invoke, RecordFailure, LoseAnswer
  <2>2. QED
    BY <1>2, <2>1
<1>6. ASSUME NEW r \in Stops, ReadForStop(r) \/ StopStep(r) \/ StopDies(r)
      PROVE  item'.session = item.session
  BY <1>2, <1>6, Zenon DEF ReadForStop, StopStep, MarkStopped, HaltExecution, StopDies
<1>7. ASSUME NEW t \in Ticks, TickStep(t) \/ TickFails(t)
      PROVE  item'.session = item.session
  <2>1. CASE Advance(t)
    BY <1>1, <2>1, AdvanceItem
  <2>2. CASE BindNext(t)
    BY <1>3, <2>2 DEF BindNext
  <2>3. CASE TickRead(t) \/ PutObject(t) \/ Announce(t) \/ StartNext(t) \/ AnswerRotation(t)
    BY <2>3, Zenon DEF TickRead, PutObject, Announce, StartNext, AnswerRotation
  <2>4. CASE TickFails(t)
    BY <2>4, Zenon DEF TickFails
  <2>5. QED
    BY <1>7, <2>1, <2>2, <2>3, <2>4 DEF TickStep
<1>8. QED
  BY <1>4, <1>5, <1>6, <1>7 DEF StreamNext

\* What is not running is left as it is, except by the session that replaces it.
LEMMA StoppedStays ==
    ASSUME StreamInv, StreamNext, item.status \notin {"none", "running"}, item'.session = item.session
    PROVE  item' = item
<1>1. StreamTyped /\ CallsAreNamed /\ item \in ItemRecord
  BY TypeParts DEF StreamInv, StreamTyped
<1>2. ASSUME NEW s, NEW status, Terminal(s, status) PROVE item' = item
  BY <1>2 DEF Terminal, Runs
<1>3. ASSUME NEW s, NEW c, Bind(s, c) PROVE item' = item
  BY <1>3 DEF Bind, Runs
<1>4. ASSUME NEW s \in Sessions, ReadForStart(s) \/ StartStep(s) \/ StartDies(s)
      PROVE  item' = item
  <2>1. CASE CreateItem(s)
    <3>1. item.session # s
      BY <2>1 DEF CreateItem, StreamInv, NothingBefore, Unborn
    <3>2. MayCreate => item'.session = s
      BY <2>1 DEF CreateItem, NoItem
    <3>3. QED
      BY <2>1, <3>1, <3>2 DEF CreateItem
  <2>2. CASE RecordStartFailure(s) \/ BindFirst(s)
    BY <1>2, <1>3, <2>2 DEF RecordStartFailure, BindFirst
  <2>3. CASE ReadForStart(s) \/ StartFirst(s) \/ StartFirstFails(s) \/ StartDies(s)
    BY <2>3 DEF ReadForStart, StartFirst, StartFirstFails, StartDies
  <2>4. QED
    BY <1>4, <2>1, <2>2, <2>3 DEF StartStep
<1>5. ASSUME NEW s \in Sessions, NEW c \in Chunks, ExecStep(s, c) \/ LoseAnswer(s, c)
      PROVE  item' = item
  <2>1. UNCHANGED item \/ Terminal(s, "failed")
    BY <1>5, Zenon DEF ExecStep, Invoke, RecordFailure, LoseAnswer
  <2>2. QED
    BY <1>2, <2>1
<1>6. ASSUME NEW r \in Stops, ReadForStop(r) \/ StopStep(r) \/ StopDies(r)
      PROVE  item' = item
  BY <1>2, <1>6, Zenon DEF ReadForStop, StopStep, MarkStopped, HaltExecution, StopDies
<1>7. ASSUME NEW t \in Ticks, TickStep(t) \/ TickFails(t)
      PROVE  item' = item
  <2>1. CASE Advance(t)
    BY <1>1, <2>1, AdvanceItem DEF MayAdvance, Runs
  <2>2. CASE BindNext(t)
    BY <1>3, <2>2 DEF BindNext
  <2>3. CASE TickRead(t) \/ PutObject(t) \/ Announce(t) \/ StartNext(t) \/ AnswerRotation(t)
    BY <2>3, Zenon DEF TickRead, PutObject, Announce, StartNext, AnswerRotation
  <2>4. CASE TickFails(t)
    BY <2>4, Zenon DEF TickFails
  <2>5. QED
    BY <1>7, <2>1, <2>2, <2>3, <2>4 DEF TickStep
<1>8. QED
  BY <1>4, <1>5, <1>6, <1>7 DEF StreamNext

LEMMA StreamIsInvariant == StreamSpec => [](StreamInv /\ AnnouncedInv)
<1>1. StreamInit => StreamInv /\ AnnouncedInv
  BY InitInv, InitAnnounced
<1>2. StreamInv /\ AnnouncedInv /\ [StreamNext]_streamVars => (StreamInv /\ AnnouncedInv)'
  BY NextInv, NextAnnounced
<1>3. QED
  BY <1>1, <1>2, PTL DEF StreamSpec

\* The pulses of a session land without a gap, and at most one ahead of what its item says
\* is emitted, whatever is retried, stopped or replaced (demo_stream_tick).
THEOREM StreamLandsInOrder == StreamSpec => []LandedInOrder
BY StreamIsInvariant, StreamInvOrder, PTL

\* However many invocations emit the same pulse, it is announced once at most, and only
\* when its object landed (the conditional put of demo_stream_tick).
THEOREM StreamAnnouncesOnce == StreamSpec => []AnnouncedOnce
<1>1. AnnouncedInv => AnnouncedOnce
  BY DEF AnnouncedInv
<1>2. QED
  BY <1>1, StreamIsInvariant, PTL

\* No request takes the place of a session that runs (_create_demo_stream_item).
THEOREM StreamKeepsItsSession == StreamSpec => RunningIsKept
<1>1. StreamInv /\ [StreamNext]_streamVars => [item.status = "running" => item'.session = item.session]_item
  <2> SUFFICES ASSUME StreamInv, StreamNext, item' # item, item.status = "running"
               PROVE  item'.session = item.session
    BY DEF streamVars
  <2>1. QED
    BY ItemSession DEF MayCreate
<1>2. QED
  BY <1>1, StreamIsInvariant, PTL DEF StreamSpec, RunningIsKept

\* What was stopped, failed or completed stays so, with what it had emitted, until another
\* session replaces it: also when an invocation rotates at that moment (ADR 0009).
THEOREM StreamStaysStopped == StreamSpec => TerminalIsFinal
<1>1. StreamInv /\ [StreamNext]_streamVars
      => [item.status \notin {"none", "running"} /\ item'.session = item.session => item' = item]_item
  <2> SUFFICES ASSUME StreamInv, StreamNext, item' # item
               PROVE  item.status \notin {"none", "running"} /\ item'.session = item.session => item' = item
    BY DEF streamVars
  <2>1. QED
    BY StoppedStays
<1>2. QED
  BY <1>1, StreamIsInvariant, PTL DEF StreamSpec, TerminalIsFinal
-----------------------------------------------------------------------------
(* The identities.                                                         *)

\* The commands that have the lock keep each other out, and the presenter is enrolled in
\* the order in which the file is saved, the factor verified, and then asked for.
Exclusive == \A o \in Operators : conf[o].pc \notin {"idle", "lock"} => lock = o
Enrolls(o) ==
    /\ conf[o].pc \in {"associate", "verify"} => ~pool[Presenter].mfa
    /\ conf[o].pc = "verify" => presenter.secret = conf[o].secret
    /\ conf[o].pc = "prefer" => presenter.secret = pool[Presenter].factor
    /\ conf[o].pc = "alone"  => conf[o].user \in Team
    /\ conf[o].pc \in {"idle", "lock"} => ~conf[o].client
    /\ conf[o].pc \notin {"idle", "lock"} => team # 0

UserRecord == [there : BOOLEAN, enabled : BOOLEAN, password : Nat,
               group : SUBSET {"right", "wrong"}, factor : Nat, mfa : BOOLEAN]
ConfRecord ==
    [pc : {"idle", "lock", "account", "password", "leave", "join", "alone", "presenter", "client",
           "sign in", "associate", "verify", "prefer", "complete", "delete"},
     todo : SUBSET Team, user : Users, secret : Nat, client : BOOLEAN]
FileRecord == [there : BOOLEAN, complete : BOOLEAN, secret : Nat]
IdentitiesTyped ==
    /\ pool \in [Users -> UserRecord] /\ conf \in [Operators -> ConfRecord]
    /\ presenter \in FileRecord /\ team \in Nat /\ minted \in Nat \ {0}

IdentityInv ==
    /\ IdentitiesTyped /\ Exclusive /\ FactorIsKept
    /\ \A o \in Operators : Enrolls(o)

-----------------------------------------------------------------------------
(* The data.                                                               *)

Rows  == [batch : Batches, load : Nat, version : Nat]
Links == [run : Nat, row : Rows]
RunRecords  == [id : Nat, by : Who \cup {"preparer"}, exact : BOOLEAN, tagged : BOOLEAN]
AnalysisRecords ==
    [id : Nat, by : Who \cup {"preparer"}, pc : {"amounts", "write"}, rows : SUBSET Rows,
     amounts : SUBSET Rows]
Points ==
    {"idle", "identities", "stage", "clear", "drops", "migrate", "reset", "begin", "delete", "load",
     "analyse", "analysing", "finalize", "preflight", "rows", "runs", "guard", "get", "put"}
Command ==
    [cmd : {"none", "prepare", "check", "release", "redrop"},
     pc : Points, version : Nat, todo : SUBSET Fixtures, loaded : [Fixtures -> Nat], at : Nat,
     seen : SUBSET Nat, links : SUBSET Links, flags : SUBSET Rows, analysis : Nat, good : BOOLEAN]

Said == {"none", "error", "ready", "not ready", "released"}

BucketTyped ==
    /\ local \in Nat \ {0}
    /\ staged \in [Fixtures -> [body : Nat, hash : Nat]]
    /\ live \in [Drops -> Nat]
    /\ intakes \subseteq [drop : Drops \cup {"other"}, version : Nat]
    /\ web \in [pc : {"idle", "compare", "put"}, drop : Fixtures, body : Nat]
DataTyped ==
    /\ grants \subseteq Rows
    /\ approvals \subseteq [by : Who, subject : {"export", "other"}]
    /\ runs \subseteq RunRecords /\ IsFiniteSet(runs)
    /\ links \subseteq Links /\ flags \subseteq Rows
    /\ reseed \in [at : Nat, load : Nat, versions : [Fixtures -> Nat]]
    /\ analyses \subseteq AnalysisRecords
    /\ counts \in [resets : Nat, loads : Nat, analyses : Nat]
CommandsTyped ==
    /\ prep \in [Operators -> Command]
    /\ receipt \in [Operators -> Said]
DropsAreNamed ==
    /\ web.pc # "idle" => web.drop \in Drops
    /\ \A o \in Operators : prep[o].pc \in {"guard", "get", "put"} =>
            \E d \in Drops : prep[o].todo = {d}
Typed == BucketTyped /\ DataTyped /\ CommandsTyped /\ DropsAreNamed

\* The batch that is not of the demonstration has one version only.
OthersAreOfOne ==
    /\ \A i \in intakes : i.drop = "other" => i.version = 1
    /\ \A g \in grants  : g.batch = "other" => g.version = 1

\* A run has a number of its own, and what a reset has seen of it holds until it deletes it.
RunsAreNumbered ==
    /\ \A run \in runs : run.id <= counts.analyses
    /\ \A run, other \in runs : run.id = other.id => run.by = other.by
    /\ \A a \in analyses : a.id <= counts.analyses /\ \A run \in runs : run.id # a.id
    /\ \A a, b \in analyses : a.id = b.id => a = b
SeenAreOwned(o) ==
    \A id \in prep[o].seen :
        /\ id <= counts.analyses
        /\ \A run \in runs : run.id = id => run.by \in DemoActors
        /\ \A a \in analyses : a.id # id
AnalysisIsOwned(o) ==
    prep[o].pc \in {"analysing", "finalize"} =>
        /\ prep[o].analysis <= counts.analyses
        /\ \A x \in runs \cup analyses : x.id = prep[o].analysis => x.by = "preparer"

\* The rows of the baseline are those of the last load, in the version that its row of the
\* audit log names, unless a reset that began earlier has committed later.
BaselineIsLoaded ==
    /\ reseed.load <= counts.loads /\ reseed.at <= counts.resets
    /\ \A o \in Operators : prep[o].at <= counts.resets
    /\ \A g \in grants : g.batch = Baseline =>
            /\ g.load = counts.loads
            /\ InOrder => g.version = reseed.versions[Baseline]

DataInv ==
    /\ Typed /\ OthersAreOfOne /\ RunsAreNumbered /\ BaselineIsLoaded
    /\ \A o \in Operators : SeenAreOwned(o) /\ AnalysisIsOwned(o)

-----------------------------------------------------------------------------
(* The command of an operator whom nobody disturbs.                        *)

Busy(o) == ~At(o, "idle")
Current == [f \in Fixtures |-> [body |-> local, hash |-> local]]
NoDrops == [d \in Drops |-> 0]
AfterDrops == {"migrate", "reset", "begin", "delete", "load", "analyse", "analysing", "finalize",
               "preflight", "rows", "runs"}
Releases == {"guard", "get", "put"}

\* Nobody else is at work, and what the command has found so far is so still.
Undisturbed(o) ==
    /\ \A p \in Operators \ {o} : prep[p].pc = "idle"
    /\ \A p \in Operators : conf[p].pc = "idle"
    /\ intakes = {} /\ web = NoRelease
    /\ \A a \in analyses : At(o, "analysing") /\ a.id = prep[o].analysis
    /\ prep[o].version = local
    /\ prep[o].pc \notin Releases \cup {"identities"} => Posture
    /\ prep[o].pc \in AfterDrops /\ prep[o].good => live = NoDrops
    /\ prep[o].pc \in {"rows", "runs"} =>
            \A f \in Fixtures : Valid(staged[f]) /\ prep[o].loaded[f] = staged[f].body
    /\ prep[o].pc = "runs" /\ prep[o].good => RowsArePristine(prep[o].loaded)

IsRight(o) ==
    /\ Busy(o) => receipt[o] = "none" /\ Undisturbed(o)
    /\ ~Busy(o) /\ receipt[o] = "ready" => Pristine
AloneInv == \A o \in Operators : alone[o] # "no" => IsRight(o)

\* Where the command of an operator is that heals, and what it has brought about.
Traces ==  \* only the demonstration has left any
    OnlyDemoState /\ \A a \in approvals : a.subject = "export"
Fresh ==
    /\ grants = {[batch |-> Baseline, load |-> counts.loads, version |-> local]}
    /\ landed = {Baseline} /\ approvals = {}
    /\ reseed.versions = [f \in Fixtures |-> local]
TheRun(o, tagged) == [id |-> prep[o].analysis, by |-> "preparer", exact |-> TRUE, tagged |-> tagged]
TheAnalysis(o, pc, amounts) ==
    [id |-> prep[o].analysis, by |-> "preparer", pc |-> pc, rows |-> grants, amounts |-> amounts]
Analysed(o, tagged) ==
    runs = {TheRun(o, tagged)} /\ links = [run : {prep[o].analysis}, row : grants] /\ flags = grants

Heals(o) ==
    /\ prep[o].cmd = "prepare" /\ prep[o].good
    /\ prep[o].pc \notin Releases
    /\ prep[o].pc = "identities" => Posture /\ prep[o].todo = Fixtures
    /\ prep[o].pc \in {"identities", "stage", "clear", "drops", "migrate", "reset", "begin", "delete",
                       "load"} => Traces
    /\ prep[o].pc = "stage" => \A f \in Fixtures \ prep[o].todo : staged[f] = Current[f]
    /\ prep[o].pc \in {"clear", "drops"} \cup AfterDrops => staged = Current
    /\ prep[o].pc = "drops" => live = NoDrops
    /\ prep[o].pc \in AfterDrops \ {"migrate"} => migrated
    /\ prep[o].pc \in {"begin", "delete", "load", "analyse", "analysing", "finalize", "rows", "runs"}
          => prep[o].loaded = [f \in Fixtures |-> local]
    /\ prep[o].pc \in {"delete", "load"} => prep[o].at > reseed.at /\ RunIds \subseteq prep[o].seen
    /\ prep[o].pc = "load" => links \subseteq prep[o].links /\ flags \subseteq prep[o].flags
    /\ prep[o].pc \in {"analyse", "analysing", "finalize", "preflight", "rows", "runs"} => Fresh
    /\ prep[o].pc \in {"analyse", "analysing"} => runs = {} /\ links = {} /\ flags = {}
    /\ prep[o].pc = "analysing" =>
          analyses = {TheAnalysis(o, "amounts", {})} \/ analyses = {TheAnalysis(o, "write", grants)}
    /\ prep[o].pc = "finalize" => Analysed(o, FALSE)
    /\ prep[o].pc \in {"preflight", "rows", "runs"} => Analysed(o, TRUE)

IsHealing(o) == IF Busy(o) THEN Heals(o) ELSE receipt[o] = "ready"
HealingInv == \A o \in Operators : alone[o] = "healing" => IsHealing(o)

-----------------------------------------------------------------------------
(* The posture command.                                                    *)

\* A command goes on: the others are where they were.
LEMMA GotoShape ==
    ASSUME IdentitiesTyped, NEW o \in Operators,
           NEW pc \in {"idle", "lock", "account", "password", "leave", "join", "alone", "presenter",
                       "client", "sign in", "associate", "verify", "prefer", "complete", "delete"},
           Goto(o, pc)
    PROVE  /\ conf' \in [Operators -> ConfRecord]
           /\ conf'[o].pc = pc /\ conf'[o].user = conf[o].user /\ conf'[o].secret = conf[o].secret
           /\ conf'[o].client = conf[o].client
           /\ \A p \in Operators \ {o} : conf'[p] = conf[p]
BY DEF IdentitiesTyped, Goto, ConfRecord

LEMMA ChangeShape ==
    ASSUME IdentitiesTyped, NEW u \in Users, NEW user \in UserRecord, Change(u, user)
    PROVE  /\ pool' \in [Users -> UserRecord] /\ pool'[u] = user
           /\ \A v \in Users \ {u} : pool'[v] = pool[v]
BY DEF IdentitiesTyped, Change

LEMMA LeaveShape ==
    ASSUME IdentitiesTyped, NEW o \in Operators, Leave(o)
    PROVE  /\ conf' \in [Operators -> ConfRecord] /\ conf'[o].pc = "idle" /\ ~conf'[o].client
           /\ \A p \in Operators \ {o} : conf'[p] = conf[p]
           /\ lock' = IF lock = o THEN Nobody ELSE lock
<1>1. NoRun \in ConfRecord /\ NoRun.pc = "idle" /\ ~NoRun.client
  BY DEF NoRun, ConfRecord, Users
<1>2. QED
  BY <1>1 DEF IdentitiesTyped, Leave

LEMMA RaiseShape ==
    ASSUME IdentitiesTyped, NEW o \in Operators, Raise(o)
    PROVE  /\ conf' \in [Operators -> ConfRecord]
           /\ \A p \in Operators \ {o} : conf'[p] = conf[p]
           /\ \/ conf'[o].pc = "delete" /\ conf[o].client /\ lock' = lock
              \/ /\ conf'[o].pc = "idle" /\ ~conf'[o].client
                 /\ lock' = IF lock = o THEN Nobody ELSE lock
BY GotoShape, LeaveShape DEF Raise

\* Who has the lock may do what it likes, if it keeps the factor.
LEMMA HolderKeeps ==
    ASSUME IdentityInv, NEW o \in Operators, conf[o].pc \notin {"idle", "lock"},
           IdentitiesTyped', \A p \in Operators \ {o} : conf'[p] = conf[p],
           conf'[o].pc \in {"idle", "lock"} \/ lock' = lock,
           Enrolls(o)', FactorIsKept'
    PROVE  IdentityInv'
<1>1. lock = o /\ \A p \in Operators \ {o} : conf'[p].pc \in {"idle", "lock"}
  BY DEF IdentityInv, Exclusive
<1>2. Exclusive'
  BY <1>1 DEF Exclusive
<1>3. ASSUME NEW p \in Operators PROVE Enrolls(p)'
  <2>1. CASE p # o
    BY <1>1, <2>1 DEF IdentityInv, Enrolls
  <2>2. QED
    BY <2>1
<1>4. QED
  BY <1>2, <1>3 DEF IdentityInv

\* The steps that leave the file and the factor of the presenter alone, and what is asked.
LEMMA ConfigureKeeps ==
    ASSUME IdentityInv, NEW o \in Operators, conf[o].pc \notin {"idle", "lock"},
           IdentitiesTyped', \A p \in Operators \ {o} : conf'[p] = conf[p],
           conf'[o].pc \notin {"idle", "lock", "associate", "verify", "prefer"}, lock' = lock,
           conf'[o].pc = "alone" => conf'[o].user \in Team,
           UNCHANGED <<team, presenter>>,
           pool'[Presenter].mfa = pool[Presenter].mfa, pool'[Presenter].factor = pool[Presenter].factor
    PROVE  IdentityInv'
<1>1. FactorIsKept'
  BY DEF IdentityInv, FactorIsKept
<1>2. team # 0
  BY DEF IdentityInv, Enrolls
<1>3. Enrolls(o)'
  BY <1>2 DEF Enrolls
<1>4. QED
  BY <1>1, <1>3, HolderKeeps

\* What a step on a user finds.
LEMMA TheUser ==
    ASSUME IdentitiesTyped, NEW o \in Operators
    PROVE  /\ conf[o] \in ConfRecord /\ conf[o].user \in Users /\ pool[conf[o].user] \in UserRecord
           /\ Presenter \in Users /\ pool[Presenter] \in UserRecord
BY DEF IdentitiesTyped, ConfRecord, Users

LEMMA BeginConfigureInv ==
    ASSUME IdentityInv, NEW o \in Operators, BeginConfigure(o)
    PROVE  IdentityInv'
<1>1. /\ conf' \in [Operators -> ConfRecord] /\ conf'[o].pc = "lock"
      /\ \A p \in Operators \ {o} : conf'[p] = conf[p]
      /\ conf'[o].client = conf[o].client /\ conf[o].pc = "idle"
      /\ UNCHANGED <<pool, team, presenter, lock, minted>>
  BY GotoShape DEF IdentityInv, BeginConfigure
<1>2. IdentitiesTyped' /\ FactorIsKept'
  BY <1>1 DEF IdentityInv, IdentitiesTyped, FactorIsKept
<1>3. /\ \A p \in Operators : p = o \/ conf'[p] = conf[p]
      /\ ~conf'[o].client
  BY <1>1 DEF IdentityInv, Enrolls
<1>4. Exclusive' /\ \A p \in Operators : Enrolls(p)'
  BY <1>1, <1>3 DEF IdentityInv, Exclusive, Enrolls
<1>5. QED
  BY <1>2, <1>4 DEF IdentityInv

LEMMA LockAndLoadInv ==
    ASSUME IdentityInv, NEW o \in Operators, LockAndLoad(o)
    PROVE  IdentityInv'
<1>1. IdentitiesTyped /\ lock = Nobody /\ lock' = o
  BY DEF IdentityInv, LockAndLoad
<1>2. PICK u \in Team : conf' = [conf EXCEPT ![o] = [@ EXCEPT !.pc = "account", !.user = u,
                                                              !.todo = Team \ {u}]]
  BY DEF LockAndLoad
<1>3. /\ conf' \in [Operators -> ConfRecord] /\ conf'[o].pc = "account"
      /\ \A p \in Operators \ {o} : conf'[p] = conf[p]
  BY <1>1, <1>2, TheUser DEF IdentitiesTyped, ConfRecord, Users
<1>4. /\ team' \in Nat \ {0} /\ minted' \in Nat \ {0}
      /\ UNCHANGED <<pool, presenter>>
  BY <1>1 DEF LockAndLoad, IdentitiesTyped
<1>5. \A p \in Operators \ {o} : conf'[p].pc \in {"idle", "lock"}
  BY <1>1, <1>3, IdentitiesAssumption DEF IdentityInv, Exclusive
<1>6. IdentitiesTyped' /\ FactorIsKept'
  BY <1>1, <1>3, <1>4 DEF IdentityInv, IdentitiesTyped, FactorIsKept
<1>7. Exclusive'
  BY <1>1, <1>3, <1>5 DEF Exclusive
<1>8. ASSUME NEW p \in Operators PROVE Enrolls(p)'
  <2>1. CASE p = o
    BY <1>3, <1>4, <2>1 DEF Enrolls
  <2>2. CASE p # o
    BY <1>3, <1>5, <2>2 DEF IdentityInv, Enrolls
  <2>3. QED
    BY <2>1, <2>2
<1>9. QED
  BY <1>6, <1>7, <1>8 DEF IdentityInv

\* The steps on the account of a user, the presenter's among them.
LEMMA AccountInv ==
    ASSUME IdentityInv, NEW o \in Operators,
           EnsureAccount(o) \/ EnsurePassword(o) \/ LeaveGroups(o) \/ JoinGroup(o)
    PROVE  IdentityInv'
<1> DEFINE u == conf[o].user
<1>1. IdentitiesTyped /\ team \in Nat /\ u \in Users /\ pool[u] \in UserRecord
  BY TheUser DEF IdentityInv, IdentitiesTyped
<1>2. PICK user \in UserRecord : /\ user.mfa = pool[u].mfa /\ user.factor = pool[u].factor
                                 /\ Change(u, user)
  <2>1. CASE EnsureAccount(o)
    <3>1. [pool[u] EXCEPT !.there = TRUE, !.enabled = TRUE] \in UserRecord
      BY <1>1 DEF UserRecord
    <3>2. QED
      BY <1>1, <2>1, <3>1 DEF EnsureAccount, UserRecord
  <2>2. CASE EnsurePassword(o)
    <3>1. [pool[u] EXCEPT !.password = team] \in UserRecord
      BY <1>1 DEF UserRecord
    <3>2. QED
      BY <1>1, <2>2, <3>1 DEF EnsurePassword, UserRecord
  <2>3. CASE LeaveGroups(o)
    <3>1. [pool[u] EXCEPT !.group = pool[u].group \ WrongGroups(pool[u])] \in UserRecord
      BY <1>1 DEF UserRecord
    <3>2. QED
      BY <1>1, <2>3, <3>1 DEF LeaveGroups, UserRecord
  <2>4. CASE JoinGroup(o)
    <3>1. [pool[u] EXCEPT !.group = pool[u].group \cup {"right"}] \in UserRecord
      BY <1>1 DEF UserRecord
    <3>2. QED
      BY <1>1, <2>4, <3>1 DEF JoinGroup, UserRecord
  <2>5. QED
    BY <2>1, <2>2, <2>3, <2>4
<1>3. PICK pc \in {"password", "leave", "join", "client", "alone"} :
          Goto(o, pc) /\ (pc = "alone" => u # Presenter)
  BY DEF EnsureAccount, EnsurePassword, LeaveGroups, JoinGroup
<1>4. /\ conf[o].pc \notin {"idle", "lock"} /\ UNCHANGED <<team, presenter, lock, minted>>
  BY DEF EnsureAccount, EnsurePassword, LeaveGroups, JoinGroup
<1>5. /\ conf' \in [Operators -> ConfRecord] /\ conf'[o].pc = pc /\ conf'[o].user = u
      /\ \A p \in Operators \ {o} : conf'[p] = conf[p]
  BY <1>1, <1>3, GotoShape
<1>6. /\ pool' \in [Users -> UserRecord] /\ pool'[u] = user
      /\ \A v \in Users \ {u} : pool'[v] = pool[v]
  BY <1>1, <1>2, ChangeShape
<1>7. pool'[Presenter].mfa = pool[Presenter].mfa /\ pool'[Presenter].factor = pool[Presenter].factor
  BY <1>1, <1>2, <1>6, TheUser
<1>8. IdentitiesTyped'
  BY <1>1, <1>4, <1>5, <1>6 DEF IdentitiesTyped
<1>9. conf'[o].pc = "alone" => conf'[o].user \in Team
  BY <1>1, <1>3, <1>5 DEF Users
<1>10. QED
  BY <1>3, <1>4, <1>5, <1>7, <1>8, <1>9, ConfigureKeeps

LEMMA PasswordOnlyInv ==
    ASSUME IdentityInv, NEW o \in Operators, PasswordOnly(o)
    PROVE  IdentityInv'
<1>1. IdentitiesTyped /\ conf[o] \in ConfRecord /\ conf[o].pc = "alone" /\ conf[o].user \in Team
  BY TheUser DEF IdentityInv, PasswordOnly, Enrolls
<1> DEFINE u == conf[o].user
<1>2. /\ pool' \in [Users -> UserRecord]
      /\ \A v \in Users \ {u} : pool'[v] = pool[v]
  <2>1. pool[u] \in UserRecord /\ u \in Users
    BY <1>1, TheUser
  <2>2. [pool[u] EXCEPT !.mfa = FALSE] \in UserRecord
    BY <2>1 DEF UserRecord
  <2>3. QED
    BY <1>1, <2>1, <2>2, ChangeShape DEF PasswordOnly
<1>3. /\ conf' \in [Operators -> ConfRecord] /\ conf'[o].pc \in {"account", "presenter"}
      /\ \A p \in Operators \ {o} : conf'[p] = conf[p]
  <2>1. CASE conf[o].todo = {}
    BY <1>1, <2>1, GotoShape DEF PasswordOnly
  <2>2. CASE conf[o].todo # {}
    <3>1. PICK v \in conf[o].todo :
             conf' = [conf EXCEPT ![o] = [@ EXCEPT !.pc = "account", !.user = v,
                                                   !.todo = conf[o].todo \ {v}]]
      BY <2>2 DEF PasswordOnly
    <3>2. [conf[o] EXCEPT !.pc = "account", !.user = v, !.todo = conf[o].todo \ {v}] \in ConfRecord
      BY <1>1 DEF ConfRecord, Users
    <3>3. QED
      BY <1>1, <3>1, <3>2 DEF IdentitiesTyped, ConfRecord
  <2>3. QED
    BY <2>1, <2>2
<1>4. UNCHANGED <<team, presenter, lock, minted>>
  BY DEF PasswordOnly
<1>5. IdentitiesTyped'
  BY <1>1, <1>2, <1>3, <1>4 DEF IdentitiesTyped
<1>6. pool'[Presenter] = pool[Presenter]
  BY <1>1, <1>2, IdentitiesAssumption DEF Users
<1>7. QED
  BY <1>1, <1>3, <1>4, <1>5, <1>6, ConfigureKeeps

LEMMA PresenterInv ==
    ASSUME IdentityInv, NEW o \in Operators,
           LoadPresenter(o) \/ CreateClient(o) \/ CompletePresenter(o)
    PROVE  IdentityInv'
<1>1. /\ IdentitiesTyped /\ conf[o] \in ConfRecord /\ conf[o].pc \notin {"idle", "lock"}
      /\ UNCHANGED <<pool, team, lock, minted>>
  BY TheUser DEF IdentityInv, LoadPresenter, CreateClient, CompletePresenter
<1>2. presenter' \in FileRecord /\ presenter'.secret \in {0, presenter.secret}
  <2>1. presenter \in FileRecord
    BY <1>1 DEF IdentitiesTyped
  <2>2. \/ presenter' = presenter \/ presenter' = [NoFile EXCEPT !.there = TRUE]
        \/ presenter' = [presenter EXCEPT !.complete = TRUE]
    BY DEF LoadPresenter, CreateClient, CompletePresenter
  <2>3. CASE presenter' = [NoFile EXCEPT !.there = TRUE]
    <3>1. presenter' = [there |-> TRUE, complete |-> FALSE, secret |-> 0]
      BY <2>3 DEF NoFile
    <3>2. QED
      BY <3>1 DEF FileRecord
  <2>4. CASE presenter' = [presenter EXCEPT !.complete = TRUE]
    BY <2>1, <2>4 DEF FileRecord
  <2>5. QED
    BY <2>1, <2>2, <2>3, <2>4
<1>3. /\ conf' \in [Operators -> ConfRecord] /\ conf'[o].pc \in {"account", "sign in", "delete"}
      /\ \A p \in Operators \ {o} : conf'[p] = conf[p]
  <2>1. CASE LoadPresenter(o)
    <3>1. [conf[o] EXCEPT !.pc = "account", !.user = Presenter] \in ConfRecord
      BY <1>1 DEF ConfRecord, Users
    <3>2. QED
      BY <1>1, <2>1, <3>1 DEF LoadPresenter, IdentitiesTyped, ConfRecord
  <2>2. CASE CreateClient(o)
    <3>1. [conf[o] EXCEPT !.pc = "sign in", !.client = TRUE] \in ConfRecord
      BY <1>1 DEF ConfRecord
    <3>2. QED
      BY <1>1, <2>2, <3>1 DEF CreateClient, IdentitiesTyped, ConfRecord
  <2>3. CASE CompletePresenter(o)
    BY <1>1, <2>3, GotoShape DEF CompletePresenter
  <2>4. QED
    BY <2>1, <2>2, <2>3
<1>4. IdentitiesTyped'
  BY <1>1, <1>2, <1>3 DEF IdentitiesTyped
<1>5. FactorIsKept'
  BY <1>1, <1>2 DEF IdentityInv, FactorIsKept
<1>6. Enrolls(o)'
  BY <1>1, <1>3 DEF IdentityInv, Enrolls
<1>7. QED
  BY <1>1, <1>3, <1>4, <1>5, <1>6, HolderKeeps

LEMMA SignInInv ==
    ASSUME IdentityInv, NEW o \in Operators, SignIn(o)
    PROVE  IdentityInv'
<1>1. /\ IdentitiesTyped /\ conf[o].pc = "sign in"
      /\ UNCHANGED <<pool, team, presenter, minted>>
  BY DEF IdentityInv, SignIn
<1>2. /\ conf' \in [Operators -> ConfRecord]
      /\ \A p \in Operators \ {o} : conf'[p] = conf[p]
      /\ \/ conf'[o].pc = "associate" /\ ~pool[Presenter].mfa /\ lock' = lock
         \/ conf'[o].pc = "prefer" /\ presenter.secret = pool[Presenter].factor /\ lock' = lock
         \/ conf'[o].pc = "idle" /\ ~conf'[o].client
         \/ conf'[o].pc = "delete" /\ lock' = lock
  <2>1. CASE ~MustProve(pool[Presenter])
    BY <1>1, <2>1, GotoShape DEF SignIn, MustProve
  <2>2. CASE MustProve(pool[Presenter]) /\ Answers(presenter.secret, pool[Presenter].factor)
    BY <1>1, <2>2, GotoShape DEF SignIn, Answers
  <2>3. CASE MustProve(pool[Presenter]) /\ ~Answers(presenter.secret, pool[Presenter].factor)
    BY <1>1, <2>3, RaiseShape DEF SignIn
  <2>4. QED
    BY <2>1, <2>2, <2>3
<1>3. IdentitiesTyped' /\ FactorIsKept'
  BY <1>1, <1>2 DEF IdentityInv, IdentitiesTyped, FactorIsKept
<1>4. Enrolls(o)'
  BY <1>1, <1>2 DEF IdentityInv, Enrolls
<1>5. QED
  BY <1>1, <1>2, <1>3, <1>4, HolderKeeps

LEMMA AssociateInv ==
    ASSUME IdentityInv, NEW o \in Operators, Associate(o)
    PROVE  IdentityInv'
<1>1. /\ IdentitiesTyped /\ conf[o] \in ConfRecord /\ conf[o].pc = "associate"
      /\ UNCHANGED <<pool, team, lock>> /\ minted' \in Nat \ {0}
      /\ ~pool[Presenter].mfa
  BY TheUser DEF IdentityInv, Associate, IdentitiesTyped, Enrolls
<1>2. presenter' \in FileRecord /\ presenter'.secret = minted'
  BY <1>1 DEF Associate, IdentitiesTyped, FileRecord
<1>3. /\ conf' \in [Operators -> ConfRecord]
      /\ conf'[o].pc = "verify" /\ conf'[o].secret = minted'
      /\ \A p \in Operators \ {o} : conf'[p] = conf[p]
  <2>1. [conf[o] EXCEPT !.pc = "verify", !.secret = minted'] \in ConfRecord
    BY <1>1 DEF ConfRecord
  <2>2. QED
    BY <1>1, <2>1 DEF Associate, IdentitiesTyped, ConfRecord
<1>4. IdentitiesTyped' /\ FactorIsKept'
  BY <1>1, <1>2, <1>3 DEF IdentitiesTyped, FactorIsKept
<1>5. Enrolls(o)'
  BY <1>1, <1>2, <1>3 DEF IdentityInv, Enrolls
<1>6. QED
  BY <1>1, <1>3, <1>4, <1>5, HolderKeeps

LEMMA VerifyInv ==
    ASSUME IdentityInv, NEW o \in Operators, Verify(o) \/ PreferFactor(o)
    PROVE  IdentityInv'
<1>1. /\ IdentitiesTyped /\ conf[o] \in ConfRecord /\ conf[o].pc \notin {"idle", "lock"}
      /\ pool[Presenter] \in UserRecord /\ Presenter \in Users
      /\ UNCHANGED <<presenter, team, lock, minted>>
  BY TheUser DEF IdentityInv, Verify, PreferFactor
<1>2. CASE Verify(o)
  <2>1. conf[o].secret = presenter.secret /\ ~pool[Presenter].mfa
    BY <1>2 DEF IdentityInv, Enrolls, Verify
  <2>2. [pool[Presenter] EXCEPT !.factor = conf[o].secret] \in UserRecord
    BY <1>1 DEF UserRecord, ConfRecord
  <2>3. /\ pool' \in [Users -> UserRecord]
        /\ pool'[Presenter] = [pool[Presenter] EXCEPT !.factor = conf[o].secret]
    BY <1>1, <1>2, <2>2, ChangeShape DEF Verify
  <2>4. pool'[Presenter].factor = presenter.secret
    BY <1>1, <2>1, <2>3 DEF UserRecord
  <2>5. /\ conf' \in [Operators -> ConfRecord] /\ conf'[o].pc = "prefer"
        /\ \A p \in Operators \ {o} : conf'[p] = conf[p]
    BY <1>1, <1>2, GotoShape DEF Verify
  <2>6. IdentitiesTyped' /\ FactorIsKept' /\ Enrolls(o)'
    BY <1>1, <2>3, <2>4, <2>5 DEF IdentityInv, IdentitiesTyped, FactorIsKept, Enrolls
  <2>7. QED
    BY <1>1, <2>5, <2>6, HolderKeeps
<1>3. CASE PreferFactor(o)
  <2>1. pool[Presenter].factor = presenter.secret
    BY <1>3 DEF IdentityInv, Enrolls, PreferFactor
  <2>2. [pool[Presenter] EXCEPT !.mfa = TRUE] \in UserRecord
    BY <1>1 DEF UserRecord
  <2>3. /\ pool' \in [Users -> UserRecord]
        /\ pool'[Presenter] = [pool[Presenter] EXCEPT !.mfa = TRUE]
    BY <1>1, <1>3, <2>2, ChangeShape DEF PreferFactor
  <2>4. pool'[Presenter].factor = presenter.secret
    BY <1>1, <2>1, <2>3 DEF UserRecord
  <2>5. /\ conf' \in [Operators -> ConfRecord] /\ conf'[o].pc = "complete"
        /\ \A p \in Operators \ {o} : conf'[p] = conf[p]
    BY <1>1, <1>3, GotoShape DEF PreferFactor
  <2>6. IdentitiesTyped' /\ FactorIsKept' /\ Enrolls(o)'
    BY <1>1, <2>3, <2>4, <2>5 DEF IdentityInv, IdentitiesTyped, FactorIsKept, Enrolls
  <2>7. QED
    BY <1>1, <2>5, <2>6, HolderKeeps
<1>4. QED
  BY <1>2, <1>3

\* A command ends, by itself, by an error or with its process.
LEMMA LeavingInv ==
    ASSUME IdentityInv, NEW o \in Operators,
           DeleteClient(o) \/ ConfigureFails(o) \/ ConfigureKilled(o)
    PROVE  IdentityInv'
<1>1. /\ IdentitiesTyped /\ conf[o].pc # "idle"
      /\ UNCHANGED <<pool, team, presenter, minted>>
  BY DEF IdentityInv, DeleteClient, ConfigureFails, ConfigureKilled
<1>2. /\ conf' \in [Operators -> ConfRecord]
      /\ \A p \in Operators \ {o} : conf'[p] = conf[p]
      /\ \/ conf'[o].pc = "delete" /\ conf[o].client /\ lock' = lock
         \/ /\ conf'[o].pc = "idle" /\ ~conf'[o].client
            /\ lock' = IF lock = o THEN Nobody ELSE lock
  <2>1. CASE DeleteClient(o) \/ ConfigureKilled(o)
    BY <1>1, <2>1, LeaveShape DEF DeleteClient, ConfigureKilled
  <2>2. CASE ConfigureFails(o)
    BY <1>1, <2>2, RaiseShape DEF ConfigureFails
  <2>3. QED
    BY <2>1, <2>2
<1>3. IdentitiesTyped' /\ FactorIsKept'
  BY <1>1, <1>2 DEF IdentityInv, IdentitiesTyped, FactorIsKept
<1>4. conf[o].client => conf[o].pc \notin {"idle", "lock"} /\ lock = o
  BY DEF IdentityInv, Enrolls, Exclusive
<1>5. ASSUME NEW p \in Operators \ {o}, conf[p].pc \notin {"idle", "lock"}
      PROVE  lock' = p
  BY <1>2, <1>5 DEF IdentityInv, Exclusive
<1>6. Exclusive'
  <2> SUFFICES ASSUME NEW p \in Operators, conf'[p].pc \notin {"idle", "lock"} PROVE lock' = p
    BY DEF Exclusive
  <2>1. CASE p = o
    BY <1>2, <1>4, <2>1
  <2>2. CASE p # o
    BY <1>2, <1>5, <2>2
  <2>3. QED
    BY <2>1, <2>2
<1>7. ASSUME NEW p \in Operators PROVE Enrolls(p)'
  <2>1. CASE p = o
    BY <1>1, <1>2, <1>4, <2>1 DEF IdentityInv, Enrolls
  <2>2. CASE p # o
    BY <1>1, <1>2, <2>2 DEF IdentityInv, Enrolls
  <2>3. QED
    BY <2>1, <2>2
<1>8. QED
  BY <1>3, <1>6, <1>7 DEF IdentityInv

LEMMA LoseFilesInv == ASSUME IdentityInv, LoseFiles PROVE IdentityInv'
<1>1. /\ lock = Nobody /\ team' = 0 /\ presenter' = NoFile
      /\ UNCHANGED <<pool, lock, minted, conf>>
  BY DEF LoseFiles
<1>2. \A o \in Operators : conf[o].pc \in {"idle", "lock"}
  BY <1>1, IdentitiesAssumption DEF IdentityInv, Exclusive
<1>3. IdentitiesTyped' /\ FactorIsKept' /\ Exclusive'
  BY <1>1 DEF IdentityInv, IdentitiesTyped, FactorIsKept, Exclusive, NoFile, FileRecord
<1>4. ASSUME NEW o \in Operators PROVE Enrolls(o)'
  BY <1>1, <1>2 DEF IdentityInv, Enrolls
<1>5. QED
  BY <1>3, <1>4 DEF IdentityInv

LEMMA ConfigureInv ==
    ASSUME IdentityInv, NEW o \in Operators,
           BeginConfigure(o) \/ ConfigureStep(o) \/ ConfigureFails(o) \/ ConfigureKilled(o)
    PROVE  IdentityInv'
BY BeginConfigureInv, LockAndLoadInv, AccountInv, PasswordOnlyInv, PresenterInv, SignInInv,
   AssociateInv, VerifyInv, LeavingInv
DEF ConfigureStep

LEMMA InitIdentities == IdentityInit => IdentityInv
<1> SUFFICES ASSUME IdentityInit PROVE IdentityInv
  OBVIOUS
<1>1. /\ conf = [o \in Operators |-> NoRun] /\ minted = 1 /\ NoRun \in ConfRecord
      /\ NoRun.pc = "idle" /\ ~NoRun.client
  BY DEF IdentityInit, NoRun, ConfRecord, Users
<1>2. /\ Absent \in UserRecord /\ Misplaced \in UserRecord /\ Legacy \in UserRecord
      /\ Account(1, "right", 1, TRUE) \in UserRecord /\ Account(1, "right", 0, FALSE) \in UserRecord
      /\ ~Absent.mfa /\ ~Misplaced.mfa
  BY DEF Absent, Misplaced, Legacy, Account, UserRecord
<1>3. CASE /\ pool = [u \in Users |-> IF u = Presenter THEN Account(1, "right", 1, TRUE)
                                      ELSE Account(1, "right", 0, FALSE)]
           /\ team = 1 /\ presenter = [there |-> TRUE, complete |-> TRUE, secret |-> 1]
  <2>1. IdentitiesTyped
    <3>1. pool \in [Users -> UserRecord]
      BY <1>2, <1>3
    <3>2. presenter \in FileRecord
      BY <1>3 DEF FileRecord
    <3>3. conf \in [Operators -> ConfRecord] /\ team \in Nat /\ minted \in Nat \ {0}
      BY <1>1, <1>3
    <3>4. QED
      BY <3>1, <3>2, <3>3 DEF IdentitiesTyped
  <2>2. FactorIsKept
    BY <1>3 DEF FactorIsKept, Users, Account
  <2>3. QED
    BY <1>1, <2>1, <2>2 DEF IdentityInv, Exclusive, Enrolls
<1>4. CASE /\ pool \in {[u \in Users |-> IF u = Presenter THEN found[2] ELSE found[1]] :
                  found \in {<<Absent, Absent>>, <<Legacy, Absent>>, <<Misplaced, Misplaced>>}}
           /\ team = 0 /\ presenter = NoFile
  <2>1. pool \in [Users -> UserRecord]
    BY <1>2, <1>4
  <2>2. IdentitiesTyped
    BY <1>1, <1>4, <2>1 DEF IdentitiesTyped, FileRecord, NoFile
  <2>3. FactorIsKept
    BY <1>4 DEF FactorIsKept, NoFile
  <2>4. QED
    BY <1>1, <2>2, <2>3 DEF IdentityInv, Exclusive, Enrolls
<1>5. QED
  BY <1>3, <1>4 DEF IdentityInit

\* Only the posture command, and the loss of the files, touches the identities.
LEMMA IdentitiesMove ==
    ASSUME [Next]_vars
    PROVE  \/ \E o \in Operators : \/ BeginConfigure(o) \/ ConfigureStep(o)
                                   \/ ConfigureFails(o) \/ ConfigureKilled(o)
           \/ LoseFiles
           \/ UNCHANGED identityVars
<1>1. CASE UNCHANGED vars
  BY <1>1 DEF vars
<1>2. ASSUME NEW o \in Operators, Prepare(o) \/ Check(o) \/ Release(o)
      PROVE  UNCHANGED identityVars
  BY <1>2 DEF Prepare, Check, Release, BeginCommand
<1>3. ASSUME NEW o \in Operators, PrepareStep(o) \/ CommandFails(o)
      PROVE  UNCHANGED identityVars
  BY <1>3, Zenon
  DEF PrepareStep, CommandFails, VerifyIdentities, Stage, ClearDrops, CheckDrops, Migrate, LoadStaged,
      BeginReset, DeleteAnalytics, LoadBaseline, ResetCollides, Analyse, ContinueAnalysis,
      ReadAmounts, FinishAnalysis, CommitAnalysis, Finalize, CheckRows, CheckRuns, ReleaseGuard, ReleaseGet, ReleasePut,
      IdentitiesKept
<1>4. CASE Others
  BY <1>4, Zenon
  DEF Others, OtherAnalysis, ReadAmounts, CommitAnalysis, IdentitiesKept, UpdateCheckout,
      WebRead, WebCompare, WebPut, IntakeReads, IntakeWrites, Simulate, UserAnalyses, RequestApproval, OperatorsKept
<1>5. QED
  BY <1>1, <1>2, <1>3, <1>4 DEF Next, IdentityStep

LEMMA NextIdentities == IdentityInv /\ [Next]_vars => IdentityInv'
<1> SUFFICES ASSUME IdentityInv, [Next]_vars PROVE IdentityInv'
  OBVIOUS
<1>1. CASE UNCHANGED identityVars
  BY <1>1 DEF identityVars, IdentityInv, IdentitiesTyped, Exclusive, FactorIsKept, Enrolls
<1>2. QED
  BY <1>1, IdentitiesMove, ConfigureInv, LoseFilesInv

-----------------------------------------------------------------------------
(* The data: the steps that leave it alone.                                *)

dataVars == <<grants, approvals, runs, links, flags, reseed, analyses, counts>>

LEMMA NoCommandIsOne ==
    /\ NoCommand \in Command /\ NoCommand.pc = "idle" /\ NoCommand.seen = {} /\ NoCommand.at = 0
    /\ NoVersions \in [Fixtures -> Nat]
BY DEF NoCommand, Command, Points, NoVersions, Fixtures

LEMMA WhatIsSaid == "none" \in Said /\ "error" \in Said /\ "ready" \in Said /\ "released" \in Said
BY DEF Said

LEMMA TheCommand ==
    ASSUME CommandsTyped, NEW o \in Operators
    PROVE  /\ prep[o] \in Command /\ prep[o].version \in Nat /\ prep[o].todo \subseteq Fixtures
           /\ prep[o].loaded \in [Fixtures -> Nat] /\ prep[o].at \in Nat
           /\ prep[o].analysis \in Nat /\ prep[o].seen \subseteq Nat
BY DEF CommandsTyped, Command

LEMMA OneCommand ==
    ASSUME CommandsTyped, NEW o \in Operators, NEW r \in Command, prep' = [prep EXCEPT ![o] = r]
    PROVE  /\ prep' \in [Operators -> Command] /\ prep'[o] = r
           /\ \A p \in Operators \ {o} : prep'[p] = prep[p]
BY DEF CommandsTyped

\* The ends of a step of a command.
LEMMA ProceedShape ==
    ASSUME CommandsTyped, NEW o \in Operators, NEW pc \in Points, Proceed(o, pc)
    PROVE  /\ [prep[o] EXCEPT !.pc = pc] \in Command
           /\ prep' = [prep EXCEPT ![o] = [prep[o] EXCEPT !.pc = pc]]
           /\ receipt' = receipt /\ CommandsTyped'
<1>1. [prep[o] EXCEPT !.pc = pc] \in Command
  BY TheCommand DEF Command
<1>2. prep' = [prep EXCEPT ![o] = [prep[o] EXCEPT !.pc = pc]] /\ receipt' = receipt
  BY DEF Proceed, CommandsTyped
<1>3. CommandsTyped'
  BY <1>1, <1>2, OneCommand DEF CommandsTyped
<1>4. QED
  BY <1>1, <1>2, <1>3

LEMMA EndShape ==
    ASSUME CommandsTyped, NEW o \in Operators,
           NEW said \in Said, End(o, said)
    PROVE  /\ prep' = [prep EXCEPT ![o] = NoCommand] /\ CommandsTyped'
           /\ prep'[o] = NoCommand /\ \A p \in Operators \ {o} : prep'[p] = prep[p]
           /\ receipt'[o] = said /\ \A p \in Operators \ {o} : receipt'[p] = receipt[p]
<1>1. prep' = [prep EXCEPT ![o] = NoCommand] /\ receipt' = [receipt EXCEPT ![o] = said]
  BY DEF End
<1>2. QED
  BY <1>1, NoCommandIsOne, OneCommand DEF CommandsTyped

\* What is asked of a step that leaves the data alone.
LEMMA DataStays ==
    ASSUME DataInv, CommandsTyped', BucketTyped', DropsAreNamed', UNCHANGED dataVars,
           \A i \in intakes' : i.drop = "other" => i.version = 1,
           \A o \in Operators :
              /\ prep'[o].seen \subseteq prep[o].seen /\ prep'[o].at \in {0, prep[o].at}
              /\ prep'[o].pc \in {"analysing", "finalize"} =>
                    prep'[o].pc = prep[o].pc /\ prep'[o].analysis = prep[o].analysis
    PROVE  DataInv'
<1>1. DataTyped' /\ Typed'
  BY DEF DataInv, Typed, DataTyped, dataVars
<1>2. OthersAreOfOne' /\ RunsAreNumbered'
  BY DEF DataInv, OthersAreOfOne, RunsAreNumbered, dataVars
<1>3. BaselineIsLoaded'
  <2>1. counts.resets \in Nat
    BY DEF DataInv, Typed, DataTyped
  <2>2. InOrder' <=> InOrder
    BY DEF InOrder, dataVars
  <2>3. \A o \in Operators : prep'[o].at <= counts.resets
    BY <2>1 DEF DataInv, BaselineIsLoaded
  <2>4. QED
    BY <2>2, <2>3 DEF DataInv, BaselineIsLoaded, dataVars
<1>4. ASSUME NEW o \in Operators PROVE SeenAreOwned(o)' /\ AnalysisIsOwned(o)'
  <2>1. SeenAreOwned(o)'
    BY DEF DataInv, SeenAreOwned, dataVars
  <2>2. AnalysisIsOwned(o)'
    BY DEF DataInv, AnalysisIsOwned, dataVars
  <2>3. QED
    BY <2>1, <2>2
<1>5. QED
  BY <1>1, <1>2, <1>3, <1>4 DEF DataInv

\* The steps of a command that leave what came with it alone, or end it.
LEMMA CommandStays ==
    ASSUME DataInv, NEW o \in Operators, NEW r \in Command,
           prep' = [prep EXCEPT ![o] = r], CommandsTyped', BucketTyped', UNCHANGED <<web, dataVars>>,
           \A i \in intakes' : i.drop = "other" => i.version = 1,
           r.seen \in {{}, prep[o].seen}, r.at \in {0, prep[o].at},
           r.pc \notin {"analysing", "finalize"},
           r.pc \in Releases => \E d \in Drops : r.todo = {d}
    PROVE  DataInv'
<1>1. CommandsTyped
  BY DEF DataInv, Typed
<1>2. prep'[o] = r /\ \A p \in Operators \ {o} : prep'[p] = prep[p]
  BY <1>1, OneCommand
<1>3. DropsAreNamed'
  <2>1. ASSUME NEW p \in Operators, prep'[p].pc \in Releases
        PROVE  \E d \in Drops : prep'[p].todo = {d}
    BY <1>2, <2>1 DEF DataInv, Typed, DropsAreNamed, Releases
  <2>2. QED
    BY <2>1 DEF DataInv, Typed, DropsAreNamed, Releases
<1>4. ASSUME NEW p \in Operators
      PROVE  /\ prep'[p].seen \subseteq prep[p].seen /\ prep'[p].at \in {0, prep[p].at}
             /\ prep'[p].pc \in {"analysing", "finalize"} =>
                   prep'[p].pc = prep[p].pc /\ prep'[p].analysis = prep[p].analysis
  BY <1>2
<1>5. QED
  BY <1>3, <1>4, DataStays

\* How a command that only goes on or ends meets that.
LEMMA GoesOn ==
    ASSUME DataInv, NEW o \in Operators, UNCHANGED <<web, dataVars>>, BucketTyped',
           \A i \in intakes' : i.drop = "other" => i.version = 1,
           \/ \E said \in Said : End(o, said)
           \/ \E pc \in Points \ {"analysing", "finalize"} :
                 Proceed(o, pc) /\ (pc \in Releases => prep[o].pc \in Releases)
    PROVE  DataInv'
<1>1. CommandsTyped
  BY DEF DataInv, Typed
<1>2. CASE \E said \in Said : End(o, said)
  <2>1. prep' = [prep EXCEPT ![o] = NoCommand] /\ CommandsTyped'
    BY <1>1, <1>2, EndShape
  <2>2. QED
    BY <2>1, NoCommandIsOne, CommandStays DEF Releases
<1>3. CASE \E pc \in Points \ {"analysing", "finalize"} :
              Proceed(o, pc) /\ (pc \in Releases => prep[o].pc \in Releases)
  <2>1. PICK pc \in Points \ {"analysing", "finalize"} :
              Proceed(o, pc) /\ (pc \in Releases => prep[o].pc \in Releases)
    BY <1>3
  <2> DEFINE r == [prep[o] EXCEPT !.pc = pc]
  <2>2. r \in Command /\ prep' = [prep EXCEPT ![o] = r] /\ CommandsTyped'
    BY <1>1, <2>1, ProceedShape
  <2>3. r.pc = pc /\ r.seen = prep[o].seen /\ r.at = prep[o].at /\ r.todo = prep[o].todo
    BY <1>1, <2>2, TheCommand DEF Command
  <2>4. pc \in Releases => \E d \in Drops : r.todo = {d}
    BY <2>1, <2>3 DEF DataInv, Typed, DropsAreNamed, Releases
  <2> HIDE DEF r
  <2>5. QED
    BY <2>1, <2>2, <2>3, <2>4, CommandStays
<1>4. QED
  BY <1>2, <1>3

LEMMA BucketStays ==
    ASSUME BucketTyped, UNCHANGED <<local, bucket, web>> PROVE BucketTyped'
BY DEF BucketTyped, bucket

LEMMA OthersIntakes == DataInv => \A i \in intakes : i.drop = "other" => i.version = 1
BY DEF DataInv, OthersAreOfOne

LEMMA BeginCommandData ==
    ASSUME DataInv, NEW o \in Operators, Prepare(o) \/ Check(o) \/ Release(o)
    PROVE  DataInv'
<1>1. PICK cmd \in {"prepare", "check", "release", "redrop"}, todo \in SUBSET Fixtures,
           pc \in {"identities", "guard"} :
           /\ BeginCommand(o, cmd, todo, pc) /\ (pc = "guard" => \E d \in Drops : todo = {d})
  BY DEF Prepare, Check, Release, Fixtures
<1>2. CommandsTyped /\ BucketTyped /\ local \in Nat
  BY DEF DataInv, Typed, BucketTyped
<1> DEFINE r == [NoCommand EXCEPT !.cmd = cmd, !.pc = pc, !.version = local, !.todo = todo]
<1>3. /\ r \in Command /\ r.pc = pc /\ r.todo = todo /\ r.seen = {} /\ r.at = 0
  BY <1>2, NoCommandIsOne DEF Command, Points, NoCommand
<1>4. /\ prep' = [prep EXCEPT ![o] = r] /\ receipt' = [receipt EXCEPT ![o] = "none"]
      /\ UNCHANGED <<local, bucket, database, analyses, web, counts>>
  BY <1>1 DEF BeginCommand
<1>5. UNCHANGED dataVars /\ intakes' = intakes
  BY <1>4 DEF dataVars, database, bucket
<1> HIDE DEF r
<1>6. CommandsTyped'
  BY <1>2, <1>3, <1>4, OneCommand, WhatIsSaid DEF CommandsTyped
<1>7. BucketTyped'
  BY <1>2, <1>4, BucketStays
<1>8. QED
  BY <1>1, <1>3, <1>4, <1>5, <1>6, <1>7, CommandStays, OthersIntakes DEF Releases

LEMMA SimpleStepData ==
    ASSUME DataInv, NEW o \in Operators,
           VerifyIdentities(o) \/ ResetCollides(o) \/ CheckRuns(o) \/ ReleaseGuard(o) \/ ReleaseGet(o)
           \/ CommandFails(o)
    PROVE  DataInv'
<1>1. BucketTyped /\ UNCHANGED <<local, bucket, database, analyses, counts, web>>
  BY DEF DataInv, Typed, VerifyIdentities, ResetCollides, CheckRuns, ReleaseGuard, ReleaseGet,
         CommandFails, IdentitiesKept
<1>2. BucketTyped' /\ intakes' = intakes /\ UNCHANGED <<web, dataVars>>
  BY <1>1, BucketStays DEF dataVars, database, bucket
<1>3. \/ \E said \in Said : End(o, said)
      \/ \E pc \in Points \ {"analysing", "finalize"} :
            Proceed(o, pc) /\ (pc \in Releases => prep[o].pc \in Releases)
  <2>1. CASE VerifyIdentities(o)
    <3>1. End(o, "error") \/ \E pc \in {"stage", "drops"} : Proceed(o, pc)
      BY <2>1 DEF VerifyIdentities
    <3>2. \A pc \in {"stage", "drops"} : pc \in Points \ {"analysing", "finalize"} /\ pc \notin Releases
      BY DEF Points, Releases
    <3>3. QED
      BY <3>1, <3>2, WhatIsSaid
  <2>2. CASE ResetCollides(o) \/ CommandFails(o)
    BY <2>2, WhatIsSaid DEF ResetCollides, CommandFails
  <2>3. CASE CheckRuns(o)
    BY <2>3, Zenon DEF CheckRuns, Said
  <2>4. CASE ReleaseGuard(o)
    BY <2>4, WhatIsSaid DEF ReleaseGuard, Points, Releases, At
  <2>5. CASE ReleaseGet(o)
    BY <2>5, WhatIsSaid DEF ReleaseGet, Points, Releases, At
  <2>6. QED
    BY <2>1, <2>2, <2>3, <2>4, <2>5
<1>4. QED
  BY <1>2, <1>3, GoesOn, OthersIntakes

LEMMA StageData ==
    ASSUME DataInv, NEW o \in Operators, Stage(o)
    PROVE  DataInv'
<1>1. CommandsTyped /\ BucketTyped /\ prep[o] \in Command
  BY TheCommand DEF DataInv, Typed
<1>2. PICK f \in Fixtures :
        /\ staged' = [staged EXCEPT ![f] = [body |-> local, hash |-> prep[o].version]]
        /\ prep' = [prep EXCEPT ![o] = [prep[o] EXCEPT !.todo = prep[o].todo \ {f},
                                            !.pc = IF prep[o].todo = {f} THEN "clear" ELSE "stage"]]
  <2>1. prep[o].todo \subseteq Fixtures
    BY <1>1, TheCommand
  <2>2. QED
    BY <1>1, <2>1, Zenon DEF Stage, CommandsTyped
<1> DEFINE r == [prep[o] EXCEPT !.todo = prep[o].todo \ {f},
                                !.pc = IF prep[o].todo = {f} THEN "clear" ELSE "stage"]
<1>3. /\ r \in Command /\ r.pc \in {"clear", "stage"} /\ r.seen = prep[o].seen /\ r.at = prep[o].at
  BY <1>1 DEF Command, Points
<1>4. UNCHANGED <<live, intakes, local, web, dataVars, receipt>>
  BY DEF Stage, IdentitiesKept, dataVars, database
<1>5. prep' = [prep EXCEPT ![o] = r]
  BY <1>2
<1> HIDE DEF r
<1>6. CommandsTyped'
  BY <1>1, <1>3, <1>4, <1>5, OneCommand DEF CommandsTyped
<1>7. BucketTyped'
  BY <1>1, <1>2, <1>4, TheCommand DEF BucketTyped
<1>8. QED
  BY <1>3, <1>4, <1>5, <1>6, <1>7, CommandStays, OthersIntakes DEF Releases

LEMMA ClearDropsData ==
    ASSUME DataInv, NEW o \in Operators, ClearDrops(o) \/ Migrate(o)
    PROVE  DataInv'
<1>1. BucketTyped /\ UNCHANGED <<local, staged, intakes, dataVars, web>>
  BY DEF DataInv, Typed, ClearDrops, Migrate, IdentitiesKept, dataVars, database, bucket
<1>2. live' \in [Drops -> Nat]
  <2>1. CASE ClearDrops(o)
    <3>1. PICK deleted \in SUBSET Drops : live' = [d \in Drops |-> IF d \in deleted THEN 0 ELSE live[d]]
      BY <2>1 DEF ClearDrops
    <3>2. QED
      BY <1>1, <3>1 DEF BucketTyped
  <2>2. CASE Migrate(o)
    BY <1>1, <2>2 DEF Migrate, BucketTyped, bucket
  <2>3. QED
    BY <2>1, <2>2
<1>3. BucketTyped'
  BY <1>1, <1>2 DEF BucketTyped
<1>4. \E pc \in {"drops", "reset"} : Proceed(o, pc)
  BY DEF ClearDrops, Migrate
<1>5. QED
  BY <1>1, <1>3, <1>4, GoesOn, OthersIntakes DEF Points, Releases

LEMMA CheckDropsData ==
    ASSUME DataInv, NEW o \in Operators, CheckDrops(o) \/ CheckRows(o)
    PROVE  DataInv'
<1>1. CommandsTyped /\ BucketTyped /\ prep[o] \in Command
  BY TheCommand DEF DataInv, Typed
<1>2. UNCHANGED <<local, bucket, web, dataVars>>
  BY DEF CheckDrops, CheckRows, IdentitiesKept, dataVars, database
<1>3. BucketTyped' /\ intakes' = intakes
  BY <1>1, <1>2, BucketStays DEF bucket
<1>4. CASE \E pc \in {"migrate"} : Proceed(o, pc)
  BY <1>2, <1>3, <1>4, GoesOn, OthersIntakes DEF Points, Releases
<1>5. CASE End(o, "error")
  BY <1>2, <1>3, <1>5, GoesOn, OthersIntakes, WhatIsSaid
<1>6. CASE \E pc \in {"preflight", "runs"}, good \in BOOLEAN :
              prep' = [prep EXCEPT ![o] = [prep[o] EXCEPT !.pc = pc, !.good = good]]
           /\ receipt' = receipt
  <2>1. PICK pc \in {"preflight", "runs"}, good \in BOOLEAN :
              prep' = [prep EXCEPT ![o] = [prep[o] EXCEPT !.pc = pc, !.good = good]]
           /\ receipt' = receipt
    BY <1>6
  <2> DEFINE r == [prep[o] EXCEPT !.pc = pc, !.good = good]
  <2>2. r \in Command /\ r.pc = pc /\ r.seen = prep[o].seen /\ r.at = prep[o].at
    BY <1>1 DEF Command, Points
  <2>3. prep' = [prep EXCEPT ![o] = r]
    BY <2>1
  <2> HIDE DEF r
  <2>4. CommandsTyped'
    BY <1>1, <2>1, <2>2, <2>3, OneCommand DEF CommandsTyped
  <2>5. QED
    BY <1>2, <1>3, <2>1, <2>2, <2>3, <2>4, CommandStays, OthersIntakes DEF Releases
<1>7. CASE CheckDrops(o)
  <2>1. CASE prep[o].cmd = "check"
    <3> DEFINE good == \A d \in Drops : live[d] = 0
    <3>1. prep' = [prep EXCEPT ![o].pc = "preflight", ![o].good = good] /\ receipt' = receipt
      BY <1>7, <2>1 DEF CheckDrops
    <3>2. good \in BOOLEAN
      OBVIOUS
    <3> HIDE DEF good
    <3>3. prep' = [prep EXCEPT ![o] = [prep[o] EXCEPT !.pc = "preflight", !.good = good]]
      BY <1>1, <3>1 DEF CommandsTyped
    <3>4. QED
      BY <1>6, <3>1, <3>2, <3>3
  <2>2. CASE prep[o].cmd # "check"
    BY <1>4, <1>5, <1>7, <2>2 DEF CheckDrops
  <2>3. QED
    BY <2>1, <2>2
<1>8. CASE CheckRows(o)
  <2> DEFINE good == prep[o].good /\ RowsArePristine(prep[o].loaded)
  <2>1. prep' = [prep EXCEPT ![o].good = good, ![o].pc = "runs"] /\ receipt' = receipt
    BY <1>8 DEF CheckRows
  <2>2. good \in BOOLEAN
    OBVIOUS
  <2> HIDE DEF good
  <2>3. prep' = [prep EXCEPT ![o] = [prep[o] EXCEPT !.pc = "runs", !.good = good]]
    BY <1>1, <2>1 DEF CommandsTyped, Command
  <2>4. QED
    BY <1>6, <2>1, <2>2, <2>3
<1>9. QED
  BY <1>7, <1>8

LEMMA LoadStagedData ==
    ASSUME DataInv, NEW o \in Operators, LoadStaged(o)
    PROVE  DataInv'
<1>1. CommandsTyped /\ BucketTyped /\ prep[o] \in Command
  BY TheCommand DEF DataInv, Typed
<1>2. UNCHANGED <<local, bucket, web, dataVars>>
  BY DEF LoadStaged, IdentitiesKept, dataVars, database
<1>3. BucketTyped' /\ intakes' = intakes
  BY <1>1, <1>2, BucketStays DEF bucket
<1>4. CASE End(o, "error")
  BY <1>2, <1>3, <1>4, GoesOn, OthersIntakes, WhatIsSaid
<1>5. CASE ~End(o, "error")
  <2> DEFINE now == [f \in Fixtures |-> staged[f].body]
             pc  == IF prep[o].pc = "reset" THEN "begin" ELSE "rows"
             r   == [prep[o] EXCEPT !.loaded = now, !.pc = pc]
  <2>1. prep' = [prep EXCEPT ![o].loaded = now,
                             ![o].pc = IF @ = "reset" THEN "begin" ELSE "rows"]
        /\ receipt' = receipt
    BY <1>5 DEF LoadStaged
  <2>2. now \in [Fixtures -> Nat] /\ pc \in {"begin", "rows"}
    BY <1>1 DEF BucketTyped
  <2>3. prep' = [prep EXCEPT ![o] = r]
    BY <1>1, <2>1 DEF CommandsTyped, Command
  <2> HIDE DEF now, pc
  <2>4. r \in Command /\ r.pc = pc /\ r.seen = prep[o].seen /\ r.at = prep[o].at
    BY <1>1, <2>2 DEF Command, Points
  <2> HIDE DEF r
  <2>5. CommandsTyped'
    BY <1>1, <2>1, <2>3, <2>4, OneCommand DEF CommandsTyped
  <2>6. QED
    BY <1>2, <1>3, <2>2, <2>3, <2>4, <2>5, CommandStays, OthersIntakes DEF Releases
<1>6. QED
  BY <1>4, <1>5

LEMMA DeleteAnalyticsData ==
    ASSUME DataInv, NEW o \in Operators, DeleteAnalytics(o)
    PROVE  DataInv'
<1>1. CommandsTyped /\ BucketTyped /\ DataTyped /\ prep[o] \in Command
  BY TheCommand DEF DataInv, Typed
<1>2. UNCHANGED <<local, bucket, web, dataVars, receipt>>
  BY DEF DeleteAnalytics, IdentitiesKept, dataVars, database
<1>3. BucketTyped' /\ intakes' = intakes
  BY <1>1, <1>2, BucketStays DEF bucket
<1> DEFINE gone == {l \in links : l.row \in Demo(grants) \/ l.run \in prep[o].seen}
           flat == flags \cap Demo(grants)
           r == [prep[o] EXCEPT !.pc = "load", !.links = gone, !.flags = flat]
<1>4. prep' = [prep EXCEPT ![o] = r]
  BY <1>1, Zenon DEF DeleteAnalytics, CommandsTyped
<1>5. gone \subseteq Links /\ flat \subseteq Rows
  BY <1>1 DEF DataTyped
<1> HIDE DEF gone, flat
<1>6. r \in Command /\ r.pc = "load" /\ r.seen = prep[o].seen /\ r.at = prep[o].at
  BY <1>1, <1>5 DEF Command, Points
<1> HIDE DEF r
<1>7. CommandsTyped'
  BY <1>1, <1>2, <1>4, <1>6, OneCommand DEF CommandsTyped
<1>8. QED
  BY <1>2, <1>3, <1>4, <1>6, <1>7, CommandStays, OthersIntakes DEF Releases

\* A drop is put under its key, by a command or through the API.
LEMMA PutShape ==
    ASSUME BucketTyped, NEW d \in Drops, NEW version \in Nat, Put(d, version)
    PROVE  /\ live' \in [Drops -> Nat]
           /\ intakes' \subseteq [drop : Drops \cup {"other"}, version : Nat]
           /\ \A i \in intakes' : i \in intakes \/ i.drop \in Drops
<1>1. [drop |-> d, version |-> 0] \in [drop : Drops \cup {"other"}, version : Nat]
  OBVIOUS
<1>2. QED
  BY <1>1 DEF BucketTyped, Put

LEMMA ReleasePutData ==
    ASSUME DataInv, NEW o \in Operators, ReleasePut(o)
    PROVE  DataInv'
<1>1. CommandsTyped /\ BucketTyped /\ prep[o] \in Command
  BY TheCommand DEF DataInv, Typed
<1>2. UNCHANGED <<local, staged, web, dataVars>>
  BY DEF ReleasePut, IdentitiesKept, dataVars, database
<1>3. DropOf(o) \in Drops /\ prep[o].version \in Nat
  BY <1>1, TheCommand DEF DropOf, ReleasePut, At, DataInv, Typed, DropsAreNamed
<1>4. BucketTyped' /\ \A i \in intakes' : i \in intakes \/ i.drop \in Drops
  <2>1. CASE Put(DropOf(o), prep[o].version)
    BY <1>1, <1>2, <1>3, <2>1, PutShape DEF BucketTyped
  <2>2. CASE UNCHANGED <<live, intakes>>
    BY <1>1, <1>2, <2>2 DEF BucketTyped
  <2>3. QED
    BY <2>1, <2>2 DEF ReleasePut
<1>5. \A i \in intakes' : i.drop = "other" => i.version = 1
  BY <1>4, OthersIntakes, PreparationAssumption
<1>6. End(o, "released") \/ End(o, "error")
  BY DEF ReleasePut
<1>7. QED
  BY <1>2, <1>4, <1>5, <1>6, GoesOn, WhatIsSaid

-----------------------------------------------------------------------------
(* The data: the reset and the load.                                       *)

LEMMA BeginResetData ==
    ASSUME DataInv, NEW o \in Operators, BeginReset(o)
    PROVE  DataInv'
<1>1. CommandsTyped /\ BucketTyped /\ DataTyped /\ DropsAreNamed /\ prep[o] \in Command
  BY TheCommand DEF DataInv, Typed
<1>2. UNCHANGED <<local, bucket, web, grants, approvals, runs, links, flags, reseed, analyses>>
  BY DEF BeginReset, IdentitiesKept, database
<1>3. BucketTyped' /\ intakes' = intakes
  BY <1>1, <1>2, BucketStays DEF bucket
<1>4. /\ counts' \in [resets : Nat, loads : Nat, analyses : Nat]
      /\ counts'.resets = counts.resets + 1 /\ counts'.loads = counts.loads
      /\ counts'.analyses = counts.analyses /\ counts.resets \in Nat
  <2>1. counts' = [counts EXCEPT !.resets = @ + 1]
    BY DEF BeginReset
  <2>2. QED
    BY <1>1, <2>1 DEF DataTyped
<1>5. DataTyped'
  BY <1>1, <1>2, <1>4 DEF DataTyped
<1>6. PICK r \in Command : /\ prep' = [prep EXCEPT ![o] = r] /\ CommandsTyped'
                           /\ r.pc \in {"idle", "delete"} /\ r.at \in {0, counts'.resets}
                           /\ \A id \in r.seen : \E run \in runs : run.id = id /\ run.by \in DemoActors
  <2>1. CASE OnlyDemoState
    <3> DEFINE seen == {run.id : run \in {run \in runs : run.by \in DemoActors}}
               r == [prep[o] EXCEPT !.pc = "delete", !.at = counts'.resets, !.seen = seen]
    <3>1. seen \subseteq Nat /\ \A id \in seen : \E run \in runs : run.id = id /\ run.by \in DemoActors
      BY <1>1 DEF DataTyped, RunRecords
    <3>2. prep' = [prep EXCEPT ![o] = r] /\ receipt' = receipt
      BY <1>1, <2>1, Zenon DEF BeginReset, CommandsTyped
    <3> HIDE DEF seen
    <3>3. r \in Command /\ r.pc = "delete" /\ r.at = counts'.resets /\ r.seen = seen
      BY <1>1, <1>4, <3>1 DEF Command, Points
    <3> HIDE DEF r
    <3>4. CommandsTyped'
      BY <1>1, <3>2, <3>3, OneCommand DEF CommandsTyped
    <3>5. QED
      BY <3>1, <3>2, <3>3, <3>4
  <2>2. CASE ~OnlyDemoState
    <3>1. End(o, "error")
      BY <2>2 DEF BeginReset
    <3>2. prep' = [prep EXCEPT ![o] = NoCommand] /\ CommandsTyped'
      BY <1>1, <3>1, EndShape, WhatIsSaid
    <3>3. QED
      BY <3>2, NoCommandIsOne
  <2>3. QED
    BY <2>1, <2>2
<1>7. prep'[o] = r /\ \A p \in Operators \ {o} : prep'[p] = prep[p]
  BY <1>1, <1>6, OneCommand
<1>8. Typed'
  <2>1. DropsAreNamed'
    BY <1>1, <1>2, <1>6, <1>7 DEF DropsAreNamed
  <2>2. QED
    BY <1>3, <1>5, <1>6, <2>1 DEF Typed
<1>9. OthersAreOfOne' /\ RunsAreNumbered'
  BY <1>2, <1>3, <1>4 DEF DataInv, OthersAreOfOne, RunsAreNumbered
<1>10. BaselineIsLoaded'
  <2>1. InOrder' <=> InOrder
    BY <1>2, <1>4 DEF InOrder
  <2>2. reseed.at \in Nat /\ \A p \in Operators : prep[p].at \in Nat
    BY <1>1, TheCommand DEF DataTyped
  <2>3. \A p \in Operators : prep'[p].at <= counts'.resets
    BY <1>4, <1>6, <1>7, <2>2 DEF DataInv, BaselineIsLoaded
  <2>4. reseed'.at <= counts'.resets /\ reseed'.load <= counts'.loads
    BY <1>2, <1>4, <2>2 DEF DataInv, BaselineIsLoaded
  <2>5. QED
    BY <1>2, <1>4, <2>1, <2>3, <2>4 DEF DataInv, BaselineIsLoaded
<1>11. ASSUME NEW p \in Operators PROVE SeenAreOwned(p)' /\ AnalysisIsOwned(p)'
  <2>1. CASE p # o
    BY <1>2, <1>4, <1>7, <2>1 DEF DataInv, SeenAreOwned, AnalysisIsOwned
  <2>2. CASE p = o
    <3>1. AnalysisIsOwned(o)'
      BY <1>6, <1>7 DEF AnalysisIsOwned
    <3>2. ASSUME NEW id \in r.seen
          PROVE  /\ id <= counts.analyses
                 /\ \A run \in runs : run.id = id => run.by \in DemoActors
                 /\ \A a \in analyses : a.id # id
      <4>1. PICK run \in runs : run.id = id /\ run.by \in DemoActors
        BY <1>6
      <4>2. QED
        BY <4>1 DEF DataInv, RunsAreNumbered
    <3>3. QED
      BY <1>2, <1>4, <1>7, <2>2, <3>1, <3>2 DEF SeenAreOwned
  <2>3. QED
    BY <2>1, <2>2
<1>12. QED
  BY <1>8, <1>9, <1>10, <1>11 DEF DataInv

\* What of the rows is not of the demonstration the load leaves alone.
LEMMA NotOwned ==
    ASSUME DataTyped
    PROVE  /\ \A g \in grants : Owned(g) <=> g.batch \in DemoBatches
           /\ \A a \in approvals : Owned(a) => a.by \in DemoActors
<1>1. ASSUME NEW g \in grants PROVE Owned(g) <=> g.batch \in DemoBatches
  <2>1. g \in Rows
    BY DEF DataTyped
  <2>2. "batch" \in DOMAIN g
    BY <2>1 DEF Rows
  <2>3. QED
    BY <2>2 DEF Owned
<1>2. ASSUME NEW a \in approvals PROVE Owned(a) => a.by \in DemoActors
  <2>1. DOMAIN a = {"by", "subject"}
    BY DEF DataTyped
  <2>2. QED
    BY <2>1 DEF Owned
<1>3. QED
  BY <1>1, <1>2

LEMMA LoadBaselineData ==
    ASSUME DataInv, NEW o \in Operators, LoadBaseline(o)
    PROVE  DataInv'
<1>1. CommandsTyped /\ BucketTyped /\ DataTyped /\ DropsAreNamed /\ prep[o] \in Command
  BY TheCommand DEF DataInv, Typed
<1> DEFINE load == counts.loads + 1
           row  == [batch |-> Baseline, load |-> load, version |-> prep[o].loaded[Baseline]]
<1>2. /\ counts' = [counts EXCEPT !.loads = load]
      /\ grants' = {g \in grants : ~Owned(g)} \cup {row}
      /\ reseed' = IF prep[o].at > reseed.at
                   THEN [at |-> prep[o].at, load |-> load, versions |-> prep[o].loaded]
                   ELSE reseed
      /\ approvals' = {a \in approvals : ~Owned(a)}
      /\ runs' = {run \in runs : run.id \notin prep[o].seen}
      /\ links' = links \ prep[o].links /\ flags' = flags \ prep[o].flags
      /\ Proceed(o, "analyse")
      /\ UNCHANGED <<local, bucket, web, analyses>>
  BY DEF LoadBaseline, IdentitiesKept
<1>3. BucketTyped' /\ intakes' = intakes
  BY <1>1, <1>2, BucketStays DEF bucket
<1>4. /\ counts' \in [resets : Nat, loads : Nat, analyses : Nat]
      /\ counts'.resets = counts.resets /\ counts'.loads = load
      /\ counts'.analyses = counts.analyses /\ counts.loads \in Nat /\ load \in Nat
  BY <1>1, <1>2 DEF DataTyped
<1> HIDE DEF load
<1>5. row \in Rows /\ prep[o].loaded \in [Fixtures -> Nat] /\ prep[o].at \in Nat
  <2>1. prep[o].loaded \in [Fixtures -> Nat] /\ Baseline \in Fixtures /\ prep[o].at \in Nat
    BY <1>1, TheCommand DEF Fixtures
  <2>2. QED
    BY <1>4, <2>1 DEF Rows, Batches, DemoBatches
<1>6. DataTyped'
  <2>1. grants' \subseteq Rows /\ approvals' \subseteq approvals /\ links' \subseteq links
        /\ flags' \subseteq flags /\ runs' \subseteq runs
    BY <1>1, <1>2, <1>5 DEF DataTyped
  <2>2. IsFiniteSet(runs')
    BY <1>1, <2>1, FS_Subset DEF DataTyped
  <2>3. reseed' \in [at : Nat, load : Nat, versions : [Fixtures -> Nat]]
    BY <1>1, <1>2, <1>4, <1>5 DEF DataTyped
  <2>4. analyses' = analyses
    BY <1>2
  <2>5. QED
    BY <1>1, <1>4, <2>1, <2>2, <2>3, <2>4 DEF DataTyped
<1> DEFINE r == [prep[o] EXCEPT !.pc = "analyse"]
<1>7. r \in Command /\ prep' = [prep EXCEPT ![o] = r] /\ CommandsTyped'
  BY <1>1, <1>2, ProceedShape DEF Points
<1>8. /\ r.pc = "analyse" /\ r.seen = prep[o].seen /\ r.at = prep[o].at
  BY <1>1 DEF Command
<1> HIDE DEF r
<1>9. prep'[o] = r /\ \A p \in Operators \ {o} : prep'[p] = prep[p]
  BY <1>1, <1>7, OneCommand
<1>10. Typed'
  <2>1. DropsAreNamed'
    BY <1>1, <1>2, <1>8, <1>9 DEF DropsAreNamed
  <2>2. QED
    BY <1>3, <1>6, <1>7, <2>1 DEF Typed
<1>11. OthersAreOfOne' /\ RunsAreNumbered'
  <2>1. \A g \in grants' : g \in grants \/ g.batch = Baseline
    BY <1>2
  <2>2. Baseline # "other"
    BY PreparationAssumption
  <2>3. OthersAreOfOne'
    BY <1>3, <2>1, <2>2 DEF DataInv, OthersAreOfOne
  <2>4. RunsAreNumbered'
    BY <1>2, <1>4 DEF DataInv, RunsAreNumbered
  <2>5. QED
    BY <2>3, <2>4
<1>12. BaselineIsLoaded'
  <2>1. reseed.at \in Nat /\ reseed.load \in Nat /\ counts.resets \in Nat
    BY <1>1 DEF DataTyped
  <2>2. \A p \in Operators : prep'[p].at <= counts'.resets
    BY <1>4, <1>8, <1>9 DEF DataInv, BaselineIsLoaded
  <2>3. prep[o].at <= counts.resets /\ reseed.at <= counts.resets /\ reseed.load <= counts.loads
    BY DEF DataInv, BaselineIsLoaded
  <2>4. load = counts.loads + 1
    BY DEF load
  <2>5. reseed'.load <= counts'.loads /\ reseed'.at <= counts'.resets
    BY <1>2, <1>4, <2>1, <2>3, <2>4
  <2>6. ASSUME NEW g \in grants', g.batch = Baseline
        PROVE  g.load = counts'.loads /\ (InOrder' => g.version = reseed'.versions[Baseline])
    <3>1. g = row
      <4>1. \A x \in grants : ~Owned(x) => x.batch # Baseline
        BY <1>1, NotOwned DEF DemoBatches, Fixtures
      <4>2. QED
        BY <1>2, <2>6, <4>1
    <3>2. InOrder' => prep[o].at > reseed.at
      BY <1>2, <1>4, <2>1, <2>3, <2>4 DEF InOrder
    <3>3. prep[o].at > reseed.at => reseed'.versions = prep[o].loaded
      BY <1>2
    <3>4. QED
      BY <1>4, <3>1, <3>2, <3>3
  <2>7. QED
    BY <2>2, <2>5, <2>6 DEF BaselineIsLoaded
<1>13. ASSUME NEW p \in Operators PROVE SeenAreOwned(p)' /\ AnalysisIsOwned(p)'
  <2>1. prep'[p].seen = prep[p].seen
    BY <1>8, <1>9
  <2>2. prep'[p].pc \in {"analysing", "finalize"} =>
            prep'[p] = prep[p]
    BY <1>8, <1>9
  <2>3. runs' \subseteq runs /\ analyses' = analyses /\ counts'.analyses = counts.analyses
    BY <1>2, <1>4
  <2>4. SeenAreOwned(p)'
    BY <2>1, <2>3 DEF DataInv, SeenAreOwned
  <2>5. AnalysisIsOwned(p)'
    BY <2>2, <2>3 DEF DataInv, AnalysisIsOwned
  <2>6. QED
    BY <2>4, <2>5
<1>14. QED
  BY <1>10, <1>11, <1>12, <1>13 DEF DataInv

-----------------------------------------------------------------------------
(* The data: the analyses.                                                 *)

\* What a step asks of the commands, when it changes the runs.
CommandsStay ==
    \A o \in Operators :
        /\ prep'[o].seen \subseteq prep[o].seen /\ prep'[o].at \in {0, prep[o].at}
        /\ prep'[o].pc \in {"analysing", "finalize"} =>
              prep[o].pc \in {"analysing", "finalize"} /\ prep'[o].analysis = prep[o].analysis

LEMMA SameCommandsStay ==
    ASSUME prep' = prep PROVE CommandsStay
BY DEF CommandsStay

\* The command of an operator goes on or ends with an analysis.
LEMMA MoveStays ==
    ASSUME CommandsTyped, DropsAreNamed, NEW o \in Operators, web' = web,
           \/ \E said \in Said : End(o, said)
           \/ \E pc \in {"finalize", "preflight"} :
                  Proceed(o, pc) /\ (pc = "finalize" => prep[o].pc = "analysing")
    PROVE  CommandsTyped' /\ DropsAreNamed' /\ CommandsStay
<1>1. CASE \E said \in Said : End(o, said)
  <2>1. prep' = [prep EXCEPT ![o] = NoCommand] /\ CommandsTyped'
    BY <1>1, EndShape
  <2>2. prep'[o] = NoCommand /\ \A p \in Operators \ {o} : prep'[p] = prep[p]
    BY <2>1, NoCommandIsOne, OneCommand
  <2>3. CommandsStay
    BY <2>2, NoCommandIsOne DEF CommandsStay
  <2>4. DropsAreNamed'
    BY <2>2, NoCommandIsOne DEF DropsAreNamed
  <2>5. QED
    BY <2>1, <2>3, <2>4
<1>2. CASE \E pc \in {"finalize", "preflight"} :
                  Proceed(o, pc) /\ (pc = "finalize" => prep[o].pc = "analysing")
  <2>1. PICK pc \in {"finalize", "preflight"} :
                  Proceed(o, pc) /\ (pc = "finalize" => prep[o].pc = "analysing")
    BY <1>2
  <2> DEFINE r == [prep[o] EXCEPT !.pc = pc]
  <2>2. r \in Command /\ prep' = [prep EXCEPT ![o] = r] /\ CommandsTyped'
    BY <2>1, ProceedShape DEF Points
  <2>3. r.pc = pc /\ r.seen = prep[o].seen /\ r.at = prep[o].at /\ r.analysis = prep[o].analysis
    BY TheCommand DEF Command
  <2> HIDE DEF r
  <2>4. prep'[o] = r /\ \A p \in Operators \ {o} : prep'[p] = prep[p]
    BY <2>2, OneCommand
  <2>5. CommandsStay
    BY <2>1, <2>3, <2>4 DEF CommandsStay
  <2>6. DropsAreNamed'
    BY <2>1, <2>3, <2>4 DEF DropsAreNamed
  <2>7. QED
    BY <2>2, <2>5, <2>6
<1>3. QED
  BY <1>1, <1>2

LEMMA CommitAnalysisData ==
    ASSUME DataInv, NEW a \in analyses, CommitAnalysis(a),
           CommandsTyped', DropsAreNamed', CommandsStay
    PROVE  DataInv'
<1>1. BucketTyped /\ DataTyped
  BY DEF DataInv, Typed
<1> DEFINE run == [id |-> a.id, by |-> a.by, exact |-> Exact(a.rows), tagged |-> FALSE]
<1>2. /\ analyses' = analyses \ {a} /\ runs' = runs \cup {run}
      /\ links' = links \cup [run : {a.id}, row : a.rows] /\ flags' = flags \cup a.amounts
      /\ UNCHANGED <<local, bucket, web, grants, approvals, reseed, counts>>
  BY DEF CommitAnalysis, IdentitiesKept
<1>3. a.id \in Nat /\ a.by \in Who \cup {"preparer"} /\ a.rows \subseteq Rows /\ a.amounts \subseteq Rows
  BY <1>1 DEF DataTyped, AnalysisRecords
<1>4. run \in RunRecords /\ run.id = a.id /\ run.by = a.by
  BY <1>3 DEF RunRecords, Exact
<1> HIDE DEF run
<1>5. DataTyped'
  <2>1. runs' \subseteq RunRecords /\ IsFiniteSet(runs')
    BY <1>1, <1>2, <1>4, FS_AddElement DEF DataTyped
  <2>2. links' \subseteq Links /\ flags' \subseteq Rows
    BY <1>1, <1>2, <1>3 DEF DataTyped, Links
  <2>3. QED
    BY <1>1, <1>2, <2>1, <2>2 DEF DataTyped
<1>6. BucketTyped' /\ intakes' = intakes
  BY <1>1, <1>2, BucketStays DEF bucket
<1>7. OthersAreOfOne'
  BY <1>2, <1>6 DEF DataInv, OthersAreOfOne
<1>8. RunsAreNumbered'
  <2>1. /\ a.id <= counts.analyses /\ \A other \in runs : other.id # a.id
        /\ \A b \in analyses \ {a} : b.id # a.id
    BY DEF DataInv, RunsAreNumbered
  <2>2. QED
    BY <1>2, <1>4, <2>1 DEF DataInv, RunsAreNumbered
<1>9. BaselineIsLoaded'
  <2>1. counts.resets \in Nat /\ (InOrder' <=> InOrder)
    BY <1>1, <1>2 DEF DataTyped, InOrder
  <2>2. \A o \in Operators : prep'[o].at <= counts.resets
    BY <2>1 DEF CommandsStay, DataInv, BaselineIsLoaded
  <2>3. QED
    BY <1>2, <2>1, <2>2 DEF DataInv, BaselineIsLoaded
<1>10. ASSUME NEW o \in Operators PROVE SeenAreOwned(o)' /\ AnalysisIsOwned(o)'
  <2>1. SeenAreOwned(o)'
    <3>1. ASSUME NEW id \in prep'[o].seen
          PROVE  /\ id <= counts.analyses
                 /\ \A other \in runs : other.id = id => other.by \in DemoActors
                 /\ \A b \in analyses : b.id # id
      BY DEF CommandsStay, DataInv, SeenAreOwned
    <3>2. QED
      BY <1>2, <1>4, <3>1 DEF SeenAreOwned
  <2>2. AnalysisIsOwned(o)'
    <3> SUFFICES ASSUME prep'[o].pc \in {"analysing", "finalize"}
                 PROVE  /\ prep'[o].analysis <= counts.analyses
                        /\ \A x \in runs' \cup analyses' : x.id = prep'[o].analysis => x.by = "preparer"
      BY <1>2 DEF AnalysisIsOwned
    <3>1. prep[o].pc \in {"analysing", "finalize"} /\ prep'[o].analysis = prep[o].analysis
      BY DEF CommandsStay
    <3>2. /\ prep[o].analysis <= counts.analyses
          /\ \A x \in runs \cup analyses : x.id = prep[o].analysis => x.by = "preparer"
      BY <3>1 DEF DataInv, AnalysisIsOwned
    <3>3. QED
      BY <1>2, <1>4, <3>1, <3>2
  <2>3. QED
    BY <2>1, <2>2
<1>11. QED
  BY <1>5, <1>6, <1>7, <1>8, <1>9, <1>10 DEF DataInv, Typed

\* An analysis that reads the amounts is still the one that it was.
LEMMA ReadAmountsData ==
    ASSUME DataInv, NEW a \in analyses, ReadAmounts(a)
    PROVE  DataInv'
<1>1. BucketTyped /\ DataTyped /\ a \in AnalysisRecords
  BY DEF DataInv, Typed, DataTyped
<1> DEFINE b == [a EXCEPT !.pc = "write", !.amounts = grants]
<1>2. /\ analyses' = (analyses \ {a}) \cup {b}
      /\ UNCHANGED <<local, bucket, web, grants, approvals, runs, links, flags, reseed, counts, prep,
                     receipt>>
  BY DEF ReadAmounts, IdentitiesKept, database
<1>3. b \in AnalysisRecords /\ b.id = a.id /\ b.by = a.by
  BY <1>1 DEF AnalysisRecords, DataTyped
<1> HIDE DEF b
<1>4. DataTyped'
  BY <1>1, <1>2, <1>3 DEF DataTyped
<1>5. BucketTyped' /\ intakes' = intakes
  BY <1>1, <1>2, BucketStays DEF bucket
<1>6. CommandsTyped' /\ DropsAreNamed'
  BY <1>2 DEF DataInv, Typed, CommandsTyped, DropsAreNamed
<1>7. OthersAreOfOne' /\ BaselineIsLoaded'
  BY <1>2, <1>5 DEF DataInv, OthersAreOfOne, BaselineIsLoaded, InOrder
<1>8. RunsAreNumbered'
  BY <1>2, <1>3 DEF DataInv, RunsAreNumbered
<1>9. ASSUME NEW o \in Operators PROVE SeenAreOwned(o)' /\ AnalysisIsOwned(o)'
  BY <1>2, <1>3 DEF DataInv, SeenAreOwned, AnalysisIsOwned
<1>10. QED
  BY <1>4, <1>5, <1>6, <1>7, <1>8, <1>9 DEF DataInv, Typed

LEMMA FinishData ==
    ASSUME DataInv, (\E o \in Operators : ContinueAnalysis(o) \/ FinishAnalysis(o)) \/ OtherAnalysis
    PROVE  DataInv'
<1>1. CommandsTyped /\ DropsAreNamed
  BY DEF DataInv, Typed
<1>2. ASSUME NEW o \in Operators, FinishAnalysis(o) PROVE DataInv'
  <2>1. PICK a \in analyses : /\ Waits(o, a) /\ CommitAnalysis(a)
                              /\ IF Exact(a.rows) THEN Proceed(o, "finalize") ELSE End(o, "error")
    BY <1>2 DEF FinishAnalysis
  <2>2. prep[o].pc = "analysing" /\ web' = web
    BY <2>1 DEF Waits, At, CommitAnalysis, IdentitiesKept
  <2>3. CommandsTyped' /\ DropsAreNamed' /\ CommandsStay
    BY <1>1, <2>1, <2>2, MoveStays, WhatIsSaid
  <2>4. QED
    BY <2>1, <2>3, CommitAnalysisData
<1>3. ASSUME NEW a \in analyses, CommitAnalysis(a) /\ UNCHANGED <<prep, receipt>> PROVE DataInv'
  <2>1. CommandsTyped' /\ DropsAreNamed' /\ CommandsStay
    BY <1>1, <1>3, SameCommandsStay DEF CommandsTyped, DropsAreNamed, CommitAnalysis, IdentitiesKept
  <2>2. QED
    BY <1>3, <2>1, CommitAnalysisData
<1>4. QED
  BY <1>2, <1>3, ReadAmountsData DEF ContinueAnalysis, OtherAnalysis

\* A tag changes neither the number of a run nor whose it is.
LEMMA FinalizeData ==
    ASSUME DataInv, NEW o \in Operators, Finalize(o)
    PROVE  DataInv'
<1>1. CommandsTyped /\ DropsAreNamed /\ DataTyped /\ BucketTyped
  BY DEF DataInv, Typed
<1>2. UNCHANGED <<local, bucket, web, grants, approvals, links, flags, reseed, analyses, counts>>
  BY DEF Finalize, IdentitiesKept
<1>3. CommandsTyped' /\ DropsAreNamed' /\ CommandsStay
  <2>1. CASE Proceed(o, "preflight")
    BY <1>1, <1>2, <2>1, MoveStays
  <2>2. CASE End(o, "error")
    BY <1>1, <1>2, <2>2, MoveStays, WhatIsSaid
  <2>3. QED
    BY <2>1, <2>2 DEF Finalize
<1>4. /\ runs' \subseteq RunRecords /\ IsFiniteSet(runs')
      /\ \A run \in runs' : \E old \in runs : run.id = old.id /\ run.by = old.by
  <2>1. CASE runs' = runs
    BY <1>1, <2>1 DEF DataTyped
  <2>2. CASE \E run \in runs : runs' = (runs \ {run}) \cup {[run EXCEPT !.tagged = TRUE]}
    <3>1. PICK run \in runs : runs' = (runs \ {run}) \cup {[run EXCEPT !.tagged = TRUE]}
      BY <2>2
    <3>2. run \in RunRecords
      BY <1>1 DEF DataTyped
    <3> DEFINE new == [run EXCEPT !.tagged = TRUE]
    <3>3. new \in RunRecords /\ new.id = run.id /\ new.by = run.by
      BY <3>2 DEF RunRecords
    <3>4. runs' = (runs \ {run}) \cup {new}
      BY <3>1
    <3> HIDE DEF new
    <3>5. IsFiniteSet(runs')
      BY <1>1, <3>4, FS_RemoveElement, FS_AddElement DEF DataTyped
    <3>6. runs' \subseteq RunRecords
      BY <1>1, <3>3, <3>4 DEF DataTyped
    <3>7. QED
      BY <3>3, <3>4, <3>5, <3>6
  <2>3. QED
    BY <2>1, <2>2 DEF Finalize
<1>5. DataTyped' /\ BucketTyped'
  BY <1>1, <1>2, <1>4, BucketStays DEF DataTyped
<1>6. OthersAreOfOne'
  BY <1>2 DEF DataInv, OthersAreOfOne, bucket
<1>7. RunsAreNumbered'
  BY <1>2, <1>4 DEF DataInv, RunsAreNumbered
<1>8. BaselineIsLoaded'
  <2>1. counts.resets \in Nat /\ (InOrder' <=> InOrder)
    BY <1>1, <1>2 DEF DataTyped, InOrder
  <2>2. \A p \in Operators : prep'[p].at <= counts.resets
    BY <1>3, <2>1 DEF CommandsStay, DataInv, BaselineIsLoaded
  <2>3. QED
    BY <1>2, <2>1, <2>2 DEF DataInv, BaselineIsLoaded
<1>9. ASSUME NEW p \in Operators PROVE SeenAreOwned(p)' /\ AnalysisIsOwned(p)'
  <2>1. SeenAreOwned(p)'
    BY <1>2, <1>3, <1>4 DEF CommandsStay, DataInv, SeenAreOwned
  <2>2. AnalysisIsOwned(p)'
    BY <1>2, <1>3, <1>4 DEF CommandsStay, DataInv, AnalysisIsOwned
  <2>3. QED
    BY <2>1, <2>2
<1>10. QED
  BY <1>3, <1>5, <1>6, <1>7, <1>8, <1>9 DEF DataInv, Typed

\* A new analysis has a number that nothing had before.
LEMMA BeginAnalysisData ==
    ASSUME DataInv, NEW by \in Who \cup {"preparer"}, BeginAnalysis(by),
           UNCHANGED <<local, bucket, database, web>>, CommandsTyped', DropsAreNamed',
           \A o \in Operators :
              /\ prep'[o].seen \subseteq prep[o].seen /\ prep'[o].at \in {0, prep[o].at}
              /\ prep'[o].pc \in {"analysing", "finalize"} =>
                    \/ (prep[o].pc \in {"analysing", "finalize"} /\ prep'[o].analysis = prep[o].analysis)
                    \/ by = "preparer" /\ prep'[o].analysis = counts'.analyses
    PROVE  DataInv'
<1>1. BucketTyped /\ DataTyped /\ counts.analyses \in Nat
  BY DEF DataInv, Typed, DataTyped
<1> DEFINE n == counts.analyses + 1
           a == [id |-> n, by |-> by, pc |-> "amounts", rows |-> grants, amounts |-> {}]
<1>2. /\ counts' \in [resets : Nat, loads : Nat, analyses : Nat]
      /\ counts'.resets = counts.resets /\ counts'.loads = counts.loads /\ counts'.analyses = n
  <2>1. counts' = [counts EXCEPT !.analyses = @ + 1]
    BY DEF BeginAnalysis
  <2>2. QED
    BY <1>1, <2>1 DEF DataTyped
<1>3. /\ analyses' = analyses \cup {a}
      /\ UNCHANGED <<grants, approvals, runs, links, flags, reseed>>
  BY <1>2 DEF BeginAnalysis, database
<1>4. a.id = n /\ a.by = by /\ a \in AnalysisRecords
  BY <1>1 DEF DataTyped, AnalysisRecords
<1> HIDE DEF a
<1>5. DataTyped' /\ BucketTyped' /\ intakes' = intakes
  BY <1>1, <1>2, <1>3, <1>4, BucketStays DEF DataTyped, bucket
<1>6. OthersAreOfOne'
  BY <1>3, <1>5 DEF DataInv, OthersAreOfOne
<1>7. /\ \A b \in analyses : b.id \in Nat /\ b.id <= counts.analyses
      /\ \A run \in runs : run.id \in Nat /\ run.id <= counts.analyses
  BY <1>1 DEF DataInv, RunsAreNumbered, DataTyped, RunRecords, AnalysisRecords
<1>8. n = counts.analyses + 1
  OBVIOUS
<1> HIDE DEF n
<1>9. /\ \A b \in analyses : b.id # n /\ b.id <= n
      /\ \A run \in runs : run.id # n /\ run.id <= n
  BY <1>1, <1>7, <1>8
<1>10. RunsAreNumbered'
  <2>1. \A run \in runs' : run.id <= counts'.analyses
    BY <1>2, <1>3, <1>9
  <2>2. \A run, other \in runs' : run.id = other.id => run.by = other.by
    BY <1>3 DEF DataInv, RunsAreNumbered
  <2>3. \A b \in analyses' : b.id <= counts'.analyses /\ \A run \in runs' : run.id # b.id
    BY <1>1, <1>2, <1>3, <1>4, <1>8, <1>9 DEF DataInv, RunsAreNumbered
  <2>4. \A b, c \in analyses' : b.id = c.id => b = c
    BY <1>3, <1>4, <1>9 DEF DataInv, RunsAreNumbered
  <2>5. QED
    BY <2>1, <2>2, <2>3, <2>4 DEF RunsAreNumbered
<1>11. BaselineIsLoaded'
  <2>1. counts.resets \in Nat /\ (InOrder' <=> InOrder)
    BY <1>1, <1>2, <1>3 DEF DataTyped, InOrder
  <2>2. \A p \in Operators : prep'[p].at <= counts.resets
    BY <2>1 DEF DataInv, BaselineIsLoaded
  <2>3. QED
    BY <1>2, <1>3, <2>1, <2>2 DEF DataInv, BaselineIsLoaded
<1>12. ASSUME NEW o \in Operators PROVE SeenAreOwned(o)' /\ AnalysisIsOwned(o)'
  <2>1. SeenAreOwned(o)'
    <3>1. ASSUME NEW id \in prep'[o].seen
          PROVE  /\ id <= counts'.analyses
                 /\ \A run \in runs' : run.id = id => run.by \in DemoActors
                 /\ \A b \in analyses' : b.id # id
      <4>1. /\ id <= counts.analyses
            /\ \A run \in runs : run.id = id => run.by \in DemoActors
            /\ \A b \in analyses : b.id # id
        BY DEF DataInv, SeenAreOwned
      <4>2. id \in Nat
        BY TheCommand DEF DataInv, Typed
      <4>3. id <= n /\ id # n
        BY <1>1, <1>8, <4>1, <4>2
      <4>4. QED
        BY <1>2, <1>3, <1>4, <4>1, <4>3
    <3>2. QED
      BY <3>1 DEF SeenAreOwned
  <2>2. AnalysisIsOwned(o)'
    <3> SUFFICES ASSUME prep'[o].pc \in {"analysing", "finalize"}
                 PROVE  /\ prep'[o].analysis <= counts'.analyses
                        /\ \A x \in runs' \cup analyses' : x.id = prep'[o].analysis => x.by = "preparer"
      BY DEF AnalysisIsOwned
    <3>1. CASE prep[o].pc \in {"analysing", "finalize"} /\ prep'[o].analysis = prep[o].analysis
      <4>1. /\ prep[o].analysis <= counts.analyses
            /\ \A x \in runs \cup analyses : x.id = prep[o].analysis => x.by = "preparer"
        BY <3>1 DEF DataInv, AnalysisIsOwned
      <4>2. prep[o].analysis \in Nat
        BY TheCommand DEF DataInv, Typed
      <4>3. prep[o].analysis <= n /\ prep[o].analysis # n
        BY <1>1, <1>8, <4>1, <4>2
      <4>4. QED
        BY <1>2, <1>3, <1>4, <3>1, <4>1, <4>3
    <3>2. CASE by = "preparer" /\ prep'[o].analysis = counts'.analyses
      <4>1. n \in Nat
        BY <1>1, <1>8
      <4>2. QED
        BY <1>2, <1>3, <1>4, <1>9, <3>2, <4>1
    <3>3. QED
      BY <3>1, <3>2
  <2>3. QED
    BY <2>1, <2>2
<1>13. QED
  BY <1>5, <1>6, <1>10, <1>11, <1>12 DEF DataInv, Typed

LEMMA AnalyseData ==
    ASSUME DataInv, NEW o \in Operators, Analyse(o)
    PROVE  DataInv'
<1>1. CommandsTyped /\ DropsAreNamed /\ prep[o] \in Command
  BY TheCommand DEF DataInv, Typed
<1>2. /\ BeginAnalysis("preparer") /\ UNCHANGED <<local, bucket, database, web, receipt>>
  BY DEF Analyse, IdentitiesKept
<1>3. counts'.analyses \in Nat
  BY <1>2 DEF BeginAnalysis, DataInv, Typed, DataTyped
<1> DEFINE r == [prep[o] EXCEPT !.pc = "analysing", !.analysis = counts'.analyses]
<1>4. prep' = [prep EXCEPT ![o] = r]
  BY <1>1, Zenon DEF Analyse, CommandsTyped
<1>5. /\ r \in Command /\ r.pc = "analysing" /\ r.seen = prep[o].seen /\ r.at = prep[o].at
      /\ r.analysis = counts'.analyses
  BY <1>1, <1>3 DEF Command, Points
<1> HIDE DEF r
<1>6. prep'[o] = r /\ \A p \in Operators \ {o} : prep'[p] = prep[p]
  BY <1>1, <1>4, <1>5, OneCommand
<1>7. CommandsTyped'
  <2>1. prep' \in [Operators -> Command]
    BY <1>1, <1>4, <1>5, OneCommand
  <2>2. receipt' = receipt
    BY <1>2
  <2>3. QED
    BY <1>1, <2>1, <2>2, Zenon DEF CommandsTyped
<1>8. DropsAreNamed'
  BY <1>1, <1>2, <1>5, <1>6 DEF DropsAreNamed
<1>9. QED
  BY <1>2, <1>5, <1>6, <1>7, <1>8, BeginAnalysisData

-----------------------------------------------------------------------------
(* The data: what others than the operators do.                            *)

LEMMA UserAnalysesData ==
    ASSUME DataInv, NEW who \in Who, UserAnalyses(who)
    PROVE  DataInv'
<1>1. BeginAnalysis(who) /\ UNCHANGED <<local, bucket, database, web, prep, receipt>>
  BY DEF UserAnalyses, OperatorsKept
<1>2. CommandsTyped'
  BY <1>1, Zenon DEF DataInv, Typed, CommandsTyped
<1>3. DropsAreNamed'
  BY <1>1 DEF DataInv, Typed, DropsAreNamed
<1>4. QED
  BY <1>1, <1>2, <1>3, BeginAnalysisData

\* The operators' commands are left alone, and the data.
LEMMA QuietData ==
    ASSUME DataInv, BucketTyped', web'.pc # "idle" => web'.drop \in Drops,
           UNCHANGED <<prep, receipt, dataVars>>,
           \A i \in intakes' : i.drop = "other" => i.version = 1
    PROVE  DataInv'
<1>1. CommandsTyped'
  BY Zenon DEF DataInv, Typed, CommandsTyped
<1>2. DropsAreNamed'
  BY DEF DataInv, Typed, DropsAreNamed
<1>3. QED
  BY <1>1, <1>2, DataStays

LEMMA WebData ==
    ASSUME DataInv, WebRead \/ WebCompare \/ WebPut
    PROVE  DataInv'
<1>1. BucketTyped /\ web \in [pc : {"idle", "compare", "put"}, drop : Fixtures, body : Nat]
      /\ (web.pc # "idle" => web.drop \in Drops)
  BY DEF DataInv, Typed, BucketTyped, DropsAreNamed
<1>2. UNCHANGED <<local, staged, prep, receipt, dataVars>>
  BY DEF WebRead, WebCompare, WebPut, Act, OperatorsKept, dataVars, database, bucket
<1>3. NoRelease \in [pc : {"idle", "compare", "put"}, drop : Fixtures, body : Nat]
      /\ NoRelease.pc = "idle"
  BY DEF NoRelease, Fixtures
<1>4. CASE UNCHANGED <<live, intakes>> /\ web' \in [pc : {"idle", "compare", "put"}, drop : Fixtures, body : Nat]
           /\ (web'.pc # "idle" => web'.drop \in Drops)
  BY <1>1, <1>2, <1>4, QuietData, OthersIntakes DEF BucketTyped
<1>5. CASE WebRead
  <2>1. UNCHANGED <<live, intakes>>
    BY <1>5 DEF WebRead, bucket
  <2>2. \E d \in Drops : web' = [pc |-> "compare", drop |-> d, body |-> staged[d].body]
    BY <1>5 DEF WebRead
  <2>3. QED
    BY <1>1, <1>4, <2>1, <2>2 DEF BucketTyped, Fixtures
<1>6. CASE WebCompare
  <2>1. UNCHANGED <<live, intakes>> /\ web' \in {[web EXCEPT !.pc = "put"], NoRelease}
        /\ web.pc = "compare"
    BY <1>6 DEF WebCompare, bucket
  <2>2. QED
    BY <1>1, <1>3, <1>4, <2>1
<1>7. CASE WebPut
  <2>1. web' = NoRelease /\ web.drop \in Drops /\ web.body \in Nat
    BY <1>1, <1>7 DEF WebPut
  <2>2. CASE UNCHANGED <<live, intakes>>
    BY <1>3, <1>4, <2>1, <2>2
  <2>3. CASE Put(web.drop, web.body)
    <3>1. /\ live' \in [Drops -> Nat]
          /\ intakes' \subseteq [drop : Drops \cup {"other"}, version : Nat]
          /\ \A i \in intakes' : i \in intakes \/ i.drop \in Drops
      BY <1>1, <2>1, <2>3, PutShape
    <3>2. BucketTyped'
      BY <1>1, <1>2, <1>3, <2>1, <3>1 DEF BucketTyped
    <3>3. \A i \in intakes' : i.drop = "other" => i.version = 1
      BY <3>1, OthersIntakes, PreparationAssumption
    <3>4. QED
      BY <1>2, <1>3, <2>1, <3>2, <3>3, QuietData
  <2>4. QED
    BY <1>7, <2>2, <2>3 DEF WebPut
<1>8. QED
  BY <1>5, <1>6, <1>7

LEMMA IntakeReadsData ==
    ASSUME DataInv, NEW i \in intakes, IntakeReads(i)
    PROVE  DataInv'
<1>1. BucketTyped /\ i \in [drop : Drops \cup {"other"}, version : Nat] /\ i.drop \in Drops
  BY DEF DataInv, Typed, BucketTyped, IntakeReads
<1>2. UNCHANGED <<local, staged, live, web, prep, receipt, dataVars>>
  BY DEF IntakeReads, OperatorsKept, dataVars, database
<1> DEFINE j == [i EXCEPT !.version = live[i.drop]]
<1>3. j \in [drop : Drops \cup {"other"}, version : Nat] /\ j.drop = i.drop
  BY <1>1 DEF BucketTyped
<1>4. intakes' \subseteq intakes \cup {j}
  BY DEF IntakeReads
<1> HIDE DEF j
<1>5. BucketTyped'
  BY <1>1, <1>2, <1>3, <1>4 DEF BucketTyped
<1>6. \A k \in intakes' : k.drop = "other" => k.version = 1
  BY <1>1, <1>3, <1>4, OthersIntakes, PreparationAssumption
<1>7. web'.pc # "idle" => web'.drop \in Drops
  BY <1>2 DEF DataInv, Typed, DropsAreNamed
<1>8. QED
  BY <1>2, <1>5, <1>6, <1>7, QuietData

\* What an intake writes has the batch of its drop; a row that is there keeps its load.
LEMMA IntakeRows ==
    ASSUME DataInv, NEW i \in intakes, IntakeWrites(i)
    PROVE  /\ i.drop \in Batches \ {Baseline} /\ (i.drop = "other" => i.version = 1)
           /\ grants' \subseteq Rows
           /\ \A g \in grants' : g \in grants \/ (g.batch = i.drop /\ g.version = i.version)
           /\ \A g \in grants : g.batch # i.drop \/ g.version = i.version => g \in grants'
<1>1. /\ i \in [drop : Drops \cup {"other"}, version : Nat] /\ (i.drop = "other" => i.version = 1)
      /\ grants \subseteq Rows /\ counts.loads \in Nat
  BY OthersIntakes DEF DataInv, Typed, BucketTyped, DataTyped
<1>2. i.drop \in Batches \ {Baseline} /\ i.version \in Nat
  BY <1>1, PreparationAssumption DEF Batches, DemoBatches, Fixtures
<1> DEFINE old == {g \in grants : g.batch = i.drop}
           new == IF old = {}
                  THEN {[batch |-> i.drop, load |-> counts.loads, version |-> i.version]}
                  ELSE {[g EXCEPT !.version = i.version] : g \in old}
<1>3. UNCHANGED grants \/ grants' = (grants \ old) \cup new
  BY DEF IntakeWrites
<1>4. ASSUME NEW g \in old
      PROVE  /\ [g EXCEPT !.version = i.version] \in Rows
             /\ [g EXCEPT !.version = i.version].batch = i.drop
             /\ [g EXCEPT !.version = i.version].version = i.version
             /\ g.version = i.version => [g EXCEPT !.version = i.version] = g
  BY <1>1, <1>2 DEF Rows
<1>5. \A g \in new : g \in Rows /\ g.batch = i.drop /\ g.version = i.version
  <2>1. CASE old = {}
    <3>1. new = {[batch |-> i.drop, load |-> counts.loads, version |-> i.version]}
      BY <2>1
    <3>2. QED
      BY <1>1, <1>2, <3>1 DEF Rows
  <2>2. CASE old # {}
    <3>1. new = {[g EXCEPT !.version = i.version] : g \in old}
      BY <2>2
    <3> HIDE DEF new, old
    <3>2. QED
      BY <1>4, <3>1
  <2>3. QED
    BY <2>1, <2>2
<1>6. \A g \in old : g.version = i.version => g \in new
  <2>1. ASSUME NEW g \in old, g.version = i.version PROVE g \in new
    <3>1. new = {[h EXCEPT !.version = i.version] : h \in old}
      BY <2>1
    <3>2. [g EXCEPT !.version = i.version] = g
      BY <1>4, <2>1
    <3> HIDE DEF new, old
    <3>3. QED
      BY <2>1, <3>1, <3>2
  <2>2. QED
    BY <2>1
<1> HIDE DEF new
<1>7. QED
  BY <1>1, <1>2, <1>3, <1>5, <1>6

LEMMA IntakeWritesData ==
    ASSUME DataInv, NEW i \in intakes, IntakeWrites(i)
    PROVE  DataInv'
<1>1. BucketTyped /\ DataTyped
  BY DEF DataInv, Typed
<1>2. /\ intakes' = intakes \ {i}
      /\ UNCHANGED <<local, staged, live, web, prep, receipt, approvals, runs, links, flags, reseed,
                     analyses, counts>>
  BY DEF IntakeWrites, OperatorsKept
<1>3. BucketTyped'
  BY <1>1, <1>2 DEF BucketTyped
<1>4. /\ grants' \subseteq Rows /\ i.drop # Baseline /\ (i.drop = "other" => i.version = 1)
      /\ \A g \in grants' : g \in grants \/ (g.batch = i.drop /\ g.version = i.version)
  BY IntakeRows
<1>5. DataTyped'
  BY <1>1, <1>2, <1>4 DEF DataTyped
<1>6. CommandsTyped'
  <2>1. prep' = prep /\ receipt' = receipt
    BY <1>2
  <2>2. QED
    BY <2>1, Zenon DEF DataInv, Typed, CommandsTyped
<1>7. DropsAreNamed'
  BY <1>2 DEF DataInv, Typed, DropsAreNamed
<1>8. OthersAreOfOne'
  BY <1>2, <1>4 DEF DataInv, OthersAreOfOne
<1>9. RunsAreNumbered'
  BY <1>2 DEF DataInv, RunsAreNumbered
<1>10. BaselineIsLoaded'
  BY <1>2, <1>4 DEF DataInv, BaselineIsLoaded, InOrder
<1>11. \A o \in Operators : SeenAreOwned(o)' /\ AnalysisIsOwned(o)'
  BY <1>2 DEF DataInv, SeenAreOwned, AnalysisIsOwned
<1>12. QED
  BY <1>3, <1>5, <1>6, <1>7, <1>8, <1>9, <1>10, <1>11 DEF DataInv, Typed

LEMMA OthersData ==
    ASSUME DataInv,
           \/ Simulate \/ UpdateCheckout
           \/ LoseFiles /\ UNCHANGED <<local, bucket, database, analyses, web, prep, receipt, counts>>
           \/ \E o \in Operators : IdentityStep(o)
           \/ UNCHANGED vars
    PROVE  DataInv'
<1>1. /\ BucketTyped /\ UNCHANGED <<staged, live, web, prep, receipt, dataVars>>
      /\ (web.pc # "idle" => web.drop \in Drops)
  <2>1. BucketTyped /\ (web.pc # "idle" => web.drop \in Drops)
    BY DEF DataInv, Typed, DropsAreNamed
  <2>2. UNCHANGED <<staged, live, web, prep, receipt, dataVars>>
    BY DEF Simulate, UpdateCheckout, IdentityStep, Act, OperatorsKept, dataVars, database, bucket, vars
  <2>3. QED
    BY <2>1, <2>2
<1>2. local' \in Nat \ {0}
  BY <1>1 DEF BucketTyped, Simulate, UpdateCheckout, IdentityStep, OperatorsKept, vars
<1>3. \A i \in intakes' : \/ i \in intakes
                          \/ i \in [drop : Drops \cup {"other"}, version : Nat]
                             /\ (i.drop = "other" => i.version = 1)
  <2>1. CASE Simulate
    BY <2>1, PreparationAssumption DEF Simulate
  <2>2. CASE ~Simulate
    <3>1. intakes' = intakes
      BY <2>2 DEF UpdateCheckout, IdentityStep, bucket, vars
    <3>2. QED
      BY <3>1
  <2>3. QED
    BY <2>1, <2>2
<1>4. BucketTyped'
  BY <1>1, <1>2, <1>3 DEF BucketTyped
<1>5. \A i \in intakes' : i.drop = "other" => i.version = 1
  BY <1>3, OthersIntakes
<1>6. QED
  BY <1>1, <1>4, <1>5, QuietData

LEMMA RequestApprovalData ==
    ASSUME DataInv, NEW who \in Who, NEW subject \in {"export", "other"}, RequestApproval(who, subject)
    PROVE  DataInv'
<1>1. BucketTyped /\ DataTyped
  BY DEF DataInv, Typed
<1>2. /\ approvals' = approvals \cup {[by |-> who, subject |-> subject]}
      /\ UNCHANGED <<local, bucket, web, grants, runs, links, flags, reseed, analyses, counts>>
      /\ prep' = prep /\ receipt' = receipt
  BY DEF RequestApproval, OperatorsKept, Act
<1>3. BucketTyped' /\ intakes' = intakes
  BY <1>1, <1>2, BucketStays DEF bucket
<1>4. DataTyped'
  BY <1>1, <1>2 DEF DataTyped
<1>5. CommandsTyped'
  BY <1>2, Zenon DEF DataInv, Typed, CommandsTyped
<1>6. DropsAreNamed'
  BY <1>2 DEF DataInv, Typed, DropsAreNamed
<1>7. OthersAreOfOne' /\ RunsAreNumbered'
  BY <1>2, <1>3 DEF DataInv, OthersAreOfOne, RunsAreNumbered
<1>8. BaselineIsLoaded'
  BY <1>2 DEF DataInv, BaselineIsLoaded, InOrder
<1>9. \A o \in Operators : SeenAreOwned(o)' /\ AnalysisIsOwned(o)'
  BY <1>2 DEF DataInv, SeenAreOwned, AnalysisIsOwned
<1>10. QED
  BY <1>3, <1>4, <1>5, <1>6, <1>7, <1>8, <1>9 DEF DataInv, Typed

-----------------------------------------------------------------------------
(* The data: the specification.                                            *)

LEMMA InitData == ASSUME Init PROVE DataInv
<1>1. NoVersions \in [Fixtures -> Nat] /\ NoCommand \in Command /\ NoCommand.pc = "idle"
      /\ NoCommand.seen = {} /\ NoCommand.at = 0
  BY NoCommandIsOne
<1>2. /\ local = 1 /\ staged = [f \in Fixtures |-> NoObject] /\ live = [d \in Drops |-> 0]
      /\ intakes = {} /\ web = NoRelease
  BY DEF Init
<1>3. /\ grants = {} /\ approvals = {} /\ runs = {} /\ links = {} /\ flags = {} /\ analyses = {}
      /\ reseed = [at |-> 0, load |-> 0, versions |-> NoVersions]
      /\ counts = [resets |-> 0, loads |-> 0, analyses |-> 0]
  BY DEF Init
<1>4. prep = [o \in Operators |-> NoCommand] /\ receipt = [o \in Operators |-> "none"]
  BY DEF Init
<1>5. BucketTyped
  BY <1>2 DEF BucketTyped, NoObject, NoRelease, Fixtures
<1>6. DataTyped
  BY <1>1, <1>3, FS_EmptySet DEF DataTyped
<1>7. CommandsTyped
  <2>1. prep \in [Operators -> Command]
    BY <1>1, <1>4
  <2>2. receipt \in [Operators -> Said]
    BY <1>4, WhatIsSaid
  <2>3. QED
    BY <2>1, <2>2 DEF CommandsTyped
<1>8. DropsAreNamed
  BY <1>1, <1>2, <1>4 DEF DropsAreNamed, NoRelease
<1>9. OthersAreOfOne /\ RunsAreNumbered
  BY <1>2, <1>3 DEF OthersAreOfOne, RunsAreNumbered
<1>10. BaselineIsLoaded
  BY <1>1, <1>3, <1>4 DEF BaselineIsLoaded
<1>11. \A o \in Operators : SeenAreOwned(o) /\ AnalysisIsOwned(o)
  BY <1>1, <1>4 DEF SeenAreOwned, AnalysisIsOwned
<1>12. QED
  BY <1>5, <1>6, <1>7, <1>8, <1>9, <1>10, <1>11 DEF DataInv, Typed

LEMMA NextData == DataInv /\ [Next]_vars => DataInv'
<1> SUFFICES ASSUME DataInv, [Next]_vars PROVE DataInv'
  OBVIOUS
<1>1. CASE UNCHANGED vars
  BY <1>1, OthersData
<1>2. ASSUME NEW o \in Operators, Prepare(o) \/ Check(o) \/ Release(o)
      PROVE  DataInv'
  BY <1>2, BeginCommandData
<1>3. ASSUME NEW o \in Operators, PrepareStep(o) \/ CommandFails(o)
      PROVE  DataInv'
  BY <1>3, SimpleStepData, StageData, ClearDropsData, CheckDropsData, LoadStagedData, BeginResetData,
     DeleteAnalyticsData, LoadBaselineData, AnalyseData, FinishData, FinalizeData, ReleasePutData
  DEF PrepareStep
<1>4. CASE Others
  <2>1. CASE OtherAnalysis
    BY <2>1, FinishData
  <2>2. CASE WebRead \/ WebCompare \/ WebPut
    BY <2>2, WebData
  <2>3. CASE \E i \in intakes : IntakeReads(i) \/ IntakeWrites(i)
    BY <2>3, IntakeReadsData, IntakeWritesData
  <2>4. CASE \E who \in Who : UserAnalyses(who) \/ RequestApproval(who, "export")
    BY <2>4, UserAnalysesData, RequestApprovalData
  <2>5. CASE RequestApproval("team", "other")
    BY <2>5, RequestApprovalData DEF Who
  <2>6. QED
    BY <1>4, <2>1, <2>2, <2>3, <2>4, <2>5, OthersData DEF Others
<1>5. ASSUME NEW o \in Operators, IdentityStep(o) PROVE DataInv'
  BY <1>5, OthersData
<1>6. QED
  BY <1>1, <1>2, <1>3, <1>4, <1>5 DEF Next

\* Both invariants together.
PreparationInv == IdentityInv /\ DataInv

LEMMA PreparationInvariance == Spec => []PreparationInv
<1>1. Init => PreparationInv
  BY InitIdentities, InitData DEF Init, PreparationInv
<1>2. PreparationInv /\ [Next]_vars => PreparationInv'
  BY NextIdentities, NextData DEF PreparationInv
<1>3. QED
  BY <1>1, <1>2, PTL DEF Spec

\* Wherever a posture command was broken off, and however many were given, the factor that
\* Cognito asks of the presenter is the one in the file, unless the file was lost
\* (enroll_optional_presenter of scripts/configure_demo_identity_posture.py).
THEOREM PresenterKeepsItsFactor == Spec => []FactorIsKept
<1>1. PreparationInv => FactorIsKept
  BY DEF PreparationInv, IdentityInv
<1>2. QED
  BY <1>1, PreparationInvariance, PTL

-----------------------------------------------------------------------------
(* What is not of the demonstration is kept.                               *)

\* What is not of the demonstration, in the tables that a reset deletes from.
OthersStay ==
    /\ {g \in grants : g.batch = "other"} \subseteq grants'
    /\ {a \in approvals : a.by = "presenter"} \subseteq approvals'
    /\ {run \in runs : run.by = "presenter"} \subseteq runs'

LEMMA LoadKeepsOthers ==
    ASSUME DataInv, NEW o \in Operators, LoadBaseline(o)
    PROVE  OthersStay
<1>1. DataTyped
  BY DEF DataInv, Typed
<1>2. \A g \in grants : g.batch = "other" => ~Owned(g)
  BY <1>1, NotOwned, PreparationAssumption DEF DemoBatches, Fixtures
<1>3. \A a \in approvals : a.by = "presenter" => ~Owned(a)
  BY <1>1, NotOwned DEF DemoActors
<1>4. \A run \in runs : run.by = "presenter" => run.id \notin prep[o].seen
  BY DEF DataInv, SeenAreOwned, DemoActors
<1>5. /\ {g \in grants : ~Owned(g)} \subseteq grants'
      /\ approvals' = {a \in approvals : ~Owned(a)}
      /\ runs' = {run \in runs : run.id \notin prep[o].seen}
  BY DEF LoadBaseline
<1>6. QED
  BY <1>2, <1>3, <1>4, <1>5 DEF OthersStay

LEMMA FinalizeKeepsOthers ==
    ASSUME DataInv, NEW o \in Operators, Finalize(o)
    PROVE  OthersStay
<1>1. UNCHANGED <<grants, approvals>> /\ prep[o].pc = "finalize"
  BY DEF Finalize, At
<1>2. \A run \in runs : run.id = prep[o].analysis => run.by = "preparer"
  BY <1>1 DEF DataInv, AnalysisIsOwned
<1>3. \A run \in runs : run.id # prep[o].analysis => run \in runs'
  BY DEF Finalize
<1>4. QED
  BY <1>1, <1>2, <1>3 DEF OthersStay

LEMMA IntakeKeepsOthers ==
    ASSUME DataInv, NEW i \in intakes, IntakeWrites(i)
    PROVE  OthersStay
<1>1. \A g \in grants : g.batch = "other" => g.version = 1
  BY DEF DataInv, OthersAreOfOne
<1>2. \A g \in grants : g.batch = "other" => g \in grants'
  BY <1>1, IntakeRows
<1>3. UNCHANGED <<approvals, runs>>
  BY DEF IntakeWrites
<1>4. QED
  BY <1>2, <1>3 DEF OthersStay

LEMMA StepKeepsOthers == DataInv /\ [Next]_vars => OthersStay
<1> SUFFICES ASSUME DataInv, [Next]_vars PROVE OthersStay
  OBVIOUS
<1>1. CASE grants \subseteq grants' /\ approvals \subseteq approvals' /\ runs \subseteq runs'
  BY <1>1 DEF OthersStay
<1>2. CASE UNCHANGED vars
  BY <1>1, <1>2 DEF vars, database
<1>3. ASSUME NEW o \in Operators, Prepare(o) \/ Check(o) \/ Release(o)
      PROVE  OthersStay
  <2>1. UNCHANGED <<grants, approvals, runs>>
    BY <1>3, Zenon DEF Prepare, Check, Release, BeginCommand, database
  <2>2. QED
    BY <1>1, <2>1
<1>4. ASSUME NEW o \in Operators,
             \/ VerifyIdentities(o) \/ Stage(o) \/ ClearDrops(o) \/ CheckDrops(o) \/ Migrate(o)
             \/ LoadStaged(o) \/ BeginReset(o) \/ DeleteAnalytics(o) \/ ResetCollides(o)
             \/ Analyse(o) \/ ContinueAnalysis(o) \/ CheckRows(o) \/ CheckRuns(o)
             \/ ReleaseGuard(o) \/ ReleaseGet(o) \/ ReleasePut(o) \/ CommandFails(o) \/ IdentityStep(o)
      PROVE  OthersStay
  <2>1. UNCHANGED <<grants, approvals, runs>>
    BY <1>4, Zenon
    DEF VerifyIdentities, Stage, ClearDrops, CheckDrops, Migrate, LoadStaged, BeginReset, DeleteAnalytics,
        ResetCollides, Analyse, ContinueAnalysis, ReadAmounts, CheckRows, CheckRuns, ReleaseGuard,
        ReleaseGet, ReleasePut, CommandFails, IdentityStep, database
  <2>2. QED
    BY <1>1, <2>1
<1>5. ASSUME NEW o \in Operators, FinishAnalysis(o) PROVE OthersStay
  BY <1>1, <1>5 DEF FinishAnalysis, CommitAnalysis
<1>6. CASE Others
  <2>1. CASE \/ UpdateCheckout \/ WebRead \/ WebCompare \/ WebPut \/ Simulate
             \/ \E i \in intakes : IntakeReads(i)
             \/ \E who \in Who : UserAnalyses(who)
             \/ LoseFiles /\ UNCHANGED <<local, bucket, database, analyses, web, prep, receipt, counts>>
    BY <1>1, <2>1 DEF UpdateCheckout, WebRead, WebCompare, WebPut, Simulate, IntakeReads, UserAnalyses,
                      database
  <2>2. CASE OtherAnalysis
    BY <1>1, <2>2 DEF OtherAnalysis, ReadAmounts, CommitAnalysis, database
  <2>3. CASE \E i \in intakes : IntakeWrites(i)
    BY <2>3, IntakeKeepsOthers
  <2>4. ASSUME NEW who \in Who, NEW subject \in {"export", "other"}, RequestApproval(who, subject)
        PROVE  OthersStay
    BY <1>1, <2>4 DEF RequestApproval
  <2>5. QED
    BY <1>6, <2>1, <2>2, <2>3, <2>4 DEF Others, Who
<1>7. QED
  BY <1>2, <1>3, <1>4, <1>5, <1>6, LoadKeepsOthers, FinalizeKeepsOthers DEF Next, PrepareStep

\* No reset, however its statements fall between those of others, takes from the tables what is
\* not of the demonstration (reset_synthetic_state of migrator/demo_prep.py).
THEOREM ResetKeepsOthers == Spec => OthersAreKept
<1>1. PreparationInv /\ [Next]_vars
          => [/\ {g \in grants : g.batch = "other"} \subseteq grants'
              /\ {a \in approvals : a.by = "presenter"} \subseteq approvals'
              /\ {run \in runs : run.by = "presenter"} \subseteq runs']_<<grants, approvals, runs>>
  BY StepKeepsOthers DEF PreparationInv, OthersStay
<1>2. QED
  BY <1>1, PreparationInvariance, PTL DEF Spec, OthersAreKept

-----------------------------------------------------------------------------
(* Who is not disturbed: the posture command keeps what it brings about.    *)

LEMMA ChangeKeepsPosture ==
    ASSUME IdentitiesTyped, Posture, NEW u \in Users, NEW user \in UserRecord, Change(u, user),
           user.there, user.enabled, user.password # 0, user.group = {"right"},
           user.mfa <=> u = Presenter
    PROVE  Posture'
<1>1. pool'[u] = user /\ \A v \in Users \ {u} : pool'[v] = pool[v]
  BY ChangeShape
<1>2. InPosture(u)'
  BY <1>1 DEF InPosture, UserRecord
<1>3. \A v \in Users \ {u} : InPosture(v)'
  BY <1>1 DEF Posture, InPosture
<1>4. QED
  BY <1>2, <1>3 DEF Posture

LEMMA ConfigureKeepsPosture ==
    ASSUME IdentityInv, Posture, NEW o \in Operators,
           BeginConfigure(o) \/ ConfigureStep(o) \/ ConfigureFails(o) \/ ConfigureKilled(o)
    PROVE  Posture'
<1> DEFINE u == conf[o].user
<1>1. /\ IdentitiesTyped /\ u \in Users /\ pool[u] \in UserRecord
      /\ Presenter \in Users /\ pool[Presenter] \in UserRecord
  BY TheUser DEF IdentityInv
<1>2. ASSUME NEW v \in Users
      PROVE  /\ pool[v].there /\ pool[v].enabled /\ pool[v].password # 0 /\ pool[v].group = {"right"}
             /\ pool[v].mfa <=> v = Presenter
  BY DEF Posture, InPosture
<1>3. CASE pool' = pool
  BY <1>3 DEF Posture, InPosture
<1> HIDE DEF u
<1>4. CASE EnsureAccount(o)
  <2> DEFINE user == [pool[u] EXCEPT !.there = TRUE, !.enabled = TRUE]
  <2>1. /\ user \in UserRecord /\ user.there /\ user.enabled /\ user.password = pool[u].password
        /\ user.group = pool[u].group /\ user.mfa = pool[u].mfa
    BY <1>1 DEF UserRecord
  <2>2. Change(u, user)
    BY <1>4 DEF EnsureAccount, u
  <2> HIDE DEF user
  <2>3. QED
    BY <1>1, <1>2, <2>1, <2>2, ChangeKeepsPosture
<1>5. CASE EnsurePassword(o)
  <2> DEFINE user == [pool[u] EXCEPT !.password = team]
  <2>1. team # 0 /\ team \in Nat
    BY <1>1, <1>5 DEF EnsurePassword, IdentityInv, Enrolls, IdentitiesTyped
  <2>2. /\ user \in UserRecord /\ user.there = pool[u].there /\ user.enabled = pool[u].enabled
        /\ user.password = team /\ user.group = pool[u].group /\ user.mfa = pool[u].mfa
    BY <1>1, <2>1 DEF UserRecord
  <2>3. Change(u, user)
    BY <1>5 DEF EnsurePassword, u
  <2> HIDE DEF user
  <2>4. QED
    BY <1>1, <1>2, <2>1, <2>2, <2>3, ChangeKeepsPosture
<1>6. CASE LeaveGroups(o) \/ JoinGroup(o)
  <2>1. pool[u].group = {"right"}
    BY <1>1, <1>2
  <2>2. /\ pool[u].group \ WrongGroups(pool[u]) = {"right"}
        /\ pool[u].group \cup {"right"} = {"right"}
    BY <2>1 DEF WrongGroups
  <2> DEFINE user == [pool[u] EXCEPT !.group = {"right"}]
  <2>3. /\ user \in UserRecord /\ user.there = pool[u].there /\ user.enabled = pool[u].enabled
        /\ user.password = pool[u].password /\ user.group = {"right"} /\ user.mfa = pool[u].mfa
    BY <1>1 DEF UserRecord
  <2>4. CASE LeaveGroups(o)
    <3>1. Change(u, [pool[u] EXCEPT !.group = @ \ WrongGroups(pool[u])])
      BY <2>4 DEF LeaveGroups, u
    <3>2. Change(u, user)
      BY <2>2, <3>1
    <3> HIDE DEF user
    <3>3. QED
      BY <1>1, <1>2, <2>3, <3>2, ChangeKeepsPosture
  <2>5. CASE JoinGroup(o)
    <3>1. Change(u, [pool[u] EXCEPT !.group = @ \cup {"right"}])
      BY <2>5 DEF JoinGroup, u
    <3>2. Change(u, user)
      BY <2>2, <3>1
    <3> HIDE DEF user
    <3>3. QED
      BY <1>1, <1>2, <2>3, <3>2, ChangeKeepsPosture
  <2>6. QED
    BY <1>6, <2>4, <2>5
<1>7. CASE PasswordOnly(o)
  <2> DEFINE user == [pool[u] EXCEPT !.mfa = FALSE]
  <2>1. u # Presenter
    <3>1. conf[o].pc = "alone"
      BY <1>7, Zenon DEF PasswordOnly
    <3>2. conf[o].user \in Team
      BY <3>1 DEF IdentityInv, Enrolls
    <3>3. QED
      BY <3>2, IdentitiesAssumption DEF u
  <2>2. /\ user \in UserRecord /\ user.there = pool[u].there /\ user.enabled = pool[u].enabled
        /\ user.password = pool[u].password /\ user.group = pool[u].group /\ ~user.mfa
    BY <1>1 DEF UserRecord
  <2>3. Change(u, user)
    BY <1>7, Zenon DEF PasswordOnly, u
  <2> HIDE DEF user
  <2>4. QED
    BY <1>1, <1>2, <2>1, <2>2, <2>3, ChangeKeepsPosture
<1>8. CASE Verify(o)
  <2> DEFINE user == [pool[Presenter] EXCEPT !.factor = conf[o].secret]
             old == pool[Presenter]
  <2>1. conf[o].secret \in Nat
    BY <1>1, Zenon DEF IdentitiesTyped, ConfRecord
  <2>2. /\ user \in UserRecord /\ user.there = old.there /\ user.enabled = old.enabled
        /\ user.password = old.password /\ user.group = old.group /\ user.mfa = old.mfa
    BY <1>1, <2>1 DEF UserRecord
  <2>3. Change(Presenter, user)
    BY <1>8 DEF Verify
  <2> HIDE DEF user
  <2>4. QED
    BY <1>1, <1>2, <2>2, <2>3, ChangeKeepsPosture
<1>9. CASE PreferFactor(o)
  <2> DEFINE user == [pool[Presenter] EXCEPT !.mfa = TRUE]
             old == pool[Presenter]
  <2>1. /\ user \in UserRecord /\ user.there = old.there /\ user.enabled = old.enabled
        /\ user.password = old.password /\ user.group = old.group /\ user.mfa
    BY <1>1 DEF UserRecord
  <2>2. Change(Presenter, user)
    BY <1>9 DEF PreferFactor
  <2> HIDE DEF user
  <2>3. QED
    BY <1>1, <1>2, <2>1, <2>2, ChangeKeepsPosture
<1>10. CASE \/ BeginConfigure(o) \/ ConfigureFails(o) \/ ConfigureKilled(o) \/ LockAndLoad(o)
            \/ LoadPresenter(o) \/ CreateClient(o) \/ SignIn(o) \/ Associate(o)
            \/ CompletePresenter(o) \/ DeleteClient(o)
  <2>1. pool' = pool
    BY <1>10, Zenon
    DEF BeginConfigure, ConfigureFails, ConfigureKilled, LockAndLoad, LoadPresenter, CreateClient,
        SignIn, Associate, CompletePresenter, DeleteClient
  <2>2. QED
    BY <1>3, <2>1
<1>11. QED
  BY <1>4, <1>5, <1>6, <1>7, <1>8, <1>9, <1>10 DEF ConfigureStep

-----------------------------------------------------------------------------
(* Who is not disturbed: the steps of a command.                           *)

\* The command goes on, and is not disturbed in what it found.
LEMMA RightOn ==
    ASSUME CommandsTyped, NEW o \in Operators, receipt[o] = "none", Undisturbed(o),
           NEW r \in Command, prep' = [prep EXCEPT ![o] = r], receipt' = receipt,
           UNCHANGED <<pool, conf, local, intakes, web>>,
           r.pc # "idle", r.version = prep[o].version,
           \A a \in analyses' : r.pc = "analysing" /\ a.id = r.analysis,
           prep[o].pc \in Releases \cup {"identities"} /\ r.pc \notin Releases => Posture,
           r.pc \in AfterDrops /\ r.good => live' = NoDrops,
           r.pc \in {"rows", "runs"} =>
               \A f \in Fixtures : (Valid(staged[f]))' /\ r.loaded[f] = staged'[f].body,
           r.pc = "runs" /\ r.good => RowsArePristine(r.loaded)'
    PROVE  IsRight(o)'
<1>1. prep'[o] = r /\ \A p \in Operators \ {o} : prep'[p] = prep[p]
  BY OneCommand
<1>2. Posture' <=> Posture
  BY DEF Posture, InPosture
<1>3. (Busy(o))' /\ receipt'[o] = "none"
  BY <1>1 DEF Busy, At
<1>4. /\ \A p \in Operators \ {o} : prep'[p].pc = "idle"
      /\ \A p \in Operators : conf'[p].pc = "idle"
      /\ intakes' = {} /\ web' = NoRelease /\ prep'[o].version = local'
  BY <1>1 DEF Undisturbed
<1>5. \A a \in analyses' : At(o, "analysing")' /\ a.id = prep'[o].analysis
  BY <1>1 DEF At
<1>6. prep'[o].pc \notin Releases \cup {"identities"} => Posture'
  BY <1>1, <1>2 DEF Undisturbed
<1>7. /\ prep'[o].pc \in AfterDrops /\ prep'[o].good => live' = NoDrops
      /\ prep'[o].pc \in {"rows", "runs"} =>
            \A f \in Fixtures : (Valid(staged[f]))' /\ prep'[o].loaded[f] = staged'[f].body
      /\ prep'[o].pc = "runs" /\ prep'[o].good => RowsArePristine(prep[o].loaded)'
  <2>1. prep'[o].pc = "runs" /\ prep'[o].good => RowsArePristine(prep[o].loaded)'
    BY <1>1 DEF RowsArePristine
  <2>2. QED
    BY <1>1, <2>1
<1>8. Undisturbed(o)'
  BY <1>4, <1>5, <1>6, <1>7 DEF Undisturbed, NoDrops, NoRelease, Valid
<1>9. QED
  BY <1>3, <1>8 DEF IsRight

\* The command ends, with any receipt but the best.
LEMMA RightEnd ==
    ASSUME CommandsTyped, NEW o \in Operators, NEW said \in Said, said # "ready", End(o, said)
    PROVE  IsRight(o)'
<1>1. prep'[o] = NoCommand /\ receipt'[o] = said
  BY EndShape
<1>2. ~Busy(o)'
  BY <1>1, NoCommandIsOne DEF Busy, At
<1>3. QED
  BY <1>1, <1>2 DEF IsRight

LEMMA RightProceed ==
    ASSUME CommandsTyped, NEW o \in Operators, receipt[o] = "none", Undisturbed(o),
           NEW pc \in Points \ {"idle", "rows", "runs", "analysing"}, Proceed(o, pc),
           UNCHANGED <<pool, conf, local, intakes, web>>, analyses' = {},
           prep[o].pc \in Releases \cup {"identities"} /\ pc \notin Releases => Posture,
           pc \in AfterDrops /\ prep[o].good => live' = NoDrops
    PROVE  IsRight(o)'
<1> DEFINE r == [prep[o] EXCEPT !.pc = pc]
<1>1. r \in Command /\ prep' = [prep EXCEPT ![o] = r] /\ receipt' = receipt
  BY ProceedShape
<1>2. r.pc = pc /\ r.version = prep[o].version /\ r.good = prep[o].good
  BY TheCommand DEF Command
<1> HIDE DEF r
<1>3. QED
  BY <1>1, <1>2, RightOn

\* A command that has no analysis under way has the others' tables to itself.
LEMMA NobodyAnalyses ==
    ASSUME NEW o \in Operators, Undisturbed(o), prep[o].pc # "analysing" PROVE analyses = {}
BY DEF Undisturbed, At

LEMMA NoDropIsThere ==
    ASSUME BucketTyped, \A d \in Drops : live[d] = 0 PROVE live = NoDrops
BY DEF BucketTyped, NoDrops

LEMMA RightSimple ==
    ASSUME DataInv, NEW o \in Operators, receipt[o] = "none", Undisturbed(o),
           \/ VerifyIdentities(o) \/ ClearDrops(o) \/ Migrate(o) \/ LoadBaseline(o) \/ ResetCollides(o)
           \/ Finalize(o) \/ ReleaseGuard(o) \/ ReleaseGet(o) \/ ReleasePut(o)
    PROVE  IsRight(o)'
<1>1. CommandsTyped
  BY DEF DataInv, Typed
<1>2. CASE \E said \in {"error", "released"} : End(o, said)
  BY <1>1, <1>2, RightEnd, WhatIsSaid
<1>3. CASE ~\E said \in {"error", "released"} : End(o, said)
  <2>1. PICK pc \in {"stage", "drops", "reset", "analyse", "preflight", "get", "put"} :
          /\ Proceed(o, pc)
          /\ pc \in {"reset", "analyse", "preflight"} => prep[o].pc \in AfterDrops
          /\ pc \in {"get", "put"} <=> prep[o].pc \in Releases
          /\ prep[o].pc = "identities" => Posture
          /\ prep[o].pc # "analysing"
    <3>1. CASE VerifyIdentities(o)
      <4>1. /\ prep[o].pc = "identities" /\ Posture
            /\ \E pc \in {"stage", "drops"} : Proceed(o, pc)
        BY <1>3, <3>1 DEF VerifyIdentities, At
      <4>2. QED
        BY <4>1 DEF Releases
    <3>2. CASE ClearDrops(o)
      BY <3>2 DEF ClearDrops, At, Releases
    <3>3. CASE Migrate(o)
      BY <3>3 DEF Migrate, At, Releases, AfterDrops
    <3>4. CASE LoadBaseline(o)
      BY <3>4 DEF LoadBaseline, At, Releases, AfterDrops
    <3>5. CASE Finalize(o)
      <4>1. prep[o].pc = "finalize" /\ Proceed(o, "preflight")
        BY <1>3, <3>5 DEF Finalize, At
      <4>2. QED
        BY <4>1 DEF Releases, AfterDrops
    <3>6. CASE ReleaseGuard(o)
      <4>1. prep[o].pc = "guard" /\ Proceed(o, "get")
        BY <1>3, <3>6 DEF ReleaseGuard, At
      <4>2. QED
        BY <4>1 DEF Releases
    <3>7. CASE ReleaseGet(o)
      <4>1. prep[o].pc = "get" /\ Proceed(o, "put")
        BY <1>3, <3>7 DEF ReleaseGet, At
      <4>2. QED
        BY <4>1 DEF Releases
    <3>8. CASE ResetCollides(o) \/ ReleasePut(o)
      BY <1>3, <3>8 DEF ResetCollides, ReleasePut
    <3>9. QED
      BY <3>1, <3>2, <3>3, <3>4, <3>5, <3>6, <3>7, <3>8
  <2>2. UNCHANGED <<pool, conf, local, intakes, web, analyses>>
    <3>1. ~ReleasePut(o)
      BY <1>3 DEF ReleasePut
    <3>2. QED
      BY <3>1, Zenon
      DEF VerifyIdentities, ClearDrops, Migrate, LoadBaseline, ResetCollides, Finalize, ReleaseGuard,
          ReleaseGet, IdentitiesKept, identityVars, bucket
  <2>3. analyses' = {}
    BY <2>1, <2>2, NobodyAnalyses
  <2>4. pc \in AfterDrops /\ prep[o].good => live' = NoDrops
    <3>1. CASE pc \in {"reset", "analyse", "preflight"}
      <4>1. live' = live
        BY <2>1, <3>1 DEF AfterDrops, VerifyIdentities, ClearDrops, Migrate, LoadBaseline, ResetCollides,
                          Finalize, ReleaseGuard, ReleaseGet, ReleasePut, bucket, At
      <4>2. QED
        BY <2>1, <3>1, <4>1 DEF Undisturbed
    <3>2. QED
      BY <2>1, <3>1 DEF AfterDrops
  <2>5. pc \in Points \ {"idle", "rows", "runs", "analysing"}
    BY <2>1 DEF Points
  <2>6. prep[o].pc \in Releases \cup {"identities"} /\ pc \notin Releases => Posture
    BY <2>1 DEF Releases
  <2>7. QED
    BY <1>1, <2>1, <2>2, <2>3, <2>4, <2>5, <2>6, RightProceed
<1>4. QED
  BY <1>2, <1>3

LEMMA RightStage ==
    ASSUME DataInv, NEW o \in Operators, receipt[o] = "none", Undisturbed(o), Stage(o)
    PROVE  IsRight(o)'
<1>1. CommandsTyped /\ prep[o] \in Command
  BY TheCommand DEF DataInv, Typed
<1>2. PICK f \in Fixtures :
        prep' = [prep EXCEPT ![o] = [prep[o] EXCEPT !.todo = prep[o].todo \ {f},
                                            !.pc = IF prep[o].todo = {f} THEN "clear" ELSE "stage"]]
  <2>1. prep[o].todo \subseteq Fixtures
    BY <1>1, TheCommand
  <2>2. QED
    BY <1>1, <2>1, Zenon DEF Stage, CommandsTyped
<1> DEFINE rest == prep[o].todo \ {f}
           pc   == IF prep[o].todo = {f} THEN "clear" ELSE "stage"
           r    == [prep[o] EXCEPT !.todo = rest, !.pc = pc]
<1>3. r \in Command /\ r.pc \in {"clear", "stage"} /\ r.version = prep[o].version
  <2>1. rest \in SUBSET Fixtures /\ pc \in {"clear", "stage"}
    BY <1>1, TheCommand
  <2> HIDE DEF rest, pc
  <2>2. QED
    BY <1>1, <2>1 DEF Command, Points
<1>4. UNCHANGED <<pool, conf, local, intakes, web, analyses>> /\ receipt' = receipt
  BY DEF Stage, IdentitiesKept, identityVars
<1>5. prep' = [prep EXCEPT ![o] = r] /\ prep[o].pc = "stage"
  BY <1>2 DEF Stage, At
<1> HIDE DEF r
<1>6. analyses' = {}
  BY <1>4, <1>5, NobodyAnalyses
<1>7. QED
  BY <1>1, <1>3, <1>4, <1>5, <1>6, RightOn DEF Releases, AfterDrops

LEMMA RightCheckDrops ==
    ASSUME DataInv, NEW o \in Operators, receipt[o] = "none", Undisturbed(o), CheckDrops(o)
    PROVE  IsRight(o)'
<1>1. CommandsTyped /\ BucketTyped /\ prep[o] \in Command
  BY TheCommand DEF DataInv, Typed
<1>2. UNCHANGED <<pool, conf, local, live, intakes, web, analyses>> /\ prep[o].pc = "drops"
  BY DEF CheckDrops, IdentitiesKept, identityVars, bucket, At
<1>3. analyses' = {}
  BY <1>2, NobodyAnalyses
<1>4. CASE prep[o].cmd = "check"
  <2> DEFINE good == \A d \in Drops : live[d] = 0
             r == [prep[o] EXCEPT !.pc = "preflight", !.good = good]
  <2>1. prep' = [prep EXCEPT ![o].pc = "preflight", ![o].good = good] /\ receipt' = receipt
    BY <1>4 DEF CheckDrops
  <2>2. good \in BOOLEAN /\ (good => live = NoDrops)
    BY <1>1, NoDropIsThere
  <2> HIDE DEF good
  <2>3. prep' = [prep EXCEPT ![o] = r]
    BY <1>1, <2>1 DEF CommandsTyped
  <2>4. r \in Command /\ r.pc = "preflight" /\ r.version = prep[o].version /\ r.good = good
    BY <1>1, <2>2 DEF Command, Points
  <2> HIDE DEF r
  <2>5. QED
    BY <1>1, <1>2, <1>3, <2>1, <2>2, <2>3, <2>4, RightOn DEF Releases
<1>5. CASE prep[o].cmd # "check" /\ \A d \in Drops : live[d] = 0
  <2>1. Proceed(o, "migrate") /\ live = NoDrops
    BY <1>1, <1>5, NoDropIsThere DEF CheckDrops
  <2>2. QED
    BY <1>1, <1>2, <1>3, <2>1, RightProceed DEF Points, Releases
<1>6. CASE prep[o].cmd # "check" /\ ~\A d \in Drops : live[d] = 0
  BY <1>1, <1>6, RightEnd, WhatIsSaid DEF CheckDrops
<1>7. QED
  BY <1>4, <1>5, <1>6

LEMMA RightLoadStaged ==
    ASSUME DataInv, NEW o \in Operators, receipt[o] = "none", Undisturbed(o), LoadStaged(o)
    PROVE  IsRight(o)'
<1>1. CommandsTyped /\ BucketTyped /\ prep[o] \in Command
  BY TheCommand DEF DataInv, Typed
<1>2. /\ UNCHANGED <<pool, conf, local, staged, live, intakes, web, analyses>>
      /\ prep[o].pc \in {"reset", "preflight"}
  BY DEF LoadStaged, IdentitiesKept, identityVars, bucket
<1>3. analyses' = {}
  BY <1>2, NobodyAnalyses
<1>4. CASE End(o, "error")
  BY <1>1, <1>4, RightEnd, WhatIsSaid
<1>5. CASE ~End(o, "error")
  <2> DEFINE now == [f \in Fixtures |-> staged[f].body]
             pc  == IF prep[o].pc = "reset" THEN "begin" ELSE "rows"
             r   == [prep[o] EXCEPT !.loaded = now, !.pc = pc]
  <2>1. prep' = [prep EXCEPT ![o].loaded = now,
                             ![o].pc = IF @ = "reset" THEN "begin" ELSE "rows"]
        /\ receipt' = receipt /\ \A f \in Fixtures : Valid(staged[f])
    BY <1>5 DEF LoadStaged
  <2>2. now \in [Fixtures -> Nat] /\ pc \in {"begin", "rows"}
        /\ \A f \in Fixtures : now[f] = staged[f].body
    BY <1>1 DEF BucketTyped
  <2>3. prep' = [prep EXCEPT ![o] = r]
    BY <1>1, <2>1 DEF CommandsTyped, Command
  <2> HIDE DEF now, pc
  <2>4. /\ r \in Command /\ r.pc = pc /\ r.version = prep[o].version /\ r.good = prep[o].good
        /\ r.loaded = now
    BY <1>1, <2>2 DEF Command, Points
  <2> HIDE DEF r
  <2>5. \A f \in Fixtures : Valid(staged[f])' /\ r.loaded[f] = staged'[f].body
    BY <1>2, <2>1, <2>2, <2>4 DEF Valid, MeetsContract
  <2>6. prep[o].good => live' = NoDrops
    BY <1>2 DEF Undisturbed, AfterDrops
  <2>7. QED
    BY <1>1, <1>2, <1>3, <2>1, <2>2, <2>3, <2>4, <2>5, <2>6, RightOn DEF Releases
<1>6. QED
  BY <1>4, <1>5

LEMMA RightReset ==
    ASSUME DataInv, NEW o \in Operators, receipt[o] = "none", Undisturbed(o),
           BeginReset(o) \/ DeleteAnalytics(o)
    PROVE  IsRight(o)'
<1>1. CommandsTyped /\ DataTyped /\ prep[o] \in Command
  BY TheCommand DEF DataInv, Typed
<1>2. /\ UNCHANGED <<pool, conf, local, live, intakes, web, analyses>>
      /\ prep[o].pc \in {"begin", "delete"}
  BY DEF BeginReset, DeleteAnalytics, IdentitiesKept, identityVars, bucket, At
<1>3. analyses' = {} /\ (prep[o].good => live' = NoDrops)
  BY <1>2, NobodyAnalyses DEF Undisturbed, AfterDrops
<1>4. CASE End(o, "error")
  BY <1>1, <1>4, RightEnd, WhatIsSaid
<1>5. CASE \E r \in Command : /\ prep' = [prep EXCEPT ![o] = r] /\ receipt' = receipt
                              /\ r.pc \in {"delete", "load"} /\ r.version = prep[o].version
                              /\ r.good = prep[o].good
  <2>1. PICK r \in Command : /\ prep' = [prep EXCEPT ![o] = r] /\ receipt' = receipt
                             /\ r.pc \in {"delete", "load"} /\ r.version = prep[o].version
                             /\ r.good = prep[o].good
    BY <1>5
  <2>2. QED
    BY <1>1, <1>2, <1>3, <2>1, RightOn DEF Releases
<1>6. CASE BeginReset(o) /\ ~End(o, "error")
  <2> DEFINE seen == {run.id : run \in {run \in runs : run.by \in DemoActors}}
             at == counts'.resets
             r == [prep[o] EXCEPT !.pc = "delete", !.at = at, !.seen = seen]
  <2>1. seen \subseteq Nat /\ at \in Nat
    BY <1>1, <1>6 DEF DataTyped, RunRecords, BeginReset
  <2>2. prep' = [prep EXCEPT ![o] = r] /\ receipt' = receipt
    BY <1>1, <1>6, Zenon DEF BeginReset, CommandsTyped
  <2> HIDE DEF seen, at
  <2>3. r \in Command /\ r.pc = "delete" /\ r.version = prep[o].version /\ r.good = prep[o].good
    BY <1>1, <2>1 DEF Command, Points
  <2> HIDE DEF r
  <2>4. QED
    BY <1>5, <2>2, <2>3
<1>7. CASE DeleteAnalytics(o)
  <2> DEFINE gone == {l \in links : l.row \in Demo(grants) \/ l.run \in prep[o].seen}
             flat == flags \cap Demo(grants)
             r == [prep[o] EXCEPT !.pc = "load", !.links = gone, !.flags = flat]
  <2>1. prep' = [prep EXCEPT ![o] = r] /\ receipt' = receipt
    BY <1>1, <1>7, Zenon DEF DeleteAnalytics, CommandsTyped
  <2>2. gone \subseteq Links /\ flat \subseteq Rows
    BY <1>1 DEF DataTyped
  <2> HIDE DEF gone, flat
  <2>3. r \in Command /\ r.pc = "load" /\ r.version = prep[o].version /\ r.good = prep[o].good
    BY <1>1, <2>2 DEF Command, Points
  <2> HIDE DEF r
  <2>4. QED
    BY <1>5, <2>1, <2>3
<1>8. QED
  BY <1>4, <1>6, <1>7

LEMMA RightAnalyse ==
    ASSUME DataInv, NEW o \in Operators, receipt[o] = "none", Undisturbed(o), Analyse(o)
    PROVE  IsRight(o)'
<1>1. CommandsTyped /\ DataTyped /\ prep[o] \in Command
  BY TheCommand DEF DataInv, Typed
<1>2. /\ UNCHANGED <<pool, conf, local, live, intakes, web>> /\ prep[o].pc = "analyse"
      /\ receipt' = receipt
  BY DEF Analyse, IdentitiesKept, identityVars, bucket, At
<1>3. analyses = {} /\ (prep[o].good => live' = NoDrops)
  BY <1>2, NobodyAnalyses DEF Undisturbed, AfterDrops
<1> DEFINE n == counts'.analyses
           r == [prep[o] EXCEPT !.pc = "analysing", !.analysis = n]
<1>4. n \in Nat /\ \A a \in analyses' : a.id = n
  BY <1>1, <1>3 DEF Analyse, BeginAnalysis, DataTyped
<1>5. prep' = [prep EXCEPT ![o] = r]
  BY <1>1, Zenon DEF Analyse, CommandsTyped
<1> HIDE DEF n
<1>6. /\ r \in Command /\ r.pc = "analysing" /\ r.version = prep[o].version /\ r.good = prep[o].good
      /\ r.analysis = n
  BY <1>1, <1>4 DEF Command, Points
<1> HIDE DEF r
<1>7. QED
  BY <1>1, <1>2, <1>3, <1>4, <1>5, <1>6, RightOn DEF Releases

LEMMA RightContinue ==
    ASSUME DataInv, NEW o \in Operators, receipt[o] = "none", Undisturbed(o), ContinueAnalysis(o)
    PROVE  IsRight(o)'
<1>1. PICK a \in analyses : Waits(o, a) /\ ReadAmounts(a)
  BY DEF ContinueAnalysis
<1>2. /\ UNCHANGED <<pool, conf, local, staged, live, intakes, web, prep, receipt>>
      /\ prep[o].pc = "analysing" /\ a.id = prep[o].analysis
  BY <1>1 DEF ReadAmounts, IdentitiesKept, identityVars, bucket, Waits, At
<1>3. \A b \in analyses' : b.id = prep[o].analysis
  <2>1. a \in AnalysisRecords /\ analyses' = (analyses \ {a}) \cup {[a EXCEPT !.pc = "write", !.amounts = grants]}
    BY <1>1 DEF ReadAmounts, DataInv, Typed, DataTyped
  <2>2. [a EXCEPT !.pc = "write", !.amounts = grants].id = a.id
    BY <2>1 DEF AnalysisRecords
  <2>3. QED
    BY <1>2, <2>1, <2>2 DEF Undisturbed
<1>4. Undisturbed(o)'
  BY <1>2, <1>3 DEF Undisturbed, At, Posture, InPosture, NoDrops, NoRelease, AfterDrops
<1>5. QED
  BY <1>2, <1>4 DEF IsRight, Busy, At

LEMMA RightFinish ==
    ASSUME DataInv, NEW o \in Operators, receipt[o] = "none", Undisturbed(o), FinishAnalysis(o)
    PROVE  IsRight(o)'
<1>1. CommandsTyped
  BY DEF DataInv, Typed
<1>2. PICK a \in analyses : /\ Waits(o, a) /\ CommitAnalysis(a)
                            /\ IF Exact(a.rows) THEN Proceed(o, "finalize") ELSE End(o, "error")
  BY DEF FinishAnalysis
<1>3. UNCHANGED <<pool, conf, local, live, intakes, web>> /\ prep[o].pc = "analysing"
  BY <1>2 DEF CommitAnalysis, IdentitiesKept, identityVars, bucket, Waits, At
<1>4. analyses' = {} /\ (prep[o].good => live' = NoDrops)
  <2>1. \A b \in analyses : b.id = a.id
    BY <1>2 DEF Undisturbed, Waits
  <2>2. analyses = {a}
    BY <2>1 DEF DataInv, RunsAreNumbered
  <2>3. QED
    BY <1>2, <1>3, <2>2 DEF CommitAnalysis, Undisturbed, AfterDrops
<1>5. CASE Proceed(o, "finalize")
  BY <1>1, <1>3, <1>4, <1>5, RightProceed DEF Points, Releases
<1>6. CASE End(o, "error")
  BY <1>1, <1>6, RightEnd, WhatIsSaid
<1>7. QED
  BY <1>2, <1>5, <1>6

LEMMA RightCheckRows ==
    ASSUME DataInv, NEW o \in Operators, receipt[o] = "none", Undisturbed(o), CheckRows(o)
    PROVE  IsRight(o)'
<1>1. CommandsTyped /\ prep[o] \in Command
  BY TheCommand DEF DataInv, Typed
<1>2. /\ UNCHANGED <<pool, conf, local, staged, live, intakes, web, analyses>>
      /\ UNCHANGED <<grants, reseed, landed, approvals, flags>>
      /\ prep[o].pc = "rows" /\ receipt' = receipt
  BY DEF CheckRows, IdentitiesKept, identityVars, bucket, database, At
<1>3. analyses' = {}
  BY <1>2, NobodyAnalyses
<1>4. PICK r \in Command : /\ prep' = [prep EXCEPT ![o] = r] /\ r.pc = "runs"
                           /\ r.version = prep[o].version /\ r.loaded = prep[o].loaded
                           /\ r.good => prep[o].good /\ RowsArePristine(prep[o].loaded)
  <2> DEFINE good == prep[o].good /\ RowsArePristine(prep[o].loaded)
             r == [prep[o] EXCEPT !.pc = "runs", !.good = good]
  <2>1. prep' = [prep EXCEPT ![o].good = good, ![o].pc = "runs"]
    BY DEF CheckRows
  <2>2. good \in BOOLEAN /\ (good => prep[o].good /\ RowsArePristine(prep[o].loaded))
    OBVIOUS
  <2> HIDE DEF good
  <2>3. prep' = [prep EXCEPT ![o] = r]
    BY <1>1, <2>1 DEF CommandsTyped, Command
  <2>4. /\ r \in Command /\ r.pc = "runs" /\ r.version = prep[o].version /\ r.good = good
        /\ r.loaded = prep[o].loaded
    BY <1>1, <2>2 DEF Command, Points
  <2> HIDE DEF r
  <2>5. QED
    BY <2>2, <2>3, <2>4
<1>5. \A f \in Fixtures : Valid(staged[f])' /\ r.loaded[f] = staged'[f].body
  BY <1>2, <1>4 DEF Undisturbed, Valid, MeetsContract
<1>6. r.good => live' = NoDrops
  BY <1>2, <1>4 DEF Undisturbed, AfterDrops
<1>7. r.good => RowsArePristine(r.loaded)'
  BY <1>2, <1>4 DEF RowsArePristine
<1>8. QED
  BY <1>1, <1>2, <1>3, <1>4, <1>5, <1>6, <1>7, RightOn DEF Releases

\* What the checks found is what a receipt promises.
LEMMA ChecksAreEnough ==
    ASSUME DataInv, NEW o \in Operators, Undisturbed(o), prep[o].pc = "runs", prep[o].good,
           RunsArePristine, \A f \in Fixtures : prep[o].loaded[f] = prep[o].version
    PROVE  Pristine
<1>1. /\ BucketTyped /\ DataTyped /\ Posture /\ prep[o].version = local /\ live = NoDrops
      /\ \A f \in Fixtures : Valid(staged[f]) /\ prep[o].loaded[f] = staged[f].body
      /\ RowsArePristine(prep[o].loaded)
  BY DEF DataInv, Typed, Undisturbed, Releases, AfterDrops
<1>2. ASSUME NEW f \in Fixtures PROVE staged[f] = [body |-> local, hash |-> local]
  <2>1. staged[f] \in [body : Nat, hash : Nat] /\ staged[f].body = local /\ staged[f].hash = local
    BY <1>1 DEF BucketTyped, Valid
  <2>2. QED
    BY <2>1
<1>3. /\ {g.batch : g \in grants} = {Baseline} /\ reseed.versions = prep[o].loaded
      /\ landed = {Baseline} /\ approvals = {} /\ flags \subseteq grants
  BY <1>1 DEF RowsArePristine
<1>4. \A g \in grants : g.batch = Baseline /\ g.load = counts.loads
  BY <1>3 DEF DataInv, BaselineIsLoaded
<1>5. ASSUME InOrder
      PROVE  grants = {[batch |-> Baseline, load |-> counts.loads, version |-> local]}
  <2> DEFINE row == [batch |-> Baseline, load |-> counts.loads, version |-> local]
  <2>1. ASSUME NEW g \in grants PROVE g = row
    <3>1. g.version = reseed.versions[Baseline]
      BY <1>4, <1>5, <2>1 DEF DataInv, BaselineIsLoaded
    <3>2. g.version = local /\ g.batch = Baseline /\ g.load = counts.loads
      BY <1>1, <1>3, <1>4, <2>1, <3>1 DEF Fixtures
    <3>3. g \in Rows
      BY <1>1, <2>1 DEF DataTyped
    <3>4. QED
      BY <3>2, <3>3 DEF Rows
  <2>2. grants # {}
    BY <1>3
  <2> HIDE DEF row
  <2>3. grants = {row}
    BY <2>1, <2>2
  <2>4. QED
    BY <2>3 DEF row
<1>6. \E run \in runs : runs = {run} /\ links \subseteq [run : {run.id}, row : grants]
  <2>1. PICK run : runs = {run}
    BY <1>1, FS_Singleton DEF RunsArePristine, DataTyped
  <2>2. \A link \in links : link.run = run.id /\ link.row \in grants /\ link \in Links
    BY <1>1, <2>1 DEF RunsArePristine, RunIds, DataTyped
  <2>3. \A link \in links : link \in [run : {run.id}, row : grants]
    BY <2>2 DEF Links
  <2>4. QED
    BY <2>1, <2>3
<1>7. QED
  BY <1>1, <1>2, <1>3, <1>4, <1>5, <1>6 DEF Pristine, NoDrops

LEMMA RightCheckRuns ==
    ASSUME DataInv, NEW o \in Operators, receipt[o] = "none", Undisturbed(o), CheckRuns(o)
    PROVE  IsRight(o)'
<1>1. CommandsTyped /\ prep[o].pc = "runs"
  BY Zenon DEF DataInv, Typed, CheckRuns, At
<1>2. PICK said \in Said :
        /\ End(o, said)
        /\ said = "ready" => /\ prep[o].good /\ RunsArePristine
                             /\ \A f \in Fixtures : prep[o].loaded[f] = prep[o].version
  BY Zenon DEF CheckRuns, Said
<1>3. CASE said # "ready"
  BY <1>1, <1>2, <1>3, RightEnd
<1>4. CASE said = "ready"
  <2>1. Pristine
    BY <1>1, <1>2, <1>4, ChecksAreEnough
  <2>2. UNCHANGED <<identityVars, local, bucket, database, counts>>
    BY Zenon DEF CheckRuns, IdentitiesKept
  <2>3. Pristine'
    BY <2>1, <2>2 DEF Pristine, Posture, InPosture, InOrder, identityVars, bucket, database
  <2>4. prep'[o].pc = "idle"
    BY <1>1, <1>2, EndShape, NoCommandIsOne
  <2>5. QED
    BY <2>3, <2>4 DEF IsRight, Busy, At
<1>5. QED
  BY <1>3, <1>4

LEMMA RightStep ==
    ASSUME DataInv, NEW o \in Operators, receipt[o] = "none", Undisturbed(o), PrepareStep(o)
    PROVE  IsRight(o)'
BY RightSimple, RightStage, RightCheckDrops, RightLoadStaged, RightReset, RightAnalyse,
   RightContinue, RightFinish, RightCheckRows, RightCheckRuns
DEF PrepareStep

\* A step of the posture command of an operator that is alone.
LEMMA RightConfigure ==
    ASSUME IdentityInv, NEW o \in Operators, IsRight(o), IdentityStep(o)
    PROVE  /\ IsRight(o)' /\ ~Busy(o) /\ prep' = prep /\ receipt' = receipt
<1>1. UNCHANGED <<local, bucket, database, analyses, web, prep, receipt, counts>>
  BY DEF IdentityStep
<1>2. ~Busy(o)
  <2>1. CASE BeginConfigure(o) /\ At(o, "idle")
    BY <2>1 DEF Busy
  <2>2. CASE ConfigureStep(o) \/ ConfigureFails(o) \/ ConfigureKilled(o)
    <3>1. conf[o].pc # "idle"
      BY <2>2, Zenon
      DEF ConfigureStep, ConfigureFails, ConfigureKilled, LockAndLoad, EnsureAccount, EnsurePassword,
          LeaveGroups, JoinGroup, PasswordOnly, LoadPresenter, CreateClient, SignIn, Associate, Verify,
          PreferFactor, CompletePresenter, DeleteClient
    <3>2. QED
      BY <3>1 DEF IsRight, Undisturbed
  <2>3. QED
    BY <2>1, <2>2 DEF IdentityStep
<1>3. ASSUME Pristine PROVE Pristine'
  <2>1. Posture'
    BY <1>3, ConfigureKeepsPosture DEF Pristine, IdentityStep
  <2>2. UNCHANGED <<local, staged, live, grants, reseed, landed, approvals, flags, runs, links, counts>>
    BY <1>1 DEF bucket, database
  <2>3. QED
    BY <1>3, <2>1, <2>2 DEF Pristine, InOrder
<1>4. (~Busy(o))' /\ (receipt'[o] = "ready" => Pristine')
  BY <1>1, <1>2, <1>3 DEF Busy, At, IsRight
<1>5. QED
  BY <1>1, <1>2, <1>4 DEF IsRight

LEMMA RightBegin ==
    ASSUME DataInv, NEW o \in Operators, Prepare(o) \/ Check(o) \/ Release(o), alone'[o] # "no"
    PROVE  IsRight(o)'
<1>1. PICK cmd \in {"prepare", "check", "release", "redrop"}, todo \in SUBSET Fixtures,
           pc \in {"identities", "guard"} : BeginCommand(o, cmd, todo, pc)
  BY DEF Prepare, Check, Release, Fixtures
<1>2. CommandsTyped /\ local \in Nat
  BY DEF DataInv, Typed, BucketTyped
<1> DEFINE r == [NoCommand EXCEPT !.cmd = cmd, !.pc = pc, !.version = local, !.todo = todo]
<1>3. r \in Command /\ r.pc = pc /\ r.version = local
  BY <1>2, NoCommandIsOne DEF Command, Points, NoCommand
<1>4. /\ prep' = [prep EXCEPT ![o] = r] /\ receipt' = [receipt EXCEPT ![o] = "none"] /\ Quiet(o)
      /\ conf[o].pc = "idle"
      /\ UNCHANGED <<pool, conf, local, intakes, analyses, web>>
  BY <1>1 DEF BeginCommand, identityVars, bucket
<1> HIDE DEF r
<1>5. prep'[o] = r /\ (\A p \in Operators \ {o} : prep'[p] = prep[p]) /\ receipt'[o] = "none"
  BY <1>2, <1>3, <1>4, OneCommand DEF CommandsTyped
<1>6. /\ \A p \in Operators \ {o} : prep'[p].pc = "idle"
      /\ \A p \in Operators : conf'[p].pc = "idle"
      /\ intakes' = {} /\ web' = NoRelease /\ analyses' = {} /\ prep'[o].version = local'
  BY <1>3, <1>4, <1>5 DEF Quiet
<1>7. prep'[o].pc \notin AfterDrops /\ (prep'[o].pc \in Releases \cup {"identities"})
  BY <1>3, <1>5 DEF AfterDrops, Releases
<1>8. prep'[o].pc \notin {"rows", "runs"}
  BY <1>3, <1>5
<1>9. Undisturbed(o)'
  BY <1>6, <1>7, <1>8 DEF Undisturbed, NoDrops, NoRelease, Releases, AfterDrops
<1>10. QED
  BY <1>5, <1>9 DEF IsRight, Busy

\* Who is alone after a step has done it.
LEMMA WhoIsAlone ==
    ASSUME NEW o \in Operators, [Next]_vars, alone'[o] # "no"
    PROVE  \/ UNCHANGED vars
           \/ Prepare(o) \/ Check(o) \/ Release(o)
           \/ /\ PrepareStep(o) \/ IdentityStep(o) \/ CommandFails(o)
              /\ alone[o] # "no" /\ alone'[o] = alone[o] /\ troubles' = troubles
<1>1. CASE UNCHANGED vars
  BY <1>1
<1>2. CASE Others /\ Nothing
  BY <1>2 DEF Nothing
<1>3. ASSUME NEW p \in Operators, Prepare(p) \/ Check(p) \/ Release(p)
      PROVE  p = o
  BY <1>3, Zenon DEF Prepare, Check, Release, BeginCommand
<1>4. ASSUME NEW p \in Operators, Only(p)
      PROVE  p = o /\ alone[o] # "no" /\ alone'[o] = alone[o] /\ troubles' = troubles
  BY <1>4 DEF Only
<1>5. QED
  BY <1>1, <1>2, <1>3, <1>4 DEF Next

LEMMA NextAlone == IdentityInv /\ DataInv /\ AloneInv /\ [Next]_vars => AloneInv'
<1> SUFFICES ASSUME IdentityInv, DataInv, AloneInv, [Next]_vars,
                    NEW o \in Operators, alone'[o] # "no"
             PROVE  IsRight(o)'
  BY DEF AloneInv
<1>1. CASE UNCHANGED vars
  <2>1. IsRight(o)
    BY <1>1 DEF AloneInv, vars
  <2>2. QED
    BY <1>1, <2>1
    DEF vars, identityVars, bucket, database, IsRight, Undisturbed, Busy, At, Posture, InPosture, Pristine,
        InOrder, RowsArePristine, Valid, MeetsContract, NoDrops, NoRelease
<1>2. CASE Prepare(o) \/ Check(o) \/ Release(o)
  BY <1>2, RightBegin
<1>3. CASE PrepareStep(o) /\ alone[o] # "no"
  <2>1. Busy(o)
    BY <1>3, Zenon
    DEF Busy, At, PrepareStep, VerifyIdentities, Stage, ClearDrops, CheckDrops, Migrate, LoadStaged,
        BeginReset, DeleteAnalytics, LoadBaseline, ResetCollides, Analyse, ContinueAnalysis,
        FinishAnalysis, Waits, Finalize, CheckRows, CheckRuns, ReleaseGuard, ReleaseGet, ReleasePut
  <2>2. receipt[o] = "none" /\ Undisturbed(o)
    BY <1>3, <2>1 DEF AloneInv, IsRight
  <2>3. QED
    BY <1>3, <2>2, RightStep
<1>4. CASE IdentityStep(o) /\ alone[o] # "no"
  BY <1>4, RightConfigure DEF AloneInv
<1>5. CASE CommandFails(o)
  BY <1>5, RightEnd, WhatIsSaid DEF CommandFails, DataInv, Typed
<1>6. QED
  BY <1>1, <1>2, <1>3, <1>4, <1>5, WhoIsAlone

\* A command that says ready, and that nobody disturbed, is right in all its parts: what it
\* checks at the end, with what it found on the way, leaves out nothing (preflight of
\* migrator/demo_prep.py, for scripts/prepare_demo.py).
THEOREM ReadyMeansPristine == Spec => []ReadyIsTrue
<1>1. Init => AloneInv
  BY DEF Init, AloneInv
<1>2. AloneInv /\ PreparationInv => ReadyIsTrue
  <2> SUFFICES ASSUME AloneInv, PreparationInv, NEW o \in Operators, receipt[o] = "ready", alone[o] # "no"
               PROVE  Pristine
    BY DEF ReadyIsTrue
  <2>1. QED
    BY DEF AloneInv, IsRight
<1>3. PreparationInv /\ AloneInv /\ [Next]_vars => AloneInv'
  BY NextAlone DEF PreparationInv
<1>4. QED
  BY <1>1, <1>2, <1>3, PreparationInvariance, PTL DEF Spec

-----------------------------------------------------------------------------
(* The command that heals.                                                 *)

LEMMA SameButPoint ==
    ASSUME CommandsTyped, NEW o \in Operators, NEW pc \in Points, Proceed(o, pc)
    PROVE  /\ prep'[o].pc = pc /\ prep'[o].cmd = prep[o].cmd /\ prep'[o].good = prep[o].good
           /\ prep'[o].version = prep[o].version /\ prep'[o].todo = prep[o].todo
           /\ prep'[o].loaded = prep[o].loaded /\ prep'[o].at = prep[o].at
           /\ prep'[o].seen = prep[o].seen /\ prep'[o].links = prep[o].links
           /\ prep'[o].flags = prep[o].flags /\ prep'[o].analysis = prep[o].analysis
<1> DEFINE r == [prep[o] EXCEPT !.pc = pc]
<1>1. r \in Command /\ prep' = [prep EXCEPT ![o] = r]
  BY ProceedShape
<1>2. /\ r.pc = pc /\ r.cmd = prep[o].cmd /\ r.good = prep[o].good /\ r.version = prep[o].version
      /\ r.todo = prep[o].todo /\ r.loaded = prep[o].loaded /\ r.at = prep[o].at
      /\ r.seen = prep[o].seen /\ r.links = prep[o].links /\ r.flags = prep[o].flags
      /\ r.analysis = prep[o].analysis
  BY TheCommand DEF Command
<1> HIDE DEF r
<1>3. prep'[o] = r
  BY <1>1, OneCommand
<1>4. QED
  BY <1>2, <1>3

LEMMA TracesStay ==
    ASSUME Traces, UNCHANGED <<grants, landed, approvals, runs, links, flags>> PROVE Traces'
BY DEF Traces, OnlyDemoState, Orphans, Demo, RunIds

LEMMA FreshStays ==
    ASSUME Fresh, UNCHANGED <<grants, landed, approvals, reseed, local>>, counts'.loads = counts.loads
    PROVE  Fresh'
BY DEF Fresh

\* What a command that heals is in, to begin with, when it takes a step.
LEMMA HealVerify ==
    ASSUME DataInv, NEW o \in Operators, Heals(o), VerifyIdentities(o)
    PROVE  prep'[o].pc = "stage" /\ Heals(o)'
<1>1. CommandsTyped /\ prep[o].pc = "identities"
  BY DEF DataInv, Typed, VerifyIdentities, At
<1>2. Posture /\ prep[o].todo = Fixtures /\ prep[o].cmd = "prepare" /\ prep[o].good /\ Traces
  BY <1>1 DEF Heals
<1>3. Proceed(o, "stage")
  BY <1>2 DEF VerifyIdentities
<1>4. /\ prep'[o].pc = "stage" /\ prep'[o].cmd = "prepare" /\ prep'[o].good
      /\ prep'[o].todo = Fixtures
  BY <1>1, <1>2, <1>3, SameButPoint DEF Points
<1>5. Traces'
  BY <1>2, TracesStay DEF VerifyIdentities, database
<1>6. QED
  BY <1>4, <1>5 DEF Heals, AfterDrops, Releases

LEMMA HealStage ==
    ASSUME DataInv, NEW o \in Operators, Undisturbed(o), Heals(o), Stage(o)
    PROVE  prep'[o].pc \in {"stage", "clear"} /\ Heals(o)'
<1>1. CommandsTyped /\ BucketTyped /\ prep[o].pc = "stage" /\ prep[o].version = local
      /\ prep[o] \in Command
  BY TheCommand DEF DataInv, Typed, Stage, At, Undisturbed
<1>2. /\ \A f \in Fixtures \ prep[o].todo : staged[f] = Current[f]
      /\ prep[o].cmd = "prepare" /\ prep[o].good /\ Traces
  BY <1>1 DEF Heals
<1>3. PICK f \in Fixtures :
        /\ staged' = [staged EXCEPT ![f] = [body |-> local, hash |-> prep[o].version]]
        /\ prep' = [prep EXCEPT ![o] = [prep[o] EXCEPT !.todo = prep[o].todo \ {f},
                                            !.pc = IF prep[o].todo = {f} THEN "clear" ELSE "stage"]]
  <2>1. prep[o].todo \subseteq Fixtures
    BY <1>1, TheCommand
  <2>2. QED
    BY <1>1, <2>1, Zenon DEF Stage, CommandsTyped
<1> DEFINE rest == prep[o].todo \ {f}
           pc   == IF prep[o].todo = {f} THEN "clear" ELSE "stage"
           r    == [prep[o] EXCEPT !.todo = rest, !.pc = pc]
<1>4. rest \in SUBSET Fixtures /\ pc \in {"clear", "stage"} /\ (pc = "clear" => rest = {})
  BY <1>1, TheCommand
<1>5. prep' = [prep EXCEPT ![o] = r]
  BY <1>3
<1>6. \A g \in Fixtures \ rest : staged'[g] = Current[g]
  BY <1>1, <1>2, <1>3 DEF BucketTyped, Current
<1> HIDE DEF rest, pc
<1>7. r \in Command /\ r.pc = pc /\ r.cmd = "prepare" /\ r.good /\ r.todo = rest
  BY <1>1, <1>2, <1>4 DEF Command, Points
<1> HIDE DEF r
<1>8. prep'[o].pc = pc /\ prep'[o].cmd = "prepare" /\ prep'[o].good /\ prep'[o].todo = rest
  BY <1>1, <1>5, <1>7, OneCommand
<1>9. /\ local' = local /\ staged' \in [Fixtures -> [body : Nat, hash : Nat]]
      /\ UNCHANGED <<grants, landed, approvals, runs, links, flags>>
  <2>1. local' = local /\ UNCHANGED database
    BY Zenon DEF Stage, IdentitiesKept
  <2>2. [body |-> local, hash |-> prep[o].version] \in [body : Nat, hash : Nat]
    BY <1>1 DEF BucketTyped
  <2>3. staged' \in [Fixtures -> [body : Nat, hash : Nat]]
    BY <1>1, <1>3, <2>2 DEF BucketTyped
  <2>4. QED
    BY <2>1, <2>3 DEF database
<1>10. Traces'
  BY <1>2, <1>9, TracesStay
<1>11. Current' = Current
  BY <1>9 DEF Current
<1>12. pc = "clear" => staged' = Current'
  BY <1>4, <1>6, <1>9, <1>11 DEF Current
<1>13. QED
  BY <1>4, <1>6, <1>8, <1>10, <1>11, <1>12 DEF Heals, AfterDrops, Releases

\* The steps of a command that heals up to the reset.
LEMMA HealClear ==
    ASSUME DataInv, NEW o \in Operators, Undisturbed(o), Heals(o), troubles \in Nat, troubles' = troubles,
           ClearDrops(o) \/ CheckDrops(o) \/ Migrate(o)
    PROVE  prep'[o].pc \in {"drops", "migrate", "reset"} /\ Heals(o)'
<1>1. /\ CommandsTyped /\ prep[o].pc \in {"clear", "drops", "migrate"}
      /\ prep[o].cmd = "prepare" /\ prep[o].good
  BY DEF DataInv, Typed, ClearDrops, CheckDrops, Migrate, At, Heals
<1>2. staged = Current /\ Traces
  BY <1>1 DEF Heals, AfterDrops
<1>3. /\ UNCHANGED <<local, staged, grants, landed, approvals, runs, links, flags>>
  BY DEF ClearDrops, CheckDrops, Migrate, IdentitiesKept, bucket, database
<1>4. Traces' /\ staged' = Current'
  BY <1>2, <1>3, TracesStay DEF Current
<1>5. CASE ClearDrops(o)
  <2>1. Proceed(o, "drops") /\ live' = NoDrops
    BY <1>5 DEF ClearDrops, Trouble, NoDrops
  <2>2. prep'[o].pc = "drops" /\ prep'[o].cmd = "prepare" /\ prep'[o].good
    BY <1>1, <2>1, SameButPoint DEF Points
  <2>3. live' = NoDrops'
    BY <2>1 DEF NoDrops
  <2>4. QED
    BY <1>4, <2>2, <2>3 DEF Heals, AfterDrops, Releases
<1>6. CASE CheckDrops(o)
  <2>1. live = NoDrops
    BY <1>6 DEF CheckDrops, At, Heals
  <2>2. Proceed(o, "migrate")
    BY <1>1, <1>6, <2>1 DEF CheckDrops, NoDrops
  <2>3. prep'[o].pc = "migrate" /\ prep'[o].cmd = "prepare" /\ prep'[o].good
    BY <1>1, <2>2, SameButPoint DEF Points
  <2>4. QED
    BY <1>4, <2>3 DEF Heals, AfterDrops, Releases
<1>7. CASE Migrate(o)
  <2>1. Proceed(o, "reset") /\ migrated'
    BY <1>7 DEF Migrate
  <2>2. prep'[o].pc = "reset" /\ prep'[o].cmd = "prepare" /\ prep'[o].good
    BY <1>1, <2>1, SameButPoint DEF Points
  <2>3. QED
    BY <1>4, <2>1, <2>2 DEF Heals, AfterDrops, Releases
<1>8. QED
  BY <1>5, <1>6, <1>7

LEMMA HealLoadStaged ==
    ASSUME DataInv, NEW o \in Operators, Heals(o), LoadStaged(o)
    PROVE  prep'[o].pc \in {"begin", "rows"} /\ Heals(o)'
<1>1. /\ CommandsTyped /\ BucketTyped /\ prep[o] \in Command /\ prep[o].pc \in {"reset", "preflight"}
      /\ local \in Nat \ {0}
  BY TheCommand DEF DataInv, Typed, LoadStaged, BucketTyped
<1>2. /\ prep[o].cmd = "prepare" /\ prep[o].good /\ staged = Current /\ migrated
      /\ prep[o].pc = "reset" => Traces
      /\ prep[o].pc = "preflight" => Fresh /\ Analysed(o, TRUE)
  BY <1>1 DEF Heals, AfterDrops
<1>3. UNCHANGED <<local, staged, migrated, grants, landed, approvals, runs, links, flags, reseed, counts>>
  BY DEF LoadStaged, IdentitiesKept, bucket, database
<1>4. \A f \in Fixtures : Valid(staged[f]) /\ staged[f].body = local
  BY <1>1, <1>2 DEF Current, Valid, MeetsContract
<1> DEFINE now == [f \in Fixtures |-> staged[f].body]
           pc  == IF prep[o].pc = "reset" THEN "begin" ELSE "rows"
           r   == [prep[o] EXCEPT !.loaded = now, !.pc = pc]
<1>5. prep' = [prep EXCEPT ![o].loaded = now, ![o].pc = IF @ = "reset" THEN "begin" ELSE "rows"]
  BY <1>2, <1>4 DEF LoadStaged
<1>6. /\ now \in [Fixtures -> Nat] /\ pc \in {"begin", "rows"} /\ now = [f \in Fixtures |-> local]
      /\ pc = "begin" <=> prep[o].pc = "reset"
  BY <1>1, <1>4
<1>7. prep' = [prep EXCEPT ![o] = r]
  BY <1>1, <1>5 DEF CommandsTyped, Command
<1> HIDE DEF now, pc
<1>8. /\ r \in Command /\ r.pc = pc /\ r.cmd = "prepare" /\ r.good /\ r.loaded = now
      /\ r.analysis = prep[o].analysis
  BY <1>1, <1>2, <1>6 DEF Command, Points
<1> HIDE DEF r
<1>9. /\ prep'[o].pc = pc /\ prep'[o].cmd = "prepare" /\ prep'[o].good
      /\ prep'[o].loaded = [f \in Fixtures |-> local'] /\ prep'[o].analysis = prep[o].analysis
  BY <1>1, <1>3, <1>6, <1>7, <1>8, OneCommand
<1>10. staged' = Current' /\ migrated'
  BY <1>2, <1>3 DEF Current
<1>11. CASE pc = "begin"
  <2>1. Traces'
    BY <1>2, <1>3, <1>6, <1>11, TracesStay
  <2>2. QED
    BY <1>9, <1>10, <1>11, <2>1 DEF Heals, AfterDrops, Releases
<1>12. CASE pc = "rows"
  <2>1. Fresh' /\ Analysed(o, TRUE)'
    <3>1. Fresh'
      BY <1>1, <1>2, <1>3, <1>6, <1>12, FreshStays
    <3>2. Analysed(o, TRUE)
      BY <1>1, <1>2, <1>6, <1>12
    <3>3. QED
      BY <1>3, <1>9, <3>1, <3>2 DEF Analysed, TheRun
  <2>2. QED
    BY <1>9, <1>10, <1>12, <2>1 DEF Heals, AfterDrops, Releases
<1>13. QED
  BY <1>6, <1>11, <1>12

LEMMA HealBeginReset ==
    ASSUME DataInv, NEW o \in Operators, Heals(o), BeginReset(o)
    PROVE  prep'[o].pc = "delete" /\ Heals(o)'
<1>1. /\ CommandsTyped /\ DataTyped /\ prep[o] \in Command /\ prep[o].pc = "begin"
  BY TheCommand DEF DataInv, Typed, BeginReset, At
<1>2. /\ prep[o].cmd = "prepare" /\ prep[o].good /\ staged = Current /\ migrated
      /\ Traces /\ prep[o].loaded = [f \in Fixtures |-> local]
  BY <1>1 DEF Heals, AfterDrops
<1>3. UNCHANGED <<local, staged, migrated, grants, landed, approvals, runs, links, flags, reseed>>
  BY DEF BeginReset, IdentitiesKept, bucket, database
<1> DEFINE seen == {run.id : run \in {run \in runs : run.by \in DemoActors}}
           at == counts'.resets
           r == [prep[o] EXCEPT !.pc = "delete", !.at = at, !.seen = seen]
<1>4. prep' = [prep EXCEPT ![o] = r]
  BY <1>1, <1>2, Zenon DEF BeginReset, CommandsTyped, Traces
<1>5. at \in Nat /\ at > reseed.at
  <2>1. counts' = [counts EXCEPT !.resets = @ + 1]
    BY DEF BeginReset
  <2>2. at = counts.resets + 1 /\ counts.resets \in Nat /\ reseed.at \in Nat
    BY <1>1, <2>1 DEF DataTyped
  <2>3. reseed.at <= counts.resets
    BY DEF DataInv, BaselineIsLoaded
  <2>4. QED
    BY <2>2, <2>3
<1>6. RunIds \subseteq seen /\ seen \subseteq Nat
  <2>1. \A run \in runs : run.by \in DemoActors /\ run.id \in Nat
    BY <1>1, <1>2 DEF Traces, OnlyDemoState, DataTyped, RunRecords
  <2>2. QED
    BY <2>1 DEF RunIds
<1> HIDE DEF seen, at
<1>7. /\ r \in Command /\ r.pc = "delete" /\ r.cmd = "prepare" /\ r.good /\ r.at = at /\ r.seen = seen
      /\ r.loaded = prep[o].loaded
  BY <1>1, <1>2, <1>5, <1>6 DEF Command, Points
<1> HIDE DEF r
<1>8. prep'[o] = r
  BY <1>1, <1>4, <1>7, OneCommand
<1>9. /\ prep'[o].pc = "delete" /\ prep'[o].cmd = "prepare" /\ prep'[o].good
      /\ prep'[o].at > reseed'.at /\ RunIds' \subseteq prep'[o].seen
      /\ prep'[o].loaded = [f \in Fixtures |-> local']
  BY <1>2, <1>3, <1>5, <1>6, <1>7, <1>8 DEF RunIds
<1>10. staged' = Current' /\ migrated' /\ Traces'
  BY <1>2, <1>3, TracesStay DEF Current
<1>11. QED
  BY <1>9, <1>10 DEF Heals, AfterDrops, Releases

LEMMA HealDelete ==
    ASSUME DataInv, NEW o \in Operators, Heals(o), DeleteAnalytics(o)
    PROVE  prep'[o].pc = "load" /\ Heals(o)'
<1>1. /\ CommandsTyped /\ DataTyped /\ prep[o] \in Command /\ prep[o].pc = "delete"
  BY TheCommand DEF DataInv, Typed, DeleteAnalytics, At
<1>2. /\ prep[o].cmd = "prepare" /\ prep[o].good /\ staged = Current /\ migrated
      /\ Traces /\ prep[o].loaded = [f \in Fixtures |-> local]
      /\ prep[o].at > reseed.at /\ RunIds \subseteq prep[o].seen
  BY <1>1 DEF Heals, AfterDrops
<1>3. UNCHANGED <<local, staged, migrated, grants, landed, approvals, runs, links, flags, reseed>>
  BY DEF DeleteAnalytics, IdentitiesKept, bucket, database
<1> DEFINE gone == {l \in links : l.row \in Demo(grants) \/ l.run \in prep[o].seen}
           flat == flags \cap Demo(grants)
           r == [prep[o] EXCEPT !.pc = "load", !.links = gone, !.flags = flat]
<1>4. prep' = [prep EXCEPT ![o] = r]
  BY <1>1, Zenon DEF DeleteAnalytics, CommandsTyped
<1>5. gone \subseteq Links /\ flat \subseteq Rows /\ links \subseteq gone /\ flags \subseteq flat
  BY <1>1, <1>2 DEF DataTyped, Traces, OnlyDemoState, Orphans
<1> HIDE DEF gone, flat
<1>6. /\ r \in Command /\ r.pc = "load" /\ r.cmd = "prepare" /\ r.good /\ r.at = prep[o].at
      /\ r.seen = prep[o].seen /\ r.loaded = prep[o].loaded /\ r.links = gone /\ r.flags = flat
  BY <1>1, <1>2, <1>5 DEF Command, Points
<1> HIDE DEF r
<1>7. prep'[o] = r
  BY <1>1, <1>4, <1>6, OneCommand
<1>8. /\ prep'[o].pc = "load" /\ prep'[o].cmd = "prepare" /\ prep'[o].good
      /\ prep'[o].at > reseed'.at /\ RunIds' \subseteq prep'[o].seen
      /\ prep'[o].loaded = [f \in Fixtures |-> local']
      /\ links' \subseteq prep'[o].links /\ flags' \subseteq prep'[o].flags
  BY <1>2, <1>3, <1>5, <1>6, <1>7 DEF RunIds
<1>9. staged' = Current' /\ migrated' /\ Traces'
  BY <1>2, <1>3, TracesStay DEF Current
<1>10. QED
  BY <1>8, <1>9 DEF Heals, AfterDrops, Releases

LEMMA HealLoad ==
    ASSUME DataInv, NEW o \in Operators, Heals(o), LoadBaseline(o)
    PROVE  prep'[o].pc = "analyse" /\ Heals(o)'
<1>1. CommandsTyped /\ DataTyped /\ prep[o].pc = "load" /\ Proceed(o, "analyse")
  BY DEF DataInv, Typed, LoadBaseline, At
<1>2. /\ prep[o].cmd = "prepare" /\ prep[o].good /\ staged = Current /\ migrated
      /\ Traces /\ prep[o].loaded = [f \in Fixtures |-> local]
      /\ prep[o].at > reseed.at /\ RunIds \subseteq prep[o].seen
      /\ links \subseteq prep[o].links /\ flags \subseteq prep[o].flags
  BY <1>1 DEF Heals, AfterDrops
<1>3. UNCHANGED <<local, staged, migrated>>
  BY DEF LoadBaseline, IdentitiesKept, bucket
<1>4. /\ prep'[o].pc = "analyse" /\ prep'[o].cmd = "prepare" /\ prep'[o].good
      /\ prep'[o].loaded = prep[o].loaded
  BY <1>1, <1>2, SameButPoint DEF Points
<1>5. runs' = {} /\ links' = {} /\ flags' = {}
  BY <1>2 DEF LoadBaseline, RunIds
<1>6. Fresh'
  <2>1. \A g \in grants : Owned(g)
    BY <1>1, <1>2, NotOwned DEF Traces, OnlyDemoState, Demo
  <2>2. ASSUME NEW a \in approvals PROVE Owned(a)
    <3>1. DOMAIN a = {"by", "subject"}
      BY <1>1 DEF DataTyped
    <3>2. QED
      BY <1>2, <3>1 DEF Owned, Traces, OnlyDemoState
  <2>3. approvals' = {}
    BY <2>2 DEF LoadBaseline
  <2> DEFINE load == counts.loads + 1
  <2>4. counts'.loads = load
    <3>1. counts' = [counts EXCEPT !.loads = load]
      BY DEF LoadBaseline
    <3>2. QED
      BY <1>1, <3>1 DEF DataTyped
  <2>5. /\ grants' = {g \in grants : ~Owned(g)} \cup
                     {[batch |-> Baseline, load |-> load, version |-> prep[o].loaded[Baseline]]}
        /\ reseed' = IF prep[o].at > reseed.at
                     THEN [at |-> prep[o].at, load |-> load, versions |-> prep[o].loaded] ELSE reseed
        /\ landed' = (landed \ DemoBatches) \cup {Baseline}
    BY DEF LoadBaseline
  <2> HIDE DEF load
  <2>6. prep[o].loaded[Baseline] = local
    BY <1>2 DEF Fixtures
  <2>7. grants' = {[batch |-> Baseline, load |-> counts'.loads, version |-> local']}
    BY <1>3, <2>1, <2>4, <2>5, <2>6
  <2>8. landed' = {Baseline}
    BY <1>2, <2>5 DEF Traces, OnlyDemoState
  <2>9. reseed'.versions = [f \in Fixtures |-> local']
    BY <1>2, <1>3, <2>5
  <2>10. QED
    BY <2>3, <2>7, <2>8, <2>9 DEF Fresh
<1>7. staged' = Current' /\ migrated' /\ prep'[o].loaded = [f \in Fixtures |-> local']
  BY <1>2, <1>3, <1>4 DEF Current
<1>8. QED
  BY <1>4, <1>5, <1>6, <1>7 DEF Heals, AfterDrops, Releases

LEMMA HealAnalyse ==
    ASSUME DataInv, NEW o \in Operators, Undisturbed(o), Heals(o), Analyse(o)
    PROVE  prep'[o].pc = "analysing" /\ Heals(o)'
<1>1. /\ CommandsTyped /\ DataTyped /\ prep[o] \in Command /\ prep[o].pc = "analyse"
  BY TheCommand DEF DataInv, Typed, Analyse, At
<1>2. /\ prep[o].cmd = "prepare" /\ prep[o].good /\ staged = Current /\ migrated
      /\ Fresh /\ prep[o].loaded = [f \in Fixtures |-> local]
      /\ runs = {} /\ links = {} /\ flags = {}
  BY <1>1 DEF Heals, AfterDrops
<1>3. UNCHANGED <<local, staged, migrated, grants, landed, approvals, runs, links, flags, reseed>>
  BY DEF Analyse, IdentitiesKept, bucket, database
<1> DEFINE n == counts'.analyses
           r == [prep[o] EXCEPT !.pc = "analysing", !.analysis = n]
<1>4. prep' = [prep EXCEPT ![o] = r]
  BY <1>1, Zenon DEF Analyse, CommandsTyped
<1>5. /\ n \in Nat /\ counts'.loads = counts.loads
      /\ analyses' = {[id |-> n, by |-> "preparer", pc |-> "amounts", rows |-> grants, amounts |-> {}]}
  <2>1. analyses = {}
    BY <1>1, NobodyAnalyses
  <2>2. counts' = [counts EXCEPT !.analyses = @ + 1]
        /\ analyses' = analyses \cup {[id |-> n, by |-> "preparer", pc |-> "amounts",
                                       rows |-> grants, amounts |-> {}]}
    BY DEF Analyse, BeginAnalysis
  <2>3. QED
    BY <1>1, <2>1, <2>2 DEF DataTyped
<1> HIDE DEF n
<1>6. /\ r \in Command /\ r.pc = "analysing" /\ r.cmd = "prepare" /\ r.good /\ r.analysis = n
      /\ r.loaded = prep[o].loaded
  BY <1>1, <1>2, <1>5 DEF Command, Points
<1> HIDE DEF r
<1>7. prep'[o] = r
  BY <1>1, <1>4, <1>6, OneCommand
<1>8. /\ prep'[o].pc = "analysing" /\ prep'[o].cmd = "prepare" /\ prep'[o].good
      /\ prep'[o].loaded = [f \in Fixtures |-> local']
      /\ analyses' = {TheAnalysis(o, "amounts", {})'}
      /\ runs' = {} /\ links' = {} /\ flags' = {}
  BY <1>2, <1>3, <1>5, <1>6, <1>7 DEF TheAnalysis
<1>9. staged' = Current' /\ migrated' /\ Fresh'
  BY <1>2, <1>3, <1>5, FreshStays DEF Current
<1>10. QED
  BY <1>8, <1>9 DEF Heals, AfterDrops, Releases

LEMMA HealContinue ==
    ASSUME DataInv, NEW o \in Operators, Heals(o), ContinueAnalysis(o)
    PROVE  prep'[o].pc = "analysing" /\ Heals(o)'
<1>1. PICK a \in analyses : Waits(o, a) /\ ReadAmounts(a)
  BY DEF ContinueAnalysis
<1>2. /\ UNCHANGED <<local, staged, migrated, grants, landed, approvals, runs, links, flags, reseed,
                     counts, prep>>
      /\ prep[o].pc = "analysing"
      /\ a.pc = "amounts" /\ analyses' = (analyses \ {a}) \cup {[a EXCEPT !.pc = "write", !.amounts = grants]}
  BY <1>1 DEF ReadAmounts, IdentitiesKept, bucket, database, Waits, At
<1>3. /\ prep[o].cmd = "prepare" /\ prep[o].good /\ staged = Current /\ migrated
      /\ Fresh /\ prep[o].loaded = [f \in Fixtures |-> local]
      /\ runs = {} /\ links = {} /\ flags = {}
      /\ analyses = {TheAnalysis(o, "amounts", {})} \/ analyses = {TheAnalysis(o, "write", grants)}
  BY <1>2 DEF Heals, AfterDrops
<1>4. a = TheAnalysis(o, "amounts", {}) /\ analyses = {a}
  BY <1>2, <1>3 DEF TheAnalysis
<1>5. [a EXCEPT !.pc = "write", !.amounts = grants] = TheAnalysis(o, "write", grants)
  <2> DEFINE b == [a EXCEPT !.pc = "write", !.amounts = grants]
  <2>1. /\ a \in AnalysisRecords /\ grants \in SUBSET Rows
        /\ a.id = prep[o].analysis /\ a.by = "preparer" /\ a.rows = grants
    BY <1>4 DEF TheAnalysis, DataInv, Typed, DataTyped
  <2>2. /\ b \in AnalysisRecords /\ b.pc = "write" /\ b.amounts = grants
        /\ b.id = a.id /\ b.by = a.by /\ b.rows = a.rows
    BY <2>1 DEF AnalysisRecords
  <2>3. TheAnalysis(o, "write", grants) \in AnalysisRecords
    BY <2>1 DEF TheAnalysis, AnalysisRecords
  <2> HIDE DEF b
  <2>4. QED
    BY <2>1, <2>2, <2>3 DEF TheAnalysis, AnalysisRecords
<1>6. analyses' = {TheAnalysis(o, "write", grants)}
  BY <1>2, <1>4, <1>5
<1>7. TheAnalysis(o, "write", grants)' = TheAnalysis(o, "write", grants)
  BY <1>2 DEF TheAnalysis
<1>8. staged' = Current' /\ Fresh'
  BY <1>2, <1>3, FreshStays DEF Current
<1>9. QED
  BY <1>2, <1>3, <1>6, <1>7, <1>8 DEF Heals, AfterDrops, Releases

LEMMA HealFinish ==
    ASSUME DataInv, NEW o \in Operators, Heals(o), FinishAnalysis(o)
    PROVE  prep'[o].pc = "finalize" /\ Heals(o)'
<1>1. PICK a \in analyses : /\ Waits(o, a) /\ CommitAnalysis(a)
                            /\ IF Exact(a.rows) THEN Proceed(o, "finalize") ELSE End(o, "error")
  BY DEF FinishAnalysis
<1>2. CommandsTyped /\ prep[o].pc = "analysing"
  BY <1>1 DEF DataInv, Typed, Waits, At
<1>3. /\ prep[o].cmd = "prepare" /\ prep[o].good /\ staged = Current /\ migrated
      /\ Fresh /\ prep[o].loaded = [f \in Fixtures |-> local]
      /\ runs = {} /\ links = {} /\ flags = {}
      /\ analyses = {TheAnalysis(o, "amounts", {})} \/ analyses = {TheAnalysis(o, "write", grants)}
  BY <1>2 DEF Heals, AfterDrops
<1>4. a.id = prep[o].analysis /\ a.by = "preparer" /\ a.rows = grants /\ a.amounts = grants
  BY <1>1, <1>3 DEF TheAnalysis, CommitAnalysis
<1>5. Exact(grants)
  BY <1>3 DEF Exact, Fresh
<1>6. UNCHANGED <<local, staged, migrated, grants, landed, approvals, reseed, counts>>
  BY <1>1 DEF CommitAnalysis, IdentitiesKept, bucket
<1>7. /\ prep'[o].pc = "finalize" /\ prep'[o].cmd = "prepare" /\ prep'[o].good
      /\ prep'[o].loaded = prep[o].loaded /\ prep'[o].analysis = prep[o].analysis
  BY <1>1, <1>2, <1>3, <1>4, <1>5, SameButPoint DEF Points
<1>8. Analysed(o, FALSE)'
  <2>1. /\ runs' = runs \cup {[id |-> a.id, by |-> a.by, exact |-> Exact(a.rows), tagged |-> FALSE]}
        /\ links' = links \cup [run : {a.id}, row : a.rows] /\ flags' = flags \cup a.amounts
    BY <1>1 DEF CommitAnalysis
  <2>2. Exact(a.rows) = TRUE
    BY <1>4, <1>5 DEF Exact
  <2>3. runs' = {[id |-> prep[o].analysis, by |-> "preparer", exact |-> TRUE, tagged |-> FALSE]}
    BY <1>3, <1>4, <2>1, <2>2
  <2>4. links' = [run : {prep[o].analysis}, row : grants] /\ flags' = grants
    BY <1>3, <1>4, <2>1
  <2>5. QED
    BY <1>6, <1>7, <2>3, <2>4 DEF Analysed, TheRun
<1>9. staged' = Current' /\ migrated' /\ Fresh' /\ prep'[o].loaded = [f \in Fixtures |-> local']
  BY <1>3, <1>6, <1>7, FreshStays DEF Current
<1>10. QED
  BY <1>7, <1>8, <1>9 DEF Heals, AfterDrops, Releases

LEMMA HealFinalize ==
    ASSUME DataInv, NEW o \in Operators, Heals(o), Finalize(o)
    PROVE  prep'[o].pc = "preflight" /\ Heals(o)'
<1>1. CommandsTyped /\ prep[o].pc = "finalize"
  BY DEF DataInv, Typed, Finalize, At
<1>2. /\ prep[o].cmd = "prepare" /\ prep[o].good /\ staged = Current /\ migrated
      /\ Fresh /\ Analysed(o, FALSE)
  BY <1>1 DEF Heals, AfterDrops
<1>3. UNCHANGED <<local, staged, migrated, grants, landed, approvals, reseed, links, flags, counts>>
  BY DEF Finalize, IdentitiesKept, bucket
<1> DEFINE n == prep[o].analysis
           old == [id |-> n, by |-> "preparer", exact |-> TRUE, tagged |-> FALSE]
           row == [batch |-> Baseline, load |-> counts.loads, version |-> local]
<1>4. runs = {old} /\ links = [run : {n}, row : grants] /\ flags = grants /\ row \in grants
  BY <1>2 DEF Analysed, TheRun, Fresh
<1>5. \E link \in links : link.run \in RunIds /\ link.run = n
  <2>1. [run |-> n, row |-> row] \in links
    BY <1>4
  <2>2. old \in runs /\ old.id = n
    BY <1>4
  <2>3. n \in RunIds
    BY <2>2 DEF RunIds
  <2>4. QED
    BY <2>1, <2>3
<1>6. \E run \in runs : /\ runs' = (runs \ {run}) \cup {[run EXCEPT !.tagged = TRUE]}
                        /\ Proceed(o, "preflight")
  BY <1>5 DEF Finalize
<1>7. runs' = {[id |-> n, by |-> "preparer", exact |-> TRUE, tagged |-> TRUE]}
      /\ Proceed(o, "preflight")
  <2> DEFINE new == [id |-> n, by |-> "preparer", exact |-> TRUE, tagged |-> TRUE]
  <2>1. [old EXCEPT !.tagged = TRUE] = new
    <3>1. n \in Nat
      BY <1>1, TheCommand
    <3>2. old \in RunRecords /\ new \in RunRecords
      BY <3>1 DEF RunRecords
    <3> DEFINE up == [old EXCEPT !.tagged = TRUE]
    <3>3. up \in RunRecords /\ up.id = n /\ up.by = "preparer" /\ up.exact = TRUE /\ up.tagged = TRUE
      BY <3>2 DEF RunRecords
    <3>4. new.id = n /\ new.by = "preparer" /\ new.exact = TRUE /\ new.tagged = TRUE
      OBVIOUS
    <3> HIDE DEF up, new
    <3>5. up = new
      BY <3>2, <3>3, <3>4 DEF RunRecords
    <3>6. QED
      BY <3>5 DEF up
  <2>2. runs' = (runs \ {old}) \cup {[old EXCEPT !.tagged = TRUE]} /\ Proceed(o, "preflight")
    BY <1>4, <1>6
  <2>3. runs = {old}
    BY <1>4
  <2> HIDE DEF new, old
  <2>4. runs' = {new}
    BY <2>1, <2>2, <2>3
  <2>5. QED
    BY <2>2, <2>4 DEF new
<1>8. /\ prep'[o].pc = "preflight" /\ prep'[o].cmd = "prepare" /\ prep'[o].good
      /\ prep'[o].analysis = prep[o].analysis
  BY <1>1, <1>2, <1>7, SameButPoint DEF Points
<1>9. Analysed(o, TRUE)'
  BY <1>3, <1>4, <1>7, <1>8 DEF Analysed, TheRun
<1>10. staged' = Current' /\ migrated' /\ Fresh'
  BY <1>2, <1>3, FreshStays DEF Current
<1>11. QED
  BY <1>8, <1>9, <1>10 DEF Heals, AfterDrops, Releases

LEMMA FreshIsPristine ==
    ASSUME NEW o \in Operators, Fresh, Analysed(o, TRUE), prep[o].loaded = [f \in Fixtures |-> local]
    PROVE  RowsArePristine(prep[o].loaded) /\ RunsArePristine
<1>1. RowsArePristine(prep[o].loaded)
  BY DEF Fresh, Analysed, RowsArePristine
<1>2. RunsArePristine
  <2> DEFINE run == TheRun(o, TRUE)
  <2>1. runs = {run} /\ links = [run : {prep[o].analysis}, row : grants]
    BY DEF Analysed
  <2>2. run.id = prep[o].analysis /\ run.tagged /\ run.exact
    BY DEF TheRun
  <2> HIDE DEF run
  <2>3. Cardinality(runs) = 1
    BY <2>1, FS_Singleton
  <2>4. RunIds = {prep[o].analysis}
    BY <2>1, <2>2 DEF RunIds
  <2>5. \A link \in links : link.run \in RunIds /\ link.row \in grants
    BY <2>1, <2>4
  <2>6. QED
    BY <2>1, <2>2, <2>3, <2>5 DEF RunsArePristine
<1>3. QED
  BY <1>1, <1>2

LEMMA HealCheckRows ==
    ASSUME DataInv, NEW o \in Operators, Heals(o), CheckRows(o)
    PROVE  prep'[o].pc = "runs" /\ Heals(o)'
<1>1. CommandsTyped /\ prep[o] \in Command /\ prep[o].pc = "rows"
  BY TheCommand DEF DataInv, Typed, CheckRows, At
<1>2. /\ prep[o].cmd = "prepare" /\ prep[o].good /\ staged = Current /\ migrated
      /\ prep[o].loaded = [f \in Fixtures |-> local] /\ Fresh /\ Analysed(o, TRUE)
  BY <1>1 DEF Heals, AfterDrops
<1>3. UNCHANGED <<local, staged, migrated, grants, landed, approvals, runs, links, flags, reseed, counts>>
  BY DEF CheckRows, IdentitiesKept, bucket, database
<1> DEFINE good == prep[o].good /\ RowsArePristine(prep[o].loaded)
           r == [prep[o] EXCEPT !.pc = "runs", !.good = good]
<1>4. prep' = [prep EXCEPT ![o].good = good, ![o].pc = "runs"]
  BY DEF CheckRows
<1>5. good \in BOOLEAN /\ good
  BY <1>2, FreshIsPristine
<1> HIDE DEF good
<1>6. prep' = [prep EXCEPT ![o] = r]
  BY <1>1, <1>4 DEF CommandsTyped, Command
<1>7. /\ r \in Command /\ r.pc = "runs" /\ r.cmd = "prepare" /\ r.good
      /\ r.loaded = prep[o].loaded /\ r.analysis = prep[o].analysis
  BY <1>1, <1>2, <1>5 DEF Command, Points
<1> HIDE DEF r
<1>8. /\ prep'[o].pc = "runs" /\ prep'[o].cmd = "prepare" /\ prep'[o].good
      /\ prep'[o].loaded = [f \in Fixtures |-> local'] /\ prep'[o].analysis = prep[o].analysis
  BY <1>1, <1>2, <1>3, <1>6, <1>7, OneCommand
<1>9. Analysed(o, TRUE)'
  BY <1>2, <1>3, <1>8 DEF Analysed, TheRun
<1>10. staged' = Current' /\ migrated' /\ Fresh'
  BY <1>2, <1>3, FreshStays DEF Current
<1>11. QED
  BY <1>8, <1>9, <1>10 DEF Heals, AfterDrops, Releases

LEMMA HealCheckRuns ==
    ASSUME DataInv, NEW o \in Operators, Undisturbed(o), Heals(o), CheckRuns(o)
    PROVE  prep'[o].pc = "idle" /\ receipt'[o] = "ready"
<1>1. CommandsTyped /\ prep[o].pc = "runs"
  BY Zenon DEF DataInv, Typed, CheckRuns, At
<1>2. /\ prep[o].good /\ prep[o].loaded = [f \in Fixtures |-> local] /\ prep[o].version = local
      /\ Fresh /\ Analysed(o, TRUE)
  BY <1>1 DEF Heals, Undisturbed
<1>3. RunsArePristine /\ \A f \in Fixtures : prep[o].loaded[f] = prep[o].version
  BY <1>2, FreshIsPristine
<1>4. End(o, "ready")
  BY <1>2, <1>3, Zenon DEF CheckRuns
<1>5. QED
  BY <1>1, <1>4, EndShape, NoCommandIsOne, WhatIsSaid

LEMMA HealStep ==
    ASSUME DataInv, NEW o \in Operators, Undisturbed(o), Heals(o), Busy(o), PrepareStep(o),
           troubles \in Nat, troubles' = troubles
    PROVE  IsHealing(o)'
<1>1. CASE \/ VerifyIdentities(o) \/ Stage(o) \/ ClearDrops(o) \/ CheckDrops(o) \/ Migrate(o)
           \/ LoadStaged(o) \/ BeginReset(o) \/ DeleteAnalytics(o) \/ LoadBaseline(o)
           \/ Analyse(o) \/ ContinueAnalysis(o) \/ FinishAnalysis(o) \/ Finalize(o) \/ CheckRows(o)
  <2>1. prep'[o].pc # "idle" /\ Heals(o)'
    BY <1>1, HealVerify, HealStage, HealClear, HealLoadStaged, HealBeginReset, HealDelete, HealLoad,
       HealAnalyse, HealContinue, HealFinish, HealFinalize, HealCheckRows
  <2>2. QED
    BY <2>1 DEF IsHealing, Busy, At
<1>2. CASE CheckRuns(o)
  BY <1>2, HealCheckRuns DEF IsHealing, Busy, At
<1>3. CASE ResetCollides(o)
  BY <1>3 DEF ResetCollides, Undisturbed, At
<1>4. CASE ReleaseGuard(o) \/ ReleaseGet(o) \/ ReleasePut(o)
  BY <1>4 DEF ReleaseGuard, ReleaseGet, ReleasePut, Heals, Releases, At
<1>5. QED
  BY <1>1, <1>2, <1>3, <1>4 DEF PrepareStep

-----------------------------------------------------------------------------
(* Healing: the specification.                                             *)

\* Troubles are counted, so that a step that counts one is seen.
LEMMA TroublesCount == troubles \in Nat /\ [Next]_vars => troubles' \in Nat
<1> SUFFICES ASSUME troubles \in Nat, [Next]_vars PROVE troubles' \in Nat
  OBVIOUS
<1>1. CASE troubles' = troubles
  BY <1>1
<1>2. CASE Trouble
  BY <1>2 DEF Trouble
<1>3. CASE UNCHANGED vars
  BY <1>1, <1>3 DEF vars
<1>4. ASSUME NEW o \in Operators, Prepare(o) \/ Check(o) \/ Release(o)
      PROVE  troubles' \in Nat
  <2>1. troubles' = troubles
    BY <1>4, Zenon DEF Prepare, Check, Release, BeginCommand
  <2>2. QED
    BY <1>1, <2>1
<1>5. ASSUME NEW o \in Operators, PrepareStep(o) \/ CommandFails(o)
      PROVE  troubles' \in Nat
  <2>1. Trouble \/ troubles' = troubles
    BY <1>5, Zenon
    DEF PrepareStep, CommandFails, VerifyIdentities, Stage, ClearDrops, CheckDrops, Migrate, LoadStaged,
        BeginReset, DeleteAnalytics, LoadBaseline, ResetCollides, Analyse, ContinueAnalysis,
        ReadAmounts, FinishAnalysis, CommitAnalysis, Finalize, CheckRows, CheckRuns, ReleaseGuard, ReleaseGet, ReleasePut
  <2>2. QED
    BY <1>1, <1>2, <2>1
<1>6. ASSUME NEW o \in Operators, IdentityStep(o)
      PROVE  troubles' \in Nat
  <2>1. Trouble \/ troubles' = troubles
    BY <1>6, Zenon
    DEF IdentityStep, BeginConfigure, ConfigureStep, ConfigureFails, ConfigureKilled, LockAndLoad,
        EnsureAccount, EnsurePassword, LeaveGroups, JoinGroup, PasswordOnly, LoadPresenter, CreateClient,
        SignIn, Associate, Verify, PreferFactor, CompletePresenter, DeleteClient
  <2>2. QED
    BY <1>1, <1>2, <2>1
<1>7. CASE Others
  <2>1. Trouble \/ troubles' = troubles
    BY <1>7, Zenon
    DEF Others, OtherAnalysis, ReadAmounts, CommitAnalysis, UpdateCheckout, WebRead, WebCompare,
        WebPut, IntakeReads, IntakeWrites, Simulate, UserAnalyses, RequestApproval, LoseFiles, Act
  <2>2. QED
    BY <1>1, <1>2, <2>1
<1>8. QED
  BY <1>3, <1>4, <1>5, <1>6, <1>7 DEF Next

\* A command that begins where only the demonstration has left its traces.
LEMMA HealBegin ==
    ASSUME DataInv, NEW o \in Operators, Prepare(o) \/ Check(o) \/ Release(o), alone'[o] = "healing"
    PROVE  IsHealing(o)'
<1>1. PICK cmd \in {"prepare", "check", "release", "redrop"}, todo \in SUBSET Fixtures,
           pc \in {"identities", "guard"} :
           /\ BeginCommand(o, cmd, todo, pc)
           /\ cmd = "prepare" => pc = "identities" /\ todo = Fixtures
  BY DEF Prepare, Check, Release, Fixtures
<1>2. CommandsTyped /\ local \in Nat
  BY DEF DataInv, Typed, BucketTyped
<1>3. cmd = "prepare" /\ Clean /\ pc = "identities" /\ todo = Fixtures
  BY <1>1 DEF BeginCommand
<1> DEFINE r == [NoCommand EXCEPT !.cmd = cmd, !.pc = pc, !.version = local, !.todo = todo]
<1>4. r \in Command /\ r.pc = "identities" /\ r.cmd = "prepare" /\ r.todo = Fixtures /\ r.good
  BY <1>2, <1>3, NoCommandIsOne DEF Command, Points, NoCommand
<1>5. /\ prep' = [prep EXCEPT ![o] = r]
      /\ UNCHANGED <<identityVars, local, bucket, database, analyses, counts>>
  BY <1>1 DEF BeginCommand
<1> HIDE DEF r
<1>6. prep'[o] = r
  BY <1>2, <1>4, <1>5, OneCommand
<1>7. Posture' /\ Traces'
  <2>1. Posture /\ Traces
    BY <1>3 DEF Clean, Traces
  <2>2. UNCHANGED <<pool, grants, landed, approvals, runs, links, flags>>
    BY <1>5 DEF identityVars, database
  <2>3. QED
    BY <2>1, <2>2, TracesStay DEF Posture, InPosture
<1>8. Heals(o)'
  BY <1>4, <1>6, <1>7 DEF Heals, AfterDrops, Releases
<1>9. QED
  BY <1>4, <1>6, <1>8 DEF IsHealing, Busy, At

LEMMA NextHealing ==
    IdentityInv /\ DataInv /\ AloneInv /\ troubles \in Nat /\ HealingInv /\ [Next]_vars => HealingInv'
<1> SUFFICES ASSUME IdentityInv, DataInv, AloneInv, troubles \in Nat, HealingInv, [Next]_vars,
                    NEW o \in Operators, alone'[o] = "healing"
             PROVE  IsHealing(o)'
  BY DEF HealingInv
<1>1. CASE UNCHANGED vars
  <2>1. IsHealing(o)
    BY <1>1 DEF HealingInv, vars
  <2>2. CASE Busy(o)
    <3>1. Heals(o) /\ Busy(o)'
      BY <1>1, <2>1, <2>2 DEF IsHealing, Busy, At, vars
    <3>2. UNCHANGED <<pool, local, staged, live, migrated, grants, landed, approvals, runs, links, flags,
                      reseed, analyses, prep, counts>>
      BY <1>1 DEF vars, identityVars, bucket, database
    <3>3. Heals(o)'
      BY <3>1, <3>2
      DEF Heals, Posture, InPosture, Traces, OnlyDemoState, Orphans, Demo, RunIds, Current, NoDrops, Fresh,
          Analysed, TheRun, TheAnalysis
    <3>4. QED
      BY <3>1, <3>3 DEF IsHealing
  <2>3. CASE ~Busy(o)
    BY <1>1, <2>1, <2>3 DEF IsHealing, Busy, At, vars
  <2>4. QED
    BY <2>2, <2>3
<1>2. CASE Prepare(o) \/ Check(o) \/ Release(o)
  BY <1>2, HealBegin
<1>3. ASSUME alone[o] = "healing", troubles' = troubles, PrepareStep(o)
      PROVE  IsHealing(o)'
  <2>1. Busy(o)
    BY <1>3, Zenon
    DEF Busy, At, PrepareStep, VerifyIdentities, Stage, ClearDrops, CheckDrops, Migrate, LoadStaged,
        BeginReset, DeleteAnalytics, LoadBaseline, ResetCollides, Analyse, ContinueAnalysis,
        FinishAnalysis, Waits, Finalize, CheckRows, CheckRuns, ReleaseGuard, ReleaseGet, ReleasePut
  <2>2. Heals(o) /\ Undisturbed(o)
    BY <1>3, <2>1 DEF AloneInv, IsRight, HealingInv, IsHealing
  <2>3. QED
    BY <1>3, <2>1, <2>2, HealStep
<1>4. ASSUME alone[o] = "healing", IdentityStep(o)
      PROVE  IsHealing(o)'
  <2>1. ~Busy(o) /\ prep' = prep /\ receipt' = receipt
    BY <1>4, RightConfigure DEF AloneInv
  <2>2. receipt[o] = "ready"
    BY <1>4, <2>1 DEF HealingInv, IsHealing
  <2>3. QED
    BY <2>1, <2>2 DEF IsHealing, Busy, At
<1>5. ASSUME CommandFails(o), troubles' = troubles
      PROVE  FALSE
  BY <1>5 DEF CommandFails, Trouble
<1>6. QED
  BY <1>1, <1>2, <1>3, <1>4, <1>5, WhoIsAlone

\* A prepare command that begins where only the demonstration has left its traces, and that
\* nobody disturbs, comes to say ready and nothing else: the reset finds nothing that it must
\* refuse, what it deletes is all there was, and the checks find what was loaded and analysed
\* (scripts/prepare_demo.py over migrator/demo_prep.py).
THEOREM AloneItHeals == Spec => []PreparationHeals
<1> DEFINE Inv == PreparationInv /\ AloneInv /\ troubles \in Nat /\ HealingInv
<1>1. Init => Inv
  <2> SUFFICES ASSUME Init PROVE Inv
    OBVIOUS
  <2>1. IdentityInit /\ troubles = 0 /\ alone = [o \in Operators |-> "no"]
    BY DEF Init
  <2>2. PreparationInv
    BY <2>1, InitIdentities, InitData DEF PreparationInv
  <2>3. QED
    BY <2>1, <2>2 DEF AloneInv, HealingInv
<1>2. Inv /\ [Next]_vars => Inv'
  BY NextIdentities, NextData, NextAlone, TroublesCount, NextHealing DEF PreparationInv
<1>3. Inv => PreparationHeals
  <2> SUFFICES ASSUME Inv, NEW o \in Operators, alone[o] = "healing"
               PROVE  receipt[o] \in {"none", "ready"}
    BY DEF PreparationHeals
  <2>1. CASE Busy(o)
    BY <2>1 DEF AloneInv, IsRight
  <2>2. CASE ~Busy(o)
    BY <2>2 DEF HealingInv, IsHealing
  <2>3. QED
    BY <2>1, <2>2
<1>4. QED
  BY <1>1, <1>2, <1>3, PTL DEF Spec
=============================================================================
