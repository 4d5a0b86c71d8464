----------------------------- MODULE DemoStream -----------------------------
(***************************************************************************)
(* The operator-controlled synthetic stream (functions/intake/app.py and   *)
(* statemachines/demo_stream.asl.yaml): one session item in DynamoDB, a    *)
(* Step Functions execution per chunk of pulses, and one Lambda invocation *)
(* per pulse that lands an object, announces it and advances the item.     *)
(* An action is a handler up to and with its next external call.           *)
(***************************************************************************)
EXTENDS Naturals, FiniteSets

CONSTANTS
    Sessions,    \* session identifiers, each made by the start request of its name
    NoSession,
    Ticks,       \* invocations of demo_stream_tick that may run at once
    NoTick,
    Stops,       \* requests to stop the stream
    Continuous,  \* the sessions in continuous mode, those with no total_events
    Total,       \* total_events of the other sessions
    Chunk,       \* DEMO_STREAM_EXECUTION_CHUNK_EVENTS
    MaxPulses,   \* bound: pulses of a continuous session
    MaxRetries,  \* MaxAttempts of the Retry block
    MaxFaults    \* bound: faults of all kinds

ASSUME DemoStreamAssumption ==
    /\ NoSession \notin Sessions /\ NoTick \notin Ticks
    /\ Continuous \subseteq Sessions /\ {Total, Chunk} \subseteq Nat \ {0}
    /\ {MaxPulses, MaxRetries, MaxFaults} \subseteq Nat

Pulses == 1..MaxPulses
Chunks == 1..(MaxPulses \div Chunk + 1)

VARIABLES
    item,      \* DEMO_STREAM/CURRENT
    landings,    \* the objects of each session in S3
    announced, \* the Kinesis records of each session
    execs,     \* the executions, by session and chunk
    ticks,     \* the running invocations
    starts, stops, \* the API requests
    faults     \* how many of each kind have happened

streamVars == <<item, landings, announced, execs, ticks, starts, stops, faults>>

NoItem == [session |-> NoSession, status |-> "none", total |-> 0, emitted |-> 0,
           chunk |-> 0, arn |-> 0]
NoExec == [pc |-> "none", seq |-> 0, ce |-> 0, tries |-> 0, tick |-> NoTick]
NoCall == [pc |-> "idle", session |-> NoSession, chunk |-> 0, seq |-> 0, ce |-> 0,
           total |-> 0]

StreamInit ==
    /\ item = NoItem
    /\ landings = [s \in Sessions |-> {}]
    /\ announced = [s \in Sessions |-> [q \in Pulses |-> 0]]
    /\ execs = [s \in Sessions |-> [c \in Chunks |-> NoExec]]
    /\ ticks = [t \in Ticks |-> NoCall]
    /\ starts = [s \in Sessions |-> [pc |-> "idle", total |-> 0]]
    /\ stops = [r \in Stops |-> [pc |-> "idle", session |-> NoSession, arn |-> 0]]
    /\ faults = [error |-> 0, lost |-> 0, dead |-> 0]

Fault(kind) ==
    /\ faults.error + faults.lost + faults.dead < MaxFaults
    /\ faults' = [faults EXCEPT ![kind] = @ + 1]

Runs(s) == item.session = s /\ item.status = "running"

\* The conditional terminal write, also when its condition fails.
Terminal(s, status) == item' = IF Runs(s) THEN [item EXCEPT !.status = status] ELSE item

Bind(s, c) == item' = IF Runs(s) THEN [item EXCEPT !.chunk = c, !.arn = c] ELSE item

\* Mutant: the name has no chunk in it, and the second execution exists already.
MutantStartExecution(s, c, seq) ==
    execs' = [execs EXCEPT ![s][1] =
                IF @.pc = "none" THEN [NoExec EXCEPT !.pc = "emit", !.seq = seq] ELSE @]

\* An execution has the name of its session and chunk: a second start is the first.
StartExecution(s, c, seq) ==
    execs' = [execs EXCEPT ![s][c] =
                IF @.pc = "none" THEN [NoExec EXCEPT !.pc = "emit", !.seq = seq] ELSE @]

-----------------------------------------------------------------------------
(* start_demo_stream                                                       *)

GotoStart(s, pc) == starts' = [starts EXCEPT ![s] = [@ EXCEPT !.pc = pc]]

ReadForStart(s) ==
    /\ starts[s].pc = "idle"
    /\ starts' = [starts EXCEPT ![s] = [pc |-> IF item.status = "running" THEN "done" ELSE "create",
                                        total |-> IF s \in Continuous THEN 0 ELSE Total]]
    /\ UNCHANGED <<item, landings, announced, execs, ticks, stops, faults>>

\* Mutant: the session that another request started meanwhile is replaced.
MutantMayCreate == TRUE
MayCreate == item.status # "running"

CreateItem(s) ==
    /\ starts[s].pc = "create"
    /\ IF MayCreate
       THEN /\ item' = [NoItem EXCEPT !.session = s, !.status = "running",
                                      !.total = starts[s].total, !.chunk = 1]
            /\ GotoStart(s, "start")
       ELSE GotoStart(s, "done") /\ UNCHANGED item
    /\ UNCHANGED <<landings, announced, execs, ticks, stops, faults>>

StartFirst(s) ==
    /\ starts[s].pc = "start"
    /\ StartExecution(s, 1, 1)
    /\ GotoStart(s, "bind")
    /\ UNCHANGED <<item, landings, announced, ticks, stops, faults>>

\* start_execution raises, whether or not the execution began.
StartFirstFails(s) ==
    /\ starts[s].pc = "start" /\ Fault("error")
    /\ UNCHANGED execs \/ StartExecution(s, 1, 1)
    /\ GotoStart(s, "failed")
    /\ UNCHANGED <<item, landings, announced, ticks, stops>>

RecordStartFailure(s) ==
    /\ starts[s].pc = "failed"
    /\ Terminal(s, "failed") /\ GotoStart(s, "done")
    /\ UNCHANGED <<landings, announced, execs, ticks, stops, faults>>

BindFirst(s) ==
    /\ starts[s].pc = "bind"
    /\ Bind(s, 1) /\ GotoStart(s, "done")
    /\ UNCHANGED <<landings, announced, execs, ticks, stops, faults>>

StartDies(s) ==
    /\ starts[s].pc \notin {"idle", "done"} /\ Fault("dead")
    /\ GotoStart(s, "done")
    /\ UNCHANGED <<item, landings, announced, execs, ticks, stops>>

-----------------------------------------------------------------------------
(* stop_demo_stream                                                        *)

ReadForStop(r) ==
    /\ stops[r].pc = "idle" /\ item.status = "running"
    /\ stops' = [stops EXCEPT ![r] = [pc |-> "mark", session |-> item.session, arn |-> item.arn]]
    /\ UNCHANGED <<item, landings, announced, execs, ticks, starts, faults>>

MarkStopped(r) ==
    /\ stops[r].pc = "mark"
    /\ Terminal(stops[r].session, "stopped")
    /\ stops' = [stops EXCEPT ![r] = [@ EXCEPT !.pc = IF Runs(stops[r].session) /\ stops[r].arn # 0
                                                      THEN "halt" ELSE "done"]]
    /\ UNCHANGED <<landings, announced, execs, ticks, starts, faults>>

\* The execution it had read about; an error here is passed over.
HaltExecution(r) ==
    /\ stops[r].pc = "halt"
    /\ LET s == stops[r].session  c == stops[r].arn
       IN \/ /\ execs' = [execs EXCEPT ![s][c] =
                             IF @.pc = "none" THEN @ ELSE [@ EXCEPT !.pc = "ended", !.tick = NoTick]]
             /\ UNCHANGED faults
          \/ Fault("error") /\ UNCHANGED execs
    /\ stops' = [stops EXCEPT ![r] = [@ EXCEPT !.pc = "done"]]
    /\ UNCHANGED <<item, landings, announced, ticks, starts>>

StopDies(r) ==
    /\ stops[r].pc \in {"mark", "halt"} /\ Fault("dead")
    /\ stops' = [stops EXCEPT ![r] = [@ EXCEPT !.pc = "done"]]
    /\ UNCHANGED <<item, landings, announced, execs, ticks, starts>>

-----------------------------------------------------------------------------
(* The state machine: Emit with its Retry and Catch, Continue, WaitForCadence. *)

Invoke(s, c, t) ==
    /\ execs[s][c].pc = "emit" /\ ticks[t].pc = "idle"
    /\ execs[s][c].seq \in Pulses
    /\ execs' = [execs EXCEPT ![s][c] = [@ EXCEPT !.pc = "wait", !.tick = t]]
    /\ ticks' = [ticks EXCEPT ![t] = [NoCall EXCEPT !.pc = "read", !.session = s, !.chunk = c,
                                        !.seq = execs[s][c].seq, !.ce = execs[s][c].ce]]
    /\ UNCHANGED <<item, landings, announced, starts, stops, faults>>

\* The answer is lost although the invocation runs on, or had not begun: Emit is retried, or
\* goes to Catch when throttled calls, or lost ones, have used up its attempts.
LoseAnswer(s, c) ==
    /\ execs[s][c].pc = "wait" /\ Fault("lost")
    /\ \E pc \in {"emit", "fail"} :
         /\ pc = "emit" => execs[s][c].tries < MaxRetries
         /\ execs' = [execs EXCEPT ![s][c] = [@ EXCEPT !.pc = pc, !.tick = NoTick,
                                                        !.tries = execs[s][c].tries + 1]]
    /\ UNCHANGED <<item, landings, announced, ticks, starts, stops>>

\* The answer of invocation t reaches the execution that waits for it, if one still does.
WaitsFor(t, s, c) == execs[s][c].pc = "wait" /\ execs[s][c].tick = t
Answer(t, goOn, seq, ce) ==
    /\ execs' = [s \in Sessions |-> [c \in Chunks |->
            IF WaitsFor(t, s, c) THEN IF goOn THEN [NoExec EXCEPT !.pc = "emit", !.seq = seq, !.ce = ce]
                                   ELSE [execs[s][c] EXCEPT !.pc = "ended", !.tick = NoTick]
            ELSE execs[s][c]]]
    /\ ticks' = [ticks EXCEPT ![t] = NoCall]

\* The handler raises or its process dies: Catch, and not Retry.
TickFails(t) ==
    /\ ticks[t].pc # "idle" /\ Fault("error")
    /\ execs' = [s \in Sessions |-> [c \in Chunks |->
            IF WaitsFor(t, s, c) THEN [execs[s][c] EXCEPT !.pc = "fail", !.tick = NoTick]
            ELSE execs[s][c]]]
    /\ ticks' = [ticks EXCEPT ![t] = NoCall]
    /\ UNCHANGED <<item, landings, announced, starts, stops>>

\* fail_demo_stream, or an error in it, which ends the execution all the same.
RecordFailure(s, c) ==
    /\ execs[s][c].pc = "fail"
    /\ \/ Terminal(s, "failed") /\ UNCHANGED faults
       \/ Fault("error") /\ UNCHANGED item
    /\ execs' = [execs EXCEPT ![s][c] = [@ EXCEPT !.pc = "ended"]]
    /\ UNCHANGED <<landings, announced, ticks, starts, stops>>

-----------------------------------------------------------------------------
(* demo_stream_tick                                                        *)

GotoTick(t, pc) == ticks' = [ticks EXCEPT ![t] = [@ EXCEPT !.pc = pc]]

Mine(t) == Runs(ticks[t].session) /\ item.chunk <= ticks[t].chunk

\* A pulse that was emitted already is answered with the next one.
TickRead(t) ==
    /\ ticks[t].pc = "read"
    /\ IF ~Mine(t) THEN Answer(t, FALSE, 0, 0)
       ELSE IF item.emitted >= ticks[t].seq
       THEN Answer(t, ~(item.total # 0 /\ item.emitted >= item.total),
                   item.emitted + 1, ticks[t].ce + 1)
       ELSE /\ ticks' = [ticks EXCEPT ![t] = [@ EXCEPT !.pc = "put", !.total = item.total]]
            /\ UNCHANGED execs
    /\ UNCHANGED <<item, landings, announced, starts, stops, faults>>

\* Mutant: If-None-Match is not sent, and a retry lands the object once more.
MutantCreates(s, q) == TRUE
Creates(s, q) == q \notin landings[s]

PutObject(t) ==
    /\ ticks[t].pc = "put"
    /\ LET s == ticks[t].session  q == ticks[t].seq
       IN /\ landings' = [landings EXCEPT ![s] = @ \cup {q}]
          /\ GotoTick(t, IF Creates(s, q) THEN "announce" ELSE "advance")
    /\ UNCHANGED <<item, announced, execs, starts, stops, faults>>

Announce(t) ==
    /\ ticks[t].pc = "announce"
    /\ announced' = [announced EXCEPT ![ticks[t].session][ticks[t].seq] = @ + 1]
    /\ GotoTick(t, "advance")
    /\ UNCHANGED <<item, landings, execs, starts, stops, faults>>

Final(t)   == ticks[t].total # 0 /\ ticks[t].seq >= ticks[t].total
Rotates(t) == ticks[t].total = 0 /\ ticks[t].ce + 1 >= Chunk

\* Mutant: a late retry takes the item back to its own pulse.
MutantMayAdvance(t) == Runs(ticks[t].session)
MayAdvance(t) == Runs(ticks[t].session) /\ item.emitted < ticks[t].seq

Advance(t) ==
    /\ ticks[t].pc = "advance"
    /\ item' = IF MayAdvance(t)
               THEN [item EXCEPT !.emitted = ticks[t].seq,
                                 !.status = IF Final(t) THEN "completed" ELSE "running"]
               ELSE item
    /\ IF MayAdvance(t) /\ Rotates(t) THEN GotoTick(t, "rotate") /\ UNCHANGED execs
       ELSE Answer(t, MayAdvance(t) /\ ~Final(t), ticks[t].seq + 1, ticks[t].ce + 1)
    /\ UNCHANGED <<landings, announced, starts, stops, faults>>

\* The next execution is bound by its name before it is started.
BindNext(t) ==
    /\ ticks[t].pc = "rotate"
    /\ Bind(ticks[t].session, ticks[t].chunk + 1)
    /\ IF Runs(ticks[t].session) THEN GotoTick(t, "next") /\ UNCHANGED execs
       ELSE Answer(t, FALSE, 0, 0)
    /\ UNCHANGED <<landings, announced, starts, stops, faults>>

StartNext(t) ==
    /\ ticks[t].pc = "next"
    /\ StartExecution(ticks[t].session, ticks[t].chunk + 1, ticks[t].seq + 1)
    /\ GotoTick(t, "answer")
    /\ UNCHANGED <<item, landings, announced, starts, stops, faults>>

AnswerRotation(t) ==
    /\ ticks[t].pc = "answer"
    /\ Answer(t, FALSE, 0, 0)
    /\ UNCHANGED <<item, landings, announced, starts, stops, faults>>

-----------------------------------------------------------------------------
StartStep(s) == \/ CreateItem(s) \/ StartFirst(s) \/ StartFirstFails(s)
                \/ RecordStartFailure(s) \/ BindFirst(s)
StopStep(r)  == MarkStopped(r) \/ HaltExecution(r)
TickStep(t)  == \/ TickRead(t) \/ PutObject(t) \/ Announce(t) \/ Advance(t)
                \/ BindNext(t) \/ StartNext(t) \/ AnswerRotation(t)
ExecStep(s, c) == (\E t \in Ticks : Invoke(s, c, t)) \/ RecordFailure(s, c)

StreamNext ==
    \/ \E s \in Sessions : \/ ReadForStart(s)
                           \/ StartStep(s) \/ StartDies(s)
                           \/ \E c \in Chunks : ExecStep(s, c) \/ LoseAnswer(s, c)
    \/ \E r \in Stops : ReadForStop(r) \/ StopStep(r) \/ StopDies(r)
    \/ \E t \in Ticks : TickStep(t) \/ TickFails(t)

StreamSpec == StreamInit /\ [][StreamNext]_streamVars

\* A request, an invocation and an execution that have begun go on, or fail.
Fairness ==
    /\ \A s \in Sessions : WF_streamVars(StartStep(s))
    /\ \A s \in Sessions, c \in Chunks : WF_streamVars(ExecStep(s, c))
    /\ \A t \in Ticks : WF_streamVars(TickStep(t))
FairStreamSpec == StreamSpec /\ Fairness

-----------------------------------------------------------------------------
StreamTypeOK ==
    /\ item \in [session : Sessions \cup {NoSession},
                 status : {"none", "running", "stopped", "failed", "completed"},
                 total : {0, Total}, emitted : Pulses \cup {0},
                 chunk : Chunks \cup {0}, arn : Chunks \cup {0}]
    /\ landings \in [Sessions -> SUBSET Pulses]
    /\ announced \in [Sessions -> [Pulses -> Nat]]
    /\ execs \in [Sessions -> [Chunks ->
            [pc : {"none", "emit", "wait", "fail", "ended"}, seq : Nat, ce : Nat, tries : Nat,
             tick : Ticks \cup {NoTick}]]]
    /\ ticks \in [Ticks -> [pc : {"idle", "read", "put", "announce", "advance", "rotate", "next",
                                  "answer"},
                            session : Sessions \cup {NoSession}, chunk : Chunks \cup {0},
                            seq : Nat, ce : Nat, total : {0, Total}]]
    /\ starts \in [Sessions -> [pc : {"idle", "create", "start", "failed", "bind", "done"},
                                total : {0, Total}]]
    /\ stops \in [Stops -> [pc : {"idle", "mark", "halt", "done"},
                            session : Sessions \cup {NoSession}, arn : Chunks \cup {0}]]
    /\ faults \in [{"error", "lost", "dead"} -> Nat]

\* The objects of a session have no gap and none is landed ahead of the item: a stop lets
\* out the one pulse that was on its way (demo_stream_tick puts, then advances).
LandedInOrder ==
    \A s \in Sessions :
        /\ landings[s] = 1..Cardinality(landings[s])
        /\ item.session = s => Cardinality(landings[s]) \in {item.emitted, item.emitted + 1}

\* However often a pulse is retried, in however many invocations at once, the ticker gets
\* it once at most, and only for an object that landed (object_created).
AnnouncedOnce ==
    \A s \in Sessions, q \in Pulses : announced[s][q] <= IF q \in landings[s] THEN 1 ELSE 0

\* ADR 0009: Stop is authoritative even during rotation.  What is not running stays so,
\* with what it had emitted, until another session replaces it.
TerminalIsFinal ==
    [][item.status \notin {"none", "running"} /\ item'.session = item.session => item' = item]_item

\* A session that runs is not replaced by another request (_create_demo_stream_item).
RunningIsKept == [][item.status = "running" => item'.session = item.session]_item

\* Unless a request died or an answer was lost, every session that runs emits its next
\* pulse, or ends, also across the rotation of executions and after an error of a handler.
StreamGoesOn ==
    \A k \in 0..(MaxPulses - 1) :
        LET waits == item.status = "running" /\ item.emitted = k
        IN waits ~> (~waits \/ faults.dead + faults.lost > 0)
=============================================================================
