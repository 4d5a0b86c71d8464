-------------------------- MODULE ScaleExportProofs --------------------------
(***************************************************************************)
(* Theorems about ScaleExport, for any number of exports, requests,        *)
(* workers and objects, any redrive limit and any budget of faults.        *)
(***************************************************************************)
EXTENDS ScaleExport, TLAPS

-----------------------------------------------------------------------------
(* Type correctness.                                                       *)

WorkersType == /\ workers \in [Workers -> WorkerRecord]
               /\ \A w \in Workers : workers[w].pc # "idle" =>
                     workers[w].export \in Exports /\ workers[w].rid > 0
RequestsType == /\ requests \in [Requests -> RequestRecord]
                /\ \A r \in Requests : requests[r].pc # "idle" => requests[r].export \in Exports
MsgsType == msgs \in [Exports -> {"unsent", "visible", "inflight", "deleted", "dlq"}]

LEMMA NothingType == NoItem \in ExportRecord /\ NoManifest \in ManifestRecord
BY ScaleExportAssumption DEF ScaleExportAssumption, NoItem, NoOwner, NoSha, ExportRecord,
   NoManifest, ManifestRecord

LEMMA IdleType == IdleWorker \in WorkerRecord /\ IdleWorker.pc = "idle"
BY ScaleExportAssumption DEF ScaleExportAssumption, IdleWorker, WorkerRecord, WorkerPcs, Parts

LEMMA InitType == Init => TypeOK
<1> SUFFICES ASSUME Init PROVE TypeOK
  OBVIOUS
<1> USE ScaleExportAssumption DEF ScaleExportAssumption, Init
<1>1. run \in RunRecord
  BY DEF RunRecord, NoReceipt
<1>2. exports \in [Exports -> ExportRecord]
  BY NothingType
<1>3. RequestsType
  BY DEF RequestsType, RequestRecord, IdleRequest
<1>4. WorkersType
  BY IdleType DEF WorkersType
<1>5. /\ QueueType /\ lake \in 0..Objects /\ manifests \in [Exports -> ManifestRecord]
      /\ lives \in [Exports -> Nat \ {0}]
  BY NothingType DEF QueueType
<1>6. QED
  BY <1>1, <1>2, <1>3, <1>4, <1>5 DEF TypeOK, RequestsType, WorkersType

LEMMA ProceedType ==
    ASSUME TypeOK, NEW r \in Requests, NEW pc \in {"put", "send", "answered"}, Proceed(r, pc),
           requests[r].pc # "idle"
    PROVE  RequestsType'
BY DEF TypeOK, RequestsType, RequestRecord, Proceed

LEMMA GotoType ==
    ASSUME TypeOK, NEW w \in Workers, NEW pc \in WorkerPcs, Goto(w, pc), workers[w].pc # "idle"
    PROVE  WorkersType' /\ MsgsType'
BY DEF TypeOK, WorkersType, WorkerRecord, Goto, MsgsType, QueueType

LEMMA ThenType ==
    ASSUME TypeOK, NEW w \in Workers, NEW part \in Parts, NEW n \in 0..Objects, Then(w, part, n),
           workers[w].pc # "idle"
    PROVE  WorkersType' /\ MsgsType'
<1>1. [workers[w] EXCEPT !.pc = "assert", !.next = part, !.listed = n] \in WorkerRecord
  BY DEF TypeOK, WorkerRecord, WorkerPcs
<1>2. QED
  BY <1>1 DEF TypeOK, WorkersType, WorkerRecord, Then, MsgsType, QueueType

LEMMA AckType ==
    ASSUME TypeOK, NEW w \in Workers, Ack(w), workers[w].pc # "idle"
    PROVE  WorkersType' /\ MsgsType'
BY IdleType DEF TypeOK, WorkersType, Ack, MsgsType, QueueType

LEMMA GiveUpType ==
    ASSUME TypeOK, NEW w \in Workers, GiveUp(w) PROVE WorkersType' /\ MsgsType'
BY IdleType DEF TypeOK, WorkersType, GiveUp, MsgsType, QueueType

LEMMA DeliverType ==
    ASSUME TypeOK, NEW w \in Workers, NEW e \in Exports, Deliver(w, e)
    PROVE  WorkersType' /\ receives' \in [Exports -> Nat]
<1>1. receives[e] + 1 \in Nat /\ receives[e] + 1 > 0
  BY DEF TypeOK, QueueType
<1> DEFINE new == [IdleWorker EXCEPT !.pc = "received", !.export = e, !.rid = receives[e] + 1]
<1>2. new \in WorkerRecord /\ new.export = e /\ new.rid = receives[e] + 1
  BY <1>1, IdleType DEF WorkerRecord, WorkerPcs, IdleWorker
<1>3. workers' = [workers EXCEPT ![w] = new]
  BY DEF Deliver
<1> HIDE DEF new
<1>4. WorkersType'
  BY <1>1, <1>2, <1>3 DEF TypeOK, WorkersType
<1>5. QED
  BY <1>1, <1>4 DEF TypeOK, QueueType, Deliver

LEMMA RequestType ==
    ASSUME TypeOK, NEW r \in Requests,
           RequestStep(r) \/ RequestDies(r) \/ \E e \in Exports : AskForExport(r, e)
    PROVE  TypeOK'
<1> USE DEF RequestOnly, RequestsType
<1>1. CASE \E e \in Exports : AskForExport(r, e)
  <2>1. PICK e \in Exports : AskForExport(r, e)
    BY <1>1
  <2>2. RequestsType'
    BY <2>1 DEF TypeOK, AskForExport, RequestRecord
  <2>3. QED
    BY <2>1, <2>2 DEF TypeOK, AskForExport, QueueType
<1>2. CASE LookUpExport(r)
  <2>1. RequestsType'
    BY <1>2, ProceedType DEF LookUpExport
  <2>2. QED
    BY <1>2, <2>1 DEF TypeOK, LookUpExport, QueueType
<1>3. CASE PutItem(r)
  <2>1. RequestsType'
    BY <1>3, ProceedType DEF PutItem
  <2>2. (exports \in [Exports -> ExportRecord])'
    BY <1>3 DEF TypeOK, PutItem, ExportRecord
  <2>3. QED
    BY <1>3, <2>1, <2>2 DEF TypeOK, PutItem, QueueType
<1>4. CASE SendMessage(r)
  <2>1. RequestsType'
    BY <1>4, ProceedType DEF SendMessage
  <2>2. QueueType'
    BY <1>4 DEF TypeOK, SendMessage, QueueType
  <2>3. QED
    BY <1>4, <2>1, <2>2 DEF TypeOK, SendMessage
<1>5. CASE RequestDies(r)
  <2>1. RequestsType'
    BY <1>5, ProceedType DEF RequestDies
  <2>2. QED
    BY <1>5, <2>1 DEF TypeOK, RequestDies, QueueType, Fault
<1>6. QED
  BY <1>1, <1>2, <1>3, <1>4, <1>5 DEF RequestStep

\* A worker's own moves.
LEMMA WorkerType ==
    ASSUME TypeOK, NEW w \in Workers, WorkerStep(w) \/ WorkerRaises(w) \/ WorkerDies(w)
    PROVE  TypeOK'
<1> USE DEF WorkerOnly
<1> DEFINE e == workers[w].export
<1>p. \A pc \in {"read_open", "read_closed", "claim", "conflict", "conflict_run", "cancel",
                 "cancel_receipt", "assert", "assert_owner", "recheck", "failing"} \cup Parts :
         pc \in WorkerPcs
  BY DEF WorkerPcs
<1>e. workers[w].pc # "idle" => e \in Exports
  BY DEF TypeOK
<1>n. workers[w] \in WorkerRecord /\ workers[w].next \in Parts /\ workers[w].listed \in 0..Objects
      /\ workers[w].rid \in Nat
  BY DEF TypeOK, WorkerRecord
<1>1. ASSUME WorkersType', MsgsType',
             UNCHANGED <<run, exports, lives, lake, manifests, receives, sends, requests, duplicates>>,
             UNCHANGED faults \/ Fault
      PROVE  TypeOK'
  BY <1>1 DEF TypeOK, WorkersType, MsgsType, QueueType, Fault
<1>2. CASE ReadRun(w)
  <2>1. WorkersType' /\ MsgsType'
    BY <1>p, <1>2, GotoType DEF ReadRun
  <2>2. QED
    BY <1>1, <1>2, <2>1 DEF ReadRun
<1>3. CASE ReadExport(w)
  <2>1. WorkersType' /\ MsgsType'
    BY <1>p, <1>3, GotoType, AckType DEF ReadExport
  <2>2. QED
    BY <1>1, <1>3, <2>1 DEF ReadExport
<1>4. CASE Conflict(w)
  <2>1. WorkersType' /\ MsgsType'
    BY <1>p, <1>4, GotoType, AckType DEF Conflict, Raise
  <2>2. QED
    BY <1>1, <1>4, <2>1 DEF Conflict
<1>5. CASE AssertRun(w)
  <2>1. WorkersType' /\ MsgsType'
    BY <1>p, <1>5, GotoType DEF AssertRun
  <2>2. QED
    BY <1>1, <1>5, <2>1 DEF AssertRun
<1>6. CASE AssertOwner(w)
  <2>1. WorkersType' /\ MsgsType'
    BY <1>p, <1>n, <1>6, GotoType, AckType DEF AssertOwner, Raise
  <2>2. QED
    BY <1>1, <1>6, <2>1 DEF AssertOwner
<1>7. CASE ListSources(w)
  <2>1. WorkersType' /\ MsgsType'
    BY <1>p, <1>7, GotoType, ThenType DEF ListSources, Raise, TypeOK, Parts
  <2>2. QED
    BY <1>1, <1>7, <2>1 DEF ListSources
<1>8. CASE HashSources(w)
  <2>1. WorkersType' /\ MsgsType'
    BY <1>p, <1>n, <1>8, GotoType, ThenType DEF HashSources, Raise, Parts
  <2>2. QED
    BY <1>1, <1>8, <2>1 DEF HashSources
<1>9. CASE Recheck(w)
  <2>1. WorkersType' /\ MsgsType'
    BY <1>p, <1>9, GotoType, AckType DEF Recheck, Raise
  <2>2. QED
    BY <1>1, <1>9, <2>1 DEF Recheck
<1>10. CASE WorkerRaises(w) \/ WorkerDies(w)
  <2>1. WorkersType' /\ MsgsType'
    BY <1>p, <1>10, GotoType, GiveUpType DEF WorkerRaises, WorkerDies, Raise
  <2>2. QED
    BY <1>1, <1>10, <2>1 DEF WorkerRaises, WorkerDies
<1>11. CASE Claim(w)
  <2>1. WorkersType' /\ MsgsType'
    BY <1>p, <1>11, GotoType DEF Claim
  <2>2. (exports \in [Exports -> ExportRecord])'
    <3>0. exports[e] \in ExportRecord
      BY <1>e, <1>11 DEF TypeOK, Claim
    <3>1. [exports[e] EXCEPT !.status = "building", !.owner = workers[w].rid, !.leased = TRUE]
            \in ExportRecord
      BY <1>n, <3>0 DEF ExportRecord
    <3>2. QED
      BY <1>11, <3>1 DEF TypeOK, Claim
  <2>3. run' \in RunRecord
    BY <1>e, <1>11 DEF TypeOK, Claim, RunRecord, Receipt
  <2>4. QED
    BY <1>11, <2>1, <2>2, <2>3 DEF TypeOK, Claim, WorkersType, MsgsType, QueueType
<1>12. CASE CancelExport(w)
  <2>1. WorkersType' /\ MsgsType'
    BY <1>p, <1>12, GotoType DEF CancelExport, CancelRejected, Raise
  <2>2. (exports \in [Exports -> ExportRecord])'
    <3>0. exports[e] \in ExportRecord
      BY <1>e, <1>12 DEF TypeOK, CancelExport
    <3>1. [exports[e] EXCEPT !.status = "cancelled", !.owner = NoOwner, !.leased = FALSE,
                             !.sha = NoSha] \in ExportRecord
      <4>1. NoOwner \in Nat /\ NoSha \in 0..Objects
        BY ScaleExportAssumption DEF ScaleExportAssumption, NoOwner, NoSha
      <4>2. QED
        BY <3>0, <4>1 DEF ExportRecord
    <3>2. QED
      BY <1>12, <3>1 DEF TypeOK, CancelExport
  <2>3. QED
    BY <1>12, <2>1, <2>2 DEF TypeOK, CancelExport, WorkersType, MsgsType, QueueType
<1>13. CASE CancelReceipt(w)
  <2>1. WorkersType' /\ MsgsType'
    BY <1>13, AckType DEF CancelReceipt
  <2>2. run' \in RunRecord
    BY <1>e, <1>13 DEF TypeOK, CancelReceipt, RunRecord, Receipt
  <2>3. QED
    BY <1>13, <2>1, <2>2 DEF TypeOK, CancelReceipt, WorkersType, MsgsType, QueueType
<1>14. CASE PutManifest(w)
  <2>1. WorkersType' /\ MsgsType'
    BY <1>p, <1>n, <1>14, GotoType, ThenType DEF PutManifest, Raise, Parts
  <2>2. (manifests \in [Exports -> ManifestRecord])'
    <3>1. Manifest(w) \in ManifestRecord
      BY <1>n, <1>e, <1>14 DEF TypeOK, PutManifest, Manifest, ManifestRecord
    <3>2. QED
      BY <3>1, <1>14 DEF TypeOK, PutManifest
  <2>3. QED
    BY <1>14, <2>1, <2>2 DEF TypeOK, PutManifest, WorkersType, MsgsType, QueueType
<1>15. CASE Commit(w)
  <2>1. WorkersType' /\ MsgsType'
    BY <1>p, <1>15, GotoType, AckType DEF Commit, Raise
  <2>2. (exports \in [Exports -> ExportRecord])'
    <3>0. exports[e] \in ExportRecord
      BY <1>e, <1>15 DEF TypeOK, Commit
    <3>1. [exports[e] EXCEPT !.status = "ready", !.owner = NoOwner, !.leased = FALSE,
                             !.sha = workers[w].listed] \in ExportRecord
      BY <1>n, <3>0 DEF ExportRecord, NoOwner
    <3>2. QED
      BY <1>15, <3>1 DEF TypeOK, Commit
  <2>3. run' \in RunRecord
    BY <1>e, <1>15 DEF TypeOK, Commit, RunRecord, Receipt
  <2>4. faults' \in Nat
    BY <1>15 DEF TypeOK, Commit, Fault
  <2>5. QED
    BY <1>15, <2>1, <2>2, <2>3, <2>4 DEF TypeOK, Commit, WorkersType, MsgsType, QueueType
<1>16. CASE Reset(w)
  <2>1. WorkersType' /\ MsgsType'
    BY <1>16, GiveUpType DEF Reset
  <2>2. (exports \in [Exports -> ExportRecord])'
    <3>0. exports[e] \in ExportRecord
      BY <1>e, <1>16 DEF TypeOK, Reset
    <3>1. [exports[e] EXCEPT !.status = "queued", !.owner = NoOwner, !.leased = FALSE]
            \in ExportRecord
      BY <3>0 DEF ExportRecord, NoOwner
    <3>2. QED
      BY <1>16, <3>1 DEF TypeOK, Reset
  <2>3. faults' \in Nat
    BY <1>16 DEF TypeOK, Reset, Fault
  <2>4. QED
    BY <1>16, <2>1, <2>2, <2>3 DEF TypeOK, Reset, WorkersType, MsgsType, QueueType
<1>17. QED
  BY <1>2, <1>3, <1>4, <1>5, <1>6, <1>7, <1>8, <1>9, <1>10, <1>11, <1>12, <1>13, <1>14, <1>15,
     <1>16 DEF WorkerStep

LEMMA NextType == TypeOK /\ [Next]_vars => TypeOK'
<1> SUFFICES ASSUME TypeOK, [Next]_vars PROVE TypeOK'
  OBVIOUS
<1> USE DEF WorkerOnly, queue
<1>1. ASSUME NEW w \in Workers, NEW e \in Exports, Receive(w, e) PROVE TypeOK'
  <2>1. WorkersType' /\ receives' \in [Exports -> Nat]
    BY <1>1, DeliverType DEF Receive
  <2>2. QED
    BY <1>1, <2>1 DEF TypeOK, Receive, WorkersType, QueueType
<1>2. ASSUME NEW w \in Workers, NEW e \in Exports, ReceiveDuplicate(w, e) PROVE TypeOK'
  <2>1. WorkersType' /\ receives' \in [Exports -> Nat]
    BY <1>2, DeliverType DEF ReceiveDuplicate
  <2>2. QED
    BY <1>2, <2>1 DEF TypeOK, ReceiveDuplicate, WorkersType, QueueType
<1>3. ASSUME NEW e \in Exports, LeaseExpires(e) PROVE TypeOK'
  <2>1. (exports \in [Exports -> ExportRecord])'
    BY <1>3 DEF TypeOK, LeaseExpires, ExportRecord
  <2>2. QED
    BY <1>3, <2>1 DEF TypeOK, LeaseExpires, QueueType
<1>4. ASSUME NEW e \in Exports, Redeliver(e) PROVE TypeOK'
  BY <1>4 DEF TypeOK, Redeliver, QueueType
<1>5. CASE RunFails
  BY <1>5 DEF TypeOK, RunFails, RunRecord, QueueType
<1>6. CASE ObjectExpires
  BY <1>6, ScaleExportAssumption DEF ScaleExportAssumption, TypeOK, ObjectExpires, QueueType
<1>7. CASE UNCHANGED vars
  BY <1>7 DEF TypeOK, vars, QueueType
<1>8. ASSUME NEW e \in Exports, DayPasses(e) PROVE TypeOK'
  <2>1. (exports \in [Exports -> ExportRecord])'
    BY <1>8 DEF TypeOK, DayPasses, ExportRecord
  <2>2. QED
    BY <1>8, <2>1 DEF TypeOK, DayPasses, QueueType
<1>9. ASSUME NEW e \in Exports, ItemExpires(e) PROVE TypeOK'
  <2>1. (exports \in [Exports -> ExportRecord])' /\ (lives \in [Exports -> Nat \ {0}])'
    BY <1>9, NothingType DEF TypeOK, ItemExpires
  <2>2. QueueType'
    BY <1>9 DEF TypeOK, ItemExpires, QueueType
  <2>3. QED
    BY <1>9, <2>1, <2>2 DEF TypeOK, ItemExpires
<1>10. ASSUME NEW e \in Exports, ManifestExpires(e) PROVE TypeOK'
  BY <1>10, NothingType DEF TypeOK, ManifestExpires, QueueType
<1>11. QED
  BY <1>1, <1>2, <1>3, <1>4, <1>5, <1>6, <1>7, <1>8, <1>9, <1>10, RequestType, WorkerType DEF Next

\* Every variable of the export keeps its shape, whatever the sizes and bounds.
THEOREM TypeCorrect == Spec => []TypeOK
<1>1. Init => TypeOK
  BY InitType
<1>2. TypeOK /\ [Next]_vars => TypeOK'
  BY NextType
<1>3. QED
  BY <1>1, <1>2, PTL DEF Spec

-----------------------------------------------------------------------------
(* The inductive invariant.                                                *)

\* The part of the work a worker is in, or enters after the next _assert_active.
Part(w) == IF workers[w].pc \in {"assert", "assert_owner"} THEN workers[w].next
                                                           ELSE workers[w].pc

\* What a worker knows of the items and objects, although it read them some steps ago.
WorkerOK(w) ==
    LET e == workers[w].export IN
      workers[w].pc # "idle" =>
        /\ exports[e].status # "absent" /\ ~exports[e].past
        /\ workers[w].pc \in {"read_closed", "cancel"} => ~Exportable
        /\ workers[w].pc = "cancel_receipt" => exports[e].status = "cancelled"
        /\ workers[w].pc \in {"received", "read_open", "claim"} => workers[w].next = "list"
        /\ Part(w) \in {"hash", "put", "commit", "recheck"} => workers[w].listed > 0
        /\ Part(w) = "commit" => manifests[e] = Manifest(w)

\* An item, its manifest and its message.
ItemOK(e) ==
    /\ exports[e].status # "ready" => exports[e].sha = NoSha
    /\ exports[e].status = "ready" => exports[e].sha > 0
    /\ exports[e].status = "ready" /\ ~exports[e].past =>
          manifests[e] = [listed |-> exports[e].sha, life |-> lives[e]]
    /\ exports[e].past => msgs[e] \notin {"visible", "inflight"}
    /\ exports[e].status = "absent" =>
          sends[e] = 0 /\ msgs[e] = "unsent" /\ ~exports[e].past
    /\ msgs[e] = "deleted" => exports[e].status \in {"ready", "cancelled"}
    /\ sends[e] <= 1

\* The request that put an item is the one that sends its message.
RequestOK(r) ==
    requests[r].pc = "send" =>
      /\ exports[requests[r].export].status # "absent" /\ ~exports[requests[r].export].past
      /\ sends[requests[r].export] = 0
      /\ \A s \in Requests :
            requests[s].pc = "send" /\ requests[s].export = requests[r].export => s = r

ReceiptOK ==
    /\ run.receipt.status # "none" =>
          run.receipt.export \in Exports /\ run.receipt.life <= lives[run.receipt.export]
    /\ ReceiptIsTrue

ExportInv ==
    /\ \A w \in Workers : WorkerOK(w)
    /\ \A e \in Exports : ItemOK(e)
    /\ \A r \in Requests : RequestOK(r)
    /\ ReceiptOK

LEMMA InvInit == Init => ExportInv
<1> SUFFICES ASSUME Init PROVE ExportInv
  OBVIOUS
<1>1. \A w \in Workers : WorkerOK(w)
  BY IdleType DEF Init, WorkerOK
<1>2. \A e \in Exports : ItemOK(e)
  <2> SUFFICES ASSUME NEW e \in Exports PROVE ItemOK(e)
    OBVIOUS
  <2>1. exports[e].status = "absent" /\ exports[e].sha = NoSha /\ ~exports[e].past
    BY DEF Init, NoItem
  <2>2. msgs[e] = "unsent" /\ sends[e] = 0
    BY DEF Init
  <2>3. QED
    BY <2>1, <2>2, SMT DEF ItemOK
<1>3. \A r \in Requests : RequestOK(r)
  BY DEF Init, RequestOK, IdleRequest
<1>4. ReceiptOK
  BY DEF Init, ReceiptOK, ReceiptIsTrue, NoReceipt
<1>5. QED
  BY <1>1, <1>2, <1>3, <1>4 DEF ExportInv

-----------------------------------------------------------------------------
(* What goes back in no step of a request, a worker, the queue, a lease or *)
(* the run: a final status, the existence of an item, a closed run and a   *)
(* manifest.  The days that pass are no such step.                         *)

Final == {"ready", "cancelled"}

Monotone ==
    /\ \A e \in Exports : exports[e].status \in Final => exports'[e].status = exports[e].status
    /\ \A e \in Exports : exports[e].status # "absent" => exports'[e].status # "absent"
    /\ ~Exportable => ~Exportable'
    /\ \A e \in Exports : manifests[e] # NoManifest => manifests'[e] = manifests[e]
    /\ \A e \in Exports : exports'[e].past = exports[e].past
    /\ UNCHANGED lives

\* The other workers keep what they know, and so does a request that does not move.
LEMMA OthersKeep ==
    ASSUME TypeOK, ExportInv, Monotone, NEW w \in Workers,
           \A v \in Workers \ {w} : workers'[v] = workers[v], WorkerOK(w)'
    PROVE  \A v \in Workers : WorkerOK(v)'
<1> SUFFICES ASSUME NEW v \in Workers \ {w} PROVE WorkerOK(v)'
  OBVIOUS
<1>1. workers'[v] = workers[v] /\ WorkerOK(v)
  BY DEF ExportInv
<1>2. workers[v].pc # "idle" => workers[v].export \in Exports
  BY DEF TypeOK
<1>3. Part(v)' = Part(v)
  BY <1>1 DEF Part
<1>4. Manifest(v)' = Manifest(v) /\ (workers[v].listed > 0 => Manifest(v) # NoManifest)
  BY <1>1 DEF Manifest, Monotone, NoManifest
<1>6. WorkerOK(v)'
  BY <1>1, <1>2, <1>3, <1>4 DEF WorkerOK, Monotone, Final
<1>5. QED
  BY <1>6

LEMMA RequestsKeep ==
    ASSUME TypeOK, ExportInv, Monotone, UNCHANGED <<requests, sends>>
    PROVE  \A r \in Requests : RequestOK(r)'
<1> SUFFICES ASSUME NEW r \in Requests PROVE RequestOK(r)'
  OBVIOUS
<1>1. RequestOK(r) /\ (requests[r].pc = "send" => requests[r].export \in Exports)
  BY DEF ExportInv, TypeOK
<1>2. QED
  BY <1>1 DEF RequestOK, Monotone

\* The receipt in the run item stays true when it is not written.
LEMMA ReceiptKeeps ==
    ASSUME ExportInv, Monotone, run'.receipt = run.receipt PROVE ReceiptOK'
BY DEF ExportInv, Monotone, ReceiptOK, ReceiptIsTrue, Final

\* What the moves of a worker do to its fields.
LEMMA GotoFields ==
    ASSUME TypeOK, NEW w \in Workers, NEW pc, Goto(w, pc)
    PROVE  /\ workers'[w].pc = pc /\ workers'[w].export = workers[w].export
           /\ workers'[w].rid = workers[w].rid /\ workers'[w].next = workers[w].next
           /\ workers'[w].listed = workers[w].listed
           /\ \A v \in Workers \ {w} : workers'[v] = workers[v]
           /\ UNCHANGED msgs
BY DEF TypeOK, WorkerRecord, Goto

LEMMA ThenFields ==
    ASSUME TypeOK, NEW w \in Workers, NEW part, NEW n, Then(w, part, n)
    PROVE  /\ workers'[w].pc = "assert" /\ workers'[w].export = workers[w].export
           /\ workers'[w].rid = workers[w].rid /\ workers'[w].next = part
           /\ workers'[w].listed = n
           /\ \A v \in Workers \ {w} : workers'[v] = workers[v]
           /\ UNCHANGED msgs
BY DEF TypeOK, WorkerRecord, Then

LEMMA EndFields ==
    ASSUME TypeOK, NEW w \in Workers, Ack(w) \/ GiveUp(w)
    PROVE  /\ workers'[w] = IdleWorker /\ workers'[w].pc = "idle"
           /\ workers'[w].export = NoExport
           /\ \A v \in Workers \ {w} : workers'[v] = workers[v]
BY IdleType DEF TypeOK, Ack, GiveUp, IdleWorker

LEMMA DeliverFields ==
    ASSUME TypeOK, NEW w \in Workers, NEW e \in Exports, Deliver(w, e)
    PROVE  /\ workers'[w].pc = "received" /\ workers'[w].export = e
           /\ workers'[w].rid = receives[e] + 1 /\ workers'[w].next = "list"
           /\ \A v \in Workers \ {w} : workers'[v] = workers[v]
BY DEF TypeOK, Deliver, IdleWorker

-----------------------------------------------------------------------------
(* One lemma per kind of step.                                             *)

\* A step of a worker that writes neither item, manifest nor receipt.
Silent == UNCHANGED <<run, exports, lives, manifests, sends, requests>>

\* It keeps the invariant when the worker is right about what it knows, and when a message
\* is deleted only after its export ended.
LEMMA SilentKeeps ==
    ASSUME TypeOK, ExportInv, Silent, NEW w \in Workers,
           \A v \in Workers \ {w} : workers'[v] = workers[v], WorkerOK(w)',
           \A e \in Exports : \/ msgs'[e] = msgs[e]
                              \/ msgs'[e] = "deleted" /\ exports[e].status \in Final
                              \/ /\ msgs'[e] # "deleted" /\ exports[e].status # "absent"
                                 /\ ~exports[e].past
    PROVE  ExportInv'
<1>1. Monotone
  BY DEF Silent, Monotone, Exportable
<1>2. \A v \in Workers : WorkerOK(v)'
  BY <1>1, OthersKeep
<1>3. \A r \in Requests : RequestOK(r)'
  BY <1>1, RequestsKeep DEF Silent
<1>4. ReceiptOK'
  BY <1>1, ReceiptKeeps DEF Silent
<1>5. ASSUME NEW e \in Exports PROVE ItemOK(e)'
  BY <1>5 DEF ExportInv, ItemOK, Silent, Final
<1>6. QED
  BY <1>2, <1>3, <1>4, <1>5 DEF ExportInv

\* A worker that goes on without having learnt anything.
LEMMA GotoKeeps ==
    ASSUME TypeOK, ExportInv, Silent, NEW w \in Workers, NEW pc, Goto(w, pc), WorkerOK(w)'
    PROVE  ExportInv'
<1>1. (\A v \in Workers \ {w} : workers'[v] = workers[v]) /\ UNCHANGED msgs
  BY GotoFields
<1>2. QED
  BY <1>1, SilentKeeps

LEMMA RaiseKeeps ==
    ASSUME TypeOK, ExportInv, Silent, NEW w \in Workers, Raise(w), workers[w].pc # "idle"
    PROVE  ExportInv'
<1>1. workers'[w].pc = "failing" /\ workers'[w].export = workers[w].export
  BY GotoFields DEF Raise
<1>2. WorkerOK(w)'
  BY <1>1 DEF ExportInv, WorkerOK, Part, Silent
<1>3. QED
  BY <1>2, GotoKeeps DEF Raise

LEMMA AckKeeps ==
    ASSUME TypeOK, ExportInv, Silent, NEW w \in Workers, Ack(w),
           exports[workers[w].export].status \in Final
    PROVE  ExportInv'
<1>1. /\ workers'[w].pc = "idle" /\ \A v \in Workers \ {w} : workers'[v] = workers[v]
      /\ msgs' = [msgs EXCEPT ![workers[w].export] = "deleted"]
  BY EndFields DEF Ack
<1>2. WorkerOK(w)'
  BY <1>1 DEF WorkerOK
<1>3. QED
  BY <1>1, <1>2, SilentKeeps DEF TypeOK, QueueType

LEMMA GiveUpKeeps ==
    ASSUME TypeOK, ExportInv, Silent, NEW w \in Workers, GiveUp(w) PROVE ExportInv'
<1>1. /\ workers'[w].pc = "idle" /\ \A v \in Workers \ {w} : workers'[v] = workers[v]
      /\ UNCHANGED msgs
  BY EndFields DEF GiveUp
<1>2. WorkerOK(w)'
  BY <1>1 DEF WorkerOK
<1>3. QED
  BY <1>1, <1>2, SilentKeeps

LEMMA ThenKeeps ==
    ASSUME TypeOK, ExportInv, Silent, NEW w \in Workers, NEW part \in Parts, NEW n \in Nat,
           Then(w, part, n), workers[w].pc # "idle", n > 0,
           part = "commit" =>
              manifests[workers[w].export] = [listed |-> n, life |-> lives[workers[w].export]]
    PROVE  ExportInv'
<1>1. /\ workers'[w].pc = "assert" /\ workers'[w].export = workers[w].export
      /\ workers'[w].next = part /\ workers'[w].listed = n
      /\ \A v \in Workers \ {w} : workers'[v] = workers[v]
      /\ UNCHANGED msgs
  BY ThenFields
<1>2. WorkerOK(w)'
  BY <1>1 DEF ExportInv, WorkerOK, Part, Silent, Manifest
<1>3. QED
  BY <1>1, <1>2, SilentKeeps

LEMMA DeliverKeeps ==
    ASSUME TypeOK, ExportInv, Silent, NEW w \in Workers, NEW e \in Exports, Deliver(w, e),
           msgs[e] # "unsent", ~exports[e].past, msgs' \in {msgs, [msgs EXCEPT ![e] = "inflight"]}
    PROVE  ExportInv'
<1>1. /\ workers'[w].pc = "received" /\ workers'[w].export = e /\ workers'[w].next = "list"
      /\ \A v \in Workers \ {w} : workers'[v] = workers[v]
  BY DeliverFields
<1>2. exports[e].status # "absent"
  BY DEF ExportInv, ItemOK
<1>3. WorkerOK(w)'
  BY <1>1, <1>2 DEF WorkerOK, Part, Silent
<1>4. \A x \in Exports : \/ msgs'[x] = msgs[x]
                         \/ msgs'[x] # "deleted" /\ exports[x].status # "absent"
                            /\ ~exports[x].past
  BY <1>2 DEF TypeOK, QueueType
<1>5. QED
  BY <1>1, <1>3, <1>4, SilentKeeps

LEMMA RequestSafe ==
    ASSUME TypeOK, ExportInv, NEW r \in Requests,
           RequestStep(r) \/ RequestDies(r) \/ \E e \in Exports : AskForExport(r, e)
    PROVE  ExportInv' /\ Monotone
<1> USE DEF RequestOnly
<1> DEFINE e == requests[r].export
<1>m. ASSUME Monotone, UNCHANGED <<run, lives, manifests, workers>>,
             \A s \in Requests : RequestOK(s)', \A x \in Exports : ItemOK(x)'
      PROVE  ExportInv'
  <2>1. \A w \in Workers : WorkerOK(w)'
    <3> SUFFICES ASSUME NEW w \in Workers PROVE WorkerOK(w)'
      OBVIOUS
    <3>1. WorkerOK(w) /\ (workers[w].pc # "idle" => workers[w].export \in Exports)
      BY DEF ExportInv, TypeOK
    <3>2. QED
      BY <1>m, <3>1 DEF WorkerOK, Part, Monotone, Exportable, Final, Manifest
  <2>2. ReceiptOK'
    BY <1>m, ReceiptKeeps
  <2>3. QED
    BY <1>m, <2>1, <2>2 DEF ExportInv
<1>q. \A s \in Requests : RequestOK(s) /\ (requests[s].pc = "send" => requests[s].export \in Exports)
  BY DEF ExportInv, TypeOK
<1>1. ASSUME UNCHANGED <<run, exports, lives, manifests, workers, msgs, sends>>,
             \A s \in Requests \ {r} : requests'[s] = requests[s], requests'[r].pc # "send"
      PROVE  ExportInv' /\ Monotone
  <2>1. Monotone
    BY <1>1 DEF Monotone, Exportable
  <2>2. \A s \in Requests : RequestOK(s)'
    BY <1>1, <1>q DEF RequestOK
  <2>3. \A x \in Exports : ItemOK(x)'
    BY <1>1 DEF ExportInv, ItemOK
  <2>4. QED
    BY <1>1, <1>m, <2>1, <2>2, <2>3
<1>2. CASE LookUpExport(r) \/ RequestDies(r) \/ \E x \in Exports : AskForExport(r, x)
  <2>1. /\ \A s \in Requests \ {r} : requests'[s] = requests[s]
        /\ requests'[r].pc # "send"
    <3>1. CASE LookUpExport(r)
      BY <3>1 DEF TypeOK, LookUpExport, Proceed, RequestRecord
    <3>2. CASE RequestDies(r)
      BY <3>2 DEF TypeOK, RequestDies, Proceed, RequestRecord
    <3>3. CASE \E x \in Exports : AskForExport(r, x)
      BY <3>3 DEF TypeOK, AskForExport
    <3>4. QED
      BY <1>2, <3>1, <3>2, <3>3
  <2>2. UNCHANGED <<run, exports, lives, manifests, workers, msgs, sends>>
    BY <1>2 DEF LookUpExport, RequestDies, AskForExport
  <2>3. QED
    BY <1>1, <2>1, <2>2
<1>3. CASE PutItem(r)
  <2>0. e \in Exports
    BY <1>3 DEF PutItem, TypeOK
  <2>1. CASE exports[e].status = "absent"
    <3>1. /\ exports' = [exports EXCEPT ![e].status = "queued"] /\ Proceed(r, "send")
          /\ UNCHANGED <<run, lives, manifests, workers, msgs, sends>>
      BY <1>3, <2>1 DEF PutItem
    <3>2. /\ exports'[e].status = "queued" /\ exports'[e].sha = exports[e].sha
          /\ exports'[e].past = exports[e].past
          /\ \A x \in Exports \ {e} : exports'[x] = exports[x]
      BY <2>0, <3>1 DEF TypeOK, ExportRecord
    <3>3. Monotone
      BY <2>1, <3>1, <3>2 DEF Monotone, Exportable, Final
    <3>4. /\ requests'[r].pc = "send" /\ requests'[r].export = e
          /\ \A s \in Requests \ {r} : requests'[s] = requests[s]
      BY <3>1 DEF TypeOK, RequestRecord, Proceed
    <3>5. \A s \in Requests : requests[s].pc = "send" => requests[s].export # e
      BY <1>q, <2>1 DEF RequestOK
    <3>6. sends[e] = 0 /\ msgs[e] = "unsent" /\ exports[e].sha = NoSha /\ ~exports[e].past
      BY <2>0, <2>1 DEF ExportInv, ItemOK
    <3>7. ASSUME NEW s \in Requests PROVE RequestOK(s)'
      BY <1>q, <3>1, <3>2, <3>4, <3>5, <3>6 DEF RequestOK
    <3>8. ASSUME NEW x \in Exports PROVE ItemOK(x)'
      <4>1. CASE x = e
        BY <3>1, <3>2, <3>6, <4>1 DEF ItemOK
      <4>2. CASE x # e
        BY <3>1, <3>2, <4>2 DEF ExportInv, ItemOK
      <4>3. QED
        BY <4>1, <4>2
    <3>9. QED
      BY <1>m, <3>1, <3>3, <3>7, <3>8
  <2>2. CASE exports[e].status # "absent"
    <3>1. Proceed(r, "answered")
          /\ UNCHANGED <<run, exports, lives, manifests, workers, msgs, sends>>
      BY <1>3, <2>2 DEF PutItem
    <3>2. requests'[r].pc # "send" /\ \A s \in Requests \ {r} : requests'[s] = requests[s]
      BY <3>1 DEF TypeOK, RequestRecord, Proceed
    <3>3. QED
      BY <1>1, <3>1, <3>2
  <2>3. QED
    BY <2>1, <2>2
<1>4. CASE SendMessage(r)
  <2>1. /\ e \in Exports /\ sends[e] = 0 /\ exports[e].status # "absent" /\ ~exports[e].past
        /\ \A s \in Requests \ {r} : requests[s].pc = "send" => requests[s].export # e
    BY <1>4, <1>q DEF SendMessage, RequestOK
  <2>2. /\ msgs' = [msgs EXCEPT ![e] = "visible"] /\ sends' = [sends EXCEPT ![e] = @ + 1]
        /\ UNCHANGED <<run, exports, lives, manifests, workers>>
    BY <1>4 DEF SendMessage
  <2>3. requests'[r].pc # "send" /\ \A s \in Requests \ {r} : requests'[s] = requests[s]
    BY <1>4 DEF TypeOK, SendMessage, RequestRecord, Proceed
  <2>4. Monotone
    BY <2>2 DEF Monotone, Exportable
  <2>5. ASSUME NEW s \in Requests PROVE RequestOK(s)'
    BY <1>q, <2>1, <2>2, <2>3 DEF RequestOK, TypeOK, QueueType
  <2>6. msgs'[e] = "visible" /\ sends'[e] = 1
        /\ \A x \in Exports \ {e} : msgs'[x] = msgs[x] /\ sends'[x] = sends[x]
    BY <2>1, <2>2 DEF TypeOK, QueueType
  <2>7. ASSUME NEW x \in Exports PROVE ItemOK(x)'
    <3>1. CASE x = e
      BY <2>1, <2>2, <2>6, <3>1 DEF ExportInv, ItemOK
    <3>2. CASE x # e
      BY <2>2, <2>6, <3>2 DEF ExportInv, ItemOK
    <3>3. QED
      BY <3>1, <3>2
  <2>8. QED
    BY <1>m, <2>2, <2>4, <2>5, <2>7
<1>5. QED
  BY <1>2, <1>3, <1>4 DEF RequestStep

\* The steps of a worker that only read.
LEMMA ReadingSafe ==
    ASSUME TypeOK, ExportInv, NEW w \in Workers,
           \/ ReadRun(w) \/ ReadExport(w) \/ Conflict(w) \/ AssertRun(w) \/ AssertOwner(w)
           \/ ListSources(w) \/ HashSources(w) \/ Recheck(w) \/ WorkerRaises(w) \/ WorkerDies(w)
    PROVE  ExportInv'
<1> DEFINE e == workers[w].export
<1>o. /\ WorkerOK(w) /\ workers[w].listed \in Nat /\ workers[w].next \in Parts
      /\ lake \in Nat
  BY DEF ExportInv, TypeOK, WorkerRecord
<1>s. Silent
  BY DEF Silent, WorkerOnly, ReadRun, ReadExport, Conflict, AssertRun, AssertOwner, ListSources,
         HashSources, Recheck, WorkerRaises, WorkerDies
<1>g. ASSUME NEW pc \in WorkerPcs, Goto(w, pc), WorkerOK(w)' PROVE ExportInv'
  BY <1>g, <1>s, GotoKeeps
<1>f. /\ \A pc : Goto(w, pc) => /\ workers'[w].pc = pc /\ workers'[w].export = e
                                /\ workers'[w].next = workers[w].next
                                /\ workers'[w].listed = workers[w].listed
      /\ UNCHANGED <<run, exports, lives, manifests>>
  BY <1>s, GotoFields DEF Silent
<1>1. CASE ReadRun(w)
  <2>1. \E pc \in {"read_open", "read_closed"} :
          Goto(w, pc) /\ (pc = "read_closed" => ~Exportable)
    BY <1>1 DEF ReadRun
  <2>2. PICK pc \in {"read_open", "read_closed"} :
          Goto(w, pc) /\ (pc = "read_closed" => ~Exportable)
    BY <2>1
  <2>3. WorkerOK(w)'
    BY <1>1, <1>o, <1>f, <2>2 DEF ReadRun, WorkerOK, Part, Exportable
  <2>4. QED
    BY <1>g, <2>2, <2>3 DEF WorkerPcs
<1>2. CASE ReadExport(w)
  <2>1. CASE Ack(w) /\ exports[e].status \in Final
    BY <1>s, <2>1, AckKeeps
  <2>2. CASE Goto(w, "claim") /\ workers[w].pc = "read_open"
    <3>1. WorkerOK(w)'
      BY <1>o, <1>f, <2>2 DEF WorkerOK, Part
    <3>2. QED
      BY <1>g, <2>2, <3>1 DEF WorkerPcs
  <2>3. CASE Goto(w, "cancel") /\ workers[w].pc = "read_closed"
    <3>1. WorkerOK(w)'
      BY <1>o, <1>f, <2>3 DEF WorkerOK, Part, Exportable
    <3>2. QED
      BY <1>g, <2>3, <3>1 DEF WorkerPcs
  <2>4. QED
    BY <1>2, <2>1, <2>2, <2>3 DEF ReadExport, Final
<1>3. CASE Conflict(w)
  <2>1. CASE Ack(w) /\ NothingToDo(e)
    BY <1>s, <2>1, AckKeeps DEF NothingToDo, Final
  <2>2. CASE Goto(w, "conflict_run") /\ workers[w].pc = "conflict"
    <3>1. WorkerOK(w)'
      BY <1>o, <1>f, <2>2 DEF WorkerOK, Part
    <3>2. QED
      BY <1>g, <2>2, <3>1 DEF WorkerPcs
  <2>3. CASE Raise(w) /\ workers[w].pc = "conflict_run"
    BY <1>s, <2>3, RaiseKeeps
  <2>4. CASE Goto(w, "cancel") /\ ~Exportable /\ workers[w].pc = "conflict_run"
    <3>1. WorkerOK(w)'
      BY <1>o, <1>f, <2>4 DEF WorkerOK, Part, Exportable
    <3>2. QED
      BY <1>g, <2>4, <3>1 DEF WorkerPcs
  <2>5. QED
    BY <1>3, <2>1, <2>2, <2>3, <2>4 DEF Conflict
<1>4. CASE AssertRun(w)
  <2>1. CASE Goto(w, "assert_owner")
    <3>1. WorkerOK(w)'
      BY <1>4, <1>o, <1>f, <2>1 DEF AssertRun, WorkerOK, Part, Manifest
    <3>2. QED
      BY <1>g, <2>1, <3>1 DEF WorkerPcs
  <2>2. CASE Goto(w, "cancel") /\ ~Exportable
    <3>1. WorkerOK(w)'
      BY <1>4, <1>o, <1>f, <2>2 DEF AssertRun, WorkerOK, Part, Exportable
    <3>2. QED
      BY <1>g, <2>2, <3>1 DEF WorkerPcs
  <2>3. QED
    BY <1>4, <2>1, <2>2 DEF AssertRun
<1>5. CASE AssertOwner(w)
  <2>1. CASE Ack(w) /\ exports[e].status = "cancelled"
    BY <1>s, <2>1, AckKeeps DEF Final
  <2>2. CASE Goto(w, workers[w].next)
    <3>1. WorkerOK(w)'
      BY <1>5, <1>o, <1>f, <2>2 DEF AssertOwner, WorkerOK, Part, Parts, Manifest
    <3>2. QED
      BY <1>g, <1>o, <2>2, <3>1 DEF WorkerPcs
  <2>3. CASE Raise(w)
    BY <1>5, <1>s, <2>3, RaiseKeeps DEF AssertOwner
  <2>4. QED
    BY <1>5, <2>1, <2>2, <2>3 DEF AssertOwner
<1>6. CASE ListSources(w)
  <2>1. CASE Raise(w)
    BY <1>6, <1>s, <2>1, RaiseKeeps DEF ListSources
  <2>2. CASE lake # 0 /\ Then(w, "hash", lake)
    BY <1>6, <1>o, <1>s, <2>2, ThenKeeps DEF ListSources, Parts
  <2>3. QED
    BY <1>6, <2>1, <2>2 DEF ListSources
<1>7. CASE HashSources(w)
  <2>1. CASE Raise(w)
    BY <1>7, <1>s, <2>1, RaiseKeeps DEF HashSources
  <2>2. CASE Then(w, "put", workers[w].listed)
    BY <1>7, <1>o, <1>s, <2>2, ThenKeeps DEF HashSources, Parts, WorkerOK, Part
  <2>3. QED
    BY <1>7, <2>1, <2>2 DEF HashSources
<1>8. CASE Recheck(w)
  <2>1. CASE Raise(w)
    BY <1>8, <1>s, <2>1, RaiseKeeps DEF Recheck
  <2>2. CASE Ack(w) /\ exports[e].status = "ready"
    BY <1>s, <2>2, AckKeeps DEF Final
  <2>3. QED
    BY <1>8, <2>1, <2>2 DEF Recheck
<1>9. CASE WorkerRaises(w)
  BY <1>9, <1>s, RaiseKeeps DEF WorkerRaises
<1>10. CASE WorkerDies(w)
  BY <1>10, <1>s, GiveUpKeeps DEF WorkerDies
<1>11. QED
  BY <1>1, <1>2, <1>3, <1>4, <1>5, <1>6, <1>7, <1>8, <1>9, <1>10

\* A step of a worker that writes.
LEMMA WritingKeeps ==
    ASSUME TypeOK, ExportInv, Monotone, NEW w \in Workers,
           \A v \in Workers \ {w} : workers'[v] = workers[v], WorkerOK(w)',
           UNCHANGED <<requests, sends>>, \A e \in Exports : ItemOK(e)', ReceiptOK'
    PROVE  ExportInv'
BY OthersKeep, RequestsKeep DEF ExportInv

LEMMA ClaimSafe ==
    ASSUME TypeOK, ExportInv, NEW w \in Workers, Claim(w) PROVE ExportInv' /\ Monotone
<1> USE DEF WorkerOnly
<1> DEFINE e == workers[w].export
<1>o. WorkerOK(w) /\ workers[w].pc = "claim" /\ e \in Exports
  BY DEF ExportInv, TypeOK, Claim
<1>1. CASE Claimable(e) /\ Exportable
  <2>1. /\ exports' = [exports EXCEPT ![e] = [@ EXCEPT !.status = "building",
                                                       !.owner = workers[w].rid, !.leased = TRUE]]
        /\ run' = [run EXCEPT !.receipt = Receipt(e, "building")] /\ Goto(w, "assert")
        /\ UNCHANGED <<lives, manifests, requests, sends, msgs>>
    BY <1>1 DEF Claim, Goto
  <2>2. /\ exports'[e].status = "building" /\ exports'[e].sha = exports[e].sha
        /\ exports'[e].past = exports[e].past
        /\ \A x \in Exports \ {e} : exports'[x] = exports[x]
    BY <1>o, <2>1 DEF TypeOK, ExportRecord
  <2>3. run'.status = run.status /\ run'.receipt = Receipt(e, "building")
    BY <2>1 DEF TypeOK, RunRecord
  <2>4. exports[e].status \in {"queued", "building"}
    BY <1>1 DEF Claimable
  <2>5. Monotone
    BY <2>1, <2>2, <2>3, <2>4 DEF Monotone, Exportable, Final
  <2>6. WorkerOK(w)'
    BY <1>o, <2>1, <2>2, GotoFields DEF WorkerOK, Part
  <2>7. ASSUME NEW x \in Exports PROVE ItemOK(x)'
    <3>1. CASE x = e
      BY <1>o, <2>1, <2>2, <2>4, <3>1 DEF ExportInv, ItemOK
    <3>2. CASE x # e
      BY <2>1, <2>2, <3>2 DEF ExportInv, ItemOK
    <3>3. QED
      BY <3>1, <3>2
  <2>8. ReceiptOK'
    BY <1>o, <2>1, <2>3 DEF ReceiptOK, ReceiptIsTrue, Receipt, TypeOK
  <2>9. QED
    BY <2>1, <2>5, <2>6, <2>7, <2>8, GotoFields, WritingKeeps
<1>2. CASE ~(Claimable(e) /\ Exportable)
  <2>1. Goto(w, "conflict") /\ Silent
    BY <1>2 DEF Claim, Silent
  <2>2. WorkerOK(w)'
    BY <1>o, <2>1, GotoFields DEF WorkerOK, Part, Silent
  <2>3. Monotone
    BY <2>1 DEF Silent, Monotone, Exportable
  <2>4. QED
    BY <2>1, <2>2, <2>3, GotoKeeps
<1>3. QED
  BY <1>1, <1>2

LEMMA CancelExportSafe ==
    ASSUME TypeOK, ExportInv, NEW w \in Workers, CancelExport(w) PROVE ExportInv' /\ Monotone
<1> USE DEF WorkerOnly
<1> DEFINE e == workers[w].export
<1>o. WorkerOK(w) /\ workers[w].pc = "cancel" /\ e \in Exports
  BY DEF ExportInv, TypeOK, CancelExport
<1>1. CASE Cancelable(e)
  <2>1. /\ exports' = [exports EXCEPT ![e] = [@ EXCEPT !.status = "cancelled",
                                 !.owner = NoOwner, !.leased = FALSE, !.sha = NoSha]]
        /\ Goto(w, "cancel_receipt")
        /\ UNCHANGED <<run, lives, manifests, requests, sends, msgs>>
    BY <1>1 DEF CancelExport, Goto
  <2>2. /\ exports'[e].status = "cancelled" /\ exports'[e].sha = NoSha
        /\ exports'[e].past = exports[e].past
        /\ \A x \in Exports \ {e} : exports'[x] = exports[x]
    BY <1>o, <2>1 DEF TypeOK, ExportRecord
  <2>3. Monotone
    BY <1>1, <2>1, <2>2 DEF Monotone, Exportable, Final, Cancelable
  <2>4. WorkerOK(w)'
    BY <1>o, <2>1, <2>2, GotoFields DEF WorkerOK, Part
  <2>5. ASSUME NEW x \in Exports PROVE ItemOK(x)'
    <3>1. CASE x = e
      BY <1>o, <2>1, <2>2, <3>1 DEF ExportInv, ItemOK
    <3>2. CASE x # e
      BY <2>1, <2>2, <3>2 DEF ExportInv, ItemOK
    <3>3. QED
      BY <3>1, <3>2
  <2>6. ReceiptOK'
    BY <2>1, <2>3, ReceiptKeeps
  <2>7. QED
    BY <2>1, <2>3, <2>4, <2>5, <2>6, GotoFields, WritingKeeps
<1>2. CASE ~Cancelable(e)
  <2>1. Raise(w) /\ Silent
    BY <1>2 DEF CancelExport, CancelRejected, Silent
  <2>2. Monotone
    BY <2>1 DEF Silent, Monotone, Exportable
  <2>3. QED
    BY <1>o, <2>1, <2>2, RaiseKeeps
<1>3. QED
  BY <1>1, <1>2

LEMMA CancelReceiptSafe ==
    ASSUME TypeOK, ExportInv, NEW w \in Workers, CancelReceipt(w) PROVE ExportInv' /\ Monotone
<1> USE DEF WorkerOnly
<1> DEFINE e == workers[w].export
<1>o. WorkerOK(w) /\ workers[w].pc = "cancel_receipt" /\ e \in Exports
  BY DEF ExportInv, TypeOK, CancelReceipt
<1>1. /\ run' = [run EXCEPT !.receipt = Receipt(e, "cancelled")] /\ Ack(w)
      /\ UNCHANGED <<exports, lives, manifests, requests, sends>> /\ ~exports[e].past
      /\ msgs' = [msgs EXCEPT ![e] = "deleted"] /\ exports[e].status = "cancelled"
  BY <1>o DEF CancelReceipt, Ack, WorkerOK
<1>2. run'.status = run.status /\ run'.receipt = Receipt(e, "cancelled")
  BY <1>1 DEF TypeOK, RunRecord
<1>3. Monotone
  BY <1>1, <1>2 DEF Monotone, Exportable
<1>4. WorkerOK(w)' /\ \A v \in Workers \ {w} : workers'[v] = workers[v]
  BY <1>1, EndFields DEF WorkerOK
<1>5. \A x \in Exports : ItemOK(x)'
  BY <1>1 DEF ExportInv, ItemOK
<1>6. ReceiptOK'
  BY <1>o, <1>1, <1>2 DEF ReceiptOK, ReceiptIsTrue, Receipt, TypeOK
<1>7. QED
  BY <1>1, <1>3, <1>4, <1>5, <1>6, WritingKeeps

LEMMA PutManifestSafe ==
    ASSUME TypeOK, ExportInv, NEW w \in Workers, PutManifest(w) PROVE ExportInv' /\ Monotone
<1> USE DEF WorkerOnly
<1> DEFINE e == workers[w].export
           n == workers[w].listed
<1>o. WorkerOK(w) /\ workers[w].pc = "put" /\ e \in Exports /\ n \in Nat /\ n > 0
  BY DEF ExportInv, TypeOK, PutManifest, WorkerRecord, WorkerOK, Part
<1>1. CASE manifests[e] = NoManifest
  <2>1. /\ manifests' = [manifests EXCEPT ![e] = Manifest(w)] /\ Then(w, "commit", n)
        /\ UNCHANGED <<run, exports, lives, requests, sends, msgs>>
    BY <1>1 DEF PutManifest, Then
  <2>2. manifests'[e] = [listed |-> n, life |-> lives[e]]
        /\ \A x \in Exports \ {e} : manifests'[x] = manifests[x]
    BY <1>o, <2>1 DEF TypeOK, Manifest
  <2>3. Monotone
    BY <1>1, <2>1, <2>2 DEF Monotone, Exportable
  <2>4. WorkerOK(w)' /\ \A v \in Workers \ {w} : workers'[v] = workers[v]
    BY <1>o, <2>1, <2>2, ThenFields DEF WorkerOK, Part, Manifest
  <2>5. ASSUME NEW x \in Exports PROVE ItemOK(x)'
    <3>1. CASE x = e
      <4>1. manifests[e].listed = 0
        BY <1>1 DEF NoManifest
      <4>2. exports[e].status = "ready" => exports[e].past
        <5>1. CASE exports[e].status = "ready" /\ ~exports[e].past
          <6>1. manifests[e] = [listed |-> exports[e].sha, life |-> lives[e]] /\ exports[e].sha > 0
            BY <1>o, <5>1 DEF ExportInv, ItemOK
          <6>2. exports[e].sha = 0
            BY <4>1, <6>1
          <6>3. QED
            BY <6>1, <6>2
        <5>2. QED
          BY <1>o, <5>1 DEF TypeOK, ExportRecord
      <4>3. QED
        BY <2>1, <3>1, <4>2 DEF ExportInv, ItemOK
    <3>2. CASE x # e
      BY <2>1, <2>2, <3>2 DEF ExportInv, ItemOK
    <3>3. QED
      BY <3>1, <3>2
  <2>6. ReceiptOK'
    BY <2>1, <2>3, ReceiptKeeps
  <2>7. QED
    BY <2>1, <2>3, <2>4, <2>5, <2>6, WritingKeeps
<1>2. CASE manifests[e] # NoManifest
  <2>1. Silent /\ (Raise(w) \/ (SameManifest(w) /\ Then(w, "commit", n)))
    BY <1>2 DEF PutManifest, Silent
  <2>2. Monotone
    BY <2>1 DEF Silent, Monotone, Exportable
  <2>3. CASE Raise(w)
    BY <1>o, <2>1, <2>2, <2>3, RaiseKeeps
  <2>4. CASE SameManifest(w) /\ Then(w, "commit", n)
    BY <1>o, <2>1, <2>2, <2>4, ThenKeeps DEF SameManifest, Manifest, Parts
  <2>5. QED
    BY <2>1, <2>3, <2>4
<1>3. QED
  BY <1>1, <1>2

LEMMA CommitSafe ==
    ASSUME TypeOK, ExportInv, NEW w \in Workers, Commit(w) PROVE ExportInv' /\ Monotone
<1> USE DEF WorkerOnly
<1> DEFINE e == workers[w].export
           n == workers[w].listed
<1>o. /\ WorkerOK(w) /\ workers[w].pc = "commit" /\ e \in Exports
      /\ n > 0 /\ manifests[e] = Manifest(w)
  BY DEF ExportInv, TypeOK, Commit, WorkerOK, Part
<1>1. CASE Committable(w)
  <2>1. /\ exports' = [exports EXCEPT ![e] = [@ EXCEPT !.status = "ready", !.owner = NoOwner,
                                                       !.leased = FALSE, !.sha = n]]
        /\ run' = [run EXCEPT !.receipt = Receipt(e, "ready")]
        /\ Ack(w) \/ Raise(w)
    BY <1>1 DEF Commit
  <2>m. UNCHANGED <<lives, manifests, requests, sends>>
    BY DEF Commit
  <2>2. /\ exports'[e].status = "ready" /\ exports'[e].sha = n
        /\ exports'[e].past = exports[e].past
        /\ \A x \in Exports \ {e} : exports'[x] = exports[x]
    BY <1>o, <2>1 DEF TypeOK, ExportRecord
  <2>3. run'.status = run.status /\ run'.receipt = Receipt(e, "ready")
    BY <2>1 DEF TypeOK, RunRecord
  <2>4. exports[e].status = "building"
    BY <1>1 DEF Committable, Owned
  <2>5. Monotone
    BY <2>m, <2>2, <2>3, <2>4 DEF Monotone, Exportable, Final
  <2>6. WorkerOK(w)' /\ \A v \in Workers \ {w} : workers'[v] = workers[v]
    <3>1. CASE Ack(w)
      BY <3>1, EndFields DEF WorkerOK
    <3>2. CASE Raise(w)
      <4>1. /\ workers'[w].pc = "failing" /\ workers'[w].export = e
            /\ \A v \in Workers \ {w} : workers'[v] = workers[v]
        BY <3>2, GotoFields DEF Raise
      <4>2. QED
        BY <1>o, <2>2, <4>1 DEF WorkerOK, Part
    <3>3. QED
      BY <2>1, <3>1, <3>2
  <2>7. ASSUME NEW x \in Exports PROVE ItemOK(x)'
    <3>1. msgs'[x] = msgs[x] \/ (x = e /\ msgs'[x] = "deleted")
      BY <2>1 DEF Ack, Raise, Goto, TypeOK, QueueType
    <3>2. CASE x = e
      BY <1>o, <2>m, <2>2, <3>1, <3>2 DEF ExportInv, ItemOK, WorkerOK, Manifest
    <3>3. CASE x # e
      BY <2>m, <2>2, <3>1, <3>3 DEF ExportInv, ItemOK
    <3>4. QED
      BY <3>2, <3>3
  <2>8. ReceiptOK'
    BY <1>o, <2>m, <2>2, <2>3 DEF ReceiptOK, ReceiptIsTrue, Receipt, TypeOK
  <2>9. QED
    BY <2>m, <2>5, <2>6, <2>7, <2>8, WritingKeeps
<1>2. CASE ~Committable(w)
  <2>1. Goto(w, "recheck") /\ Silent
    BY <1>2 DEF Commit, Silent
  <2>2. WorkerOK(w)'
    BY <1>o, <2>1, GotoFields DEF WorkerOK, Part, Silent
  <2>3. Monotone
    BY <2>1 DEF Silent, Monotone, Exportable
  <2>4. QED
    BY <2>1, <2>2, <2>3, GotoKeeps
<1>3. QED
  BY <1>1, <1>2

LEMMA ResetSafe ==
    ASSUME TypeOK, ExportInv, NEW w \in Workers, Reset(w) PROVE ExportInv' /\ Monotone
<1> USE DEF WorkerOnly
<1> DEFINE e == workers[w].export
<1>o. WorkerOK(w) /\ workers[w].pc = "failing" /\ e \in Exports
  BY DEF ExportInv, TypeOK, Reset
<1>1. GiveUp(w) /\ UNCHANGED <<run, lives, manifests, requests, sends, msgs>>
  BY DEF Reset, GiveUp
<1>2. CASE exports' = [exports EXCEPT ![e] = [@ EXCEPT !.status = "queued",
                               !.owner = NoOwner, !.leased = FALSE]] /\ Resettable(w)
  <2>1. /\ exports'[e].status = "queued" /\ exports'[e].sha = exports[e].sha
        /\ exports'[e].past = exports[e].past
        /\ \A x \in Exports \ {e} : exports'[x] = exports[x]
    BY <1>o, <1>2 DEF TypeOK, ExportRecord
  <2>2. exports[e].status = "building"
    BY <1>2 DEF Resettable, Owned
  <2>3. Monotone
    BY <1>1, <2>1, <2>2 DEF Monotone, Exportable, Final
  <2>4. WorkerOK(w)' /\ \A v \in Workers \ {w} : workers'[v] = workers[v]
    BY <1>1, EndFields DEF WorkerOK
  <2>5. ASSUME NEW x \in Exports PROVE ItemOK(x)'
    <3>1. CASE x = e
      BY <1>1, <2>1, <2>2, <3>1 DEF ExportInv, ItemOK
    <3>2. CASE x # e
      BY <1>1, <2>1, <3>2 DEF ExportInv, ItemOK
    <3>3. QED
      BY <3>1, <3>2
  <2>6. ReceiptOK'
    BY <1>1, <2>3, ReceiptKeeps
  <2>7. QED
    BY <1>1, <2>3, <2>4, <2>5, <2>6, WritingKeeps
<1>3. CASE UNCHANGED exports
  <2>1. Silent /\ Monotone
    BY <1>1, <1>3 DEF Silent, Monotone, Exportable
  <2>2. QED
    BY <1>1, <2>1, GiveUpKeeps
<1>4. QED
  BY <1>2, <1>3 DEF Reset

LEMMA WorkerSafe ==
    ASSUME TypeOK, ExportInv, NEW w \in Workers, WorkerStep(w) \/ WorkerRaises(w) \/ WorkerDies(w)
    PROVE  ExportInv'
BY ReadingSafe, ClaimSafe, CancelExportSafe, CancelReceiptSafe, PutManifestSafe, CommitSafe,
   ResetSafe DEF WorkerStep

\* The queue, the lease, the run and the lifecycle rule.
LEMMA EnvironmentSafe ==
    ASSUME TypeOK, ExportInv,
           \/ \E e \in Exports : LeaseExpires(e) \/ Redeliver(e)
           \/ RunFails \/ ObjectExpires
    PROVE  ExportInv'
<1> USE DEF WorkerOnly, queue
<1>1. UNCHANGED <<workers, requests, sends, manifests, lives>>
  BY DEF LeaseExpires, Redeliver, RunFails, ObjectExpires
<1>2. \A x \in Exports : /\ exports'[x].status = exports[x].status
                         /\ exports'[x].sha = exports[x].sha /\ exports'[x].past = exports[x].past
  BY DEF LeaseExpires, Redeliver, RunFails, ObjectExpires, TypeOK, ExportRecord
<1>3. run'.receipt = run.receipt /\ (~Exportable => ~Exportable')
  <2>1. CASE RunFails
    BY <2>1 DEF TypeOK, RunFails, RunRecord, Exportable
  <2>2. CASE UNCHANGED run
    BY <2>2 DEF Exportable
  <2>3. QED
    BY <2>1, <2>2 DEF LeaseExpires, Redeliver, ObjectExpires
<1>4. \A x \in Exports : msgs'[x] = msgs[x]
                         \/ (msgs[x] = "inflight" /\ msgs'[x] \in {"dlq", "visible"})
  BY DEF LeaseExpires, Redeliver, RunFails, ObjectExpires, TypeOK, QueueType
<1>5. Monotone
  BY <1>1, <1>2, <1>3 DEF Monotone
<1>6. ASSUME NEW w \in Workers PROVE WorkerOK(w)'
  <2>1. WorkerOK(w) /\ (workers[w].pc # "idle" => workers[w].export \in Exports)
    BY DEF ExportInv, TypeOK
  <2>2. QED
    BY <1>1, <1>2, <1>3, <2>1 DEF WorkerOK, Part, Manifest
<1>7. ASSUME NEW x \in Exports PROVE ItemOK(x)'
  BY <1>1, <1>2, <1>4 DEF ExportInv, ItemOK
<1>8. \A r \in Requests : RequestOK(r)'
  BY <1>1, <1>5, RequestsKeep
<1>9. ReceiptOK'
  BY <1>3, <1>5, ReceiptKeeps
<1>10. QED
  BY <1>6, <1>7, <1>8, <1>9 DEF ExportInv

\* The days that pass: nothing is under way for an item that is over, so that what is
\* deleted is what nobody relies on.
LEMMA AgingSafe ==
    ASSUME TypeOK, ExportInv, NEW e \in Exports,
           DayPasses(e) \/ ItemExpires(e) \/ ManifestExpires(e)
    PROVE  ExportInv'
<1> USE DEF queue
<1>1. UNCHANGED <<run, requests, workers>> /\ \A x \in Exports \ {e} :
          /\ exports'[x] = exports[x] /\ lives'[x] = lives[x] /\ manifests'[x] = manifests[x]
          /\ msgs'[x] = msgs[x] /\ sends'[x] = sends[x]
  BY DEF DayPasses, ItemExpires, ManifestExpires, TypeOK, QueueType
<1>2. Exportable' = Exportable
  BY <1>1 DEF Exportable
<1>w. \A w \in Workers : WorkerOK(w) /\ (workers[w].pc # "idle" => workers[w].export \in Exports)
  BY DEF ExportInv, TypeOK
<1>q. \A r \in Requests : RequestOK(r) /\ (requests[r].pc = "send" => requests[r].export \in Exports)
  BY DEF ExportInv, TypeOK
<1>i. ItemOK(e)
  BY DEF ExportInv
<1>3. ASSUME NEW w \in Workers, workers[w].pc # "idle" => workers[w].export # e
      PROVE  WorkerOK(w)'
  <2>1. CASE workers[w].pc = "idle"
    BY <1>1, <2>1 DEF WorkerOK
  <2>2. CASE workers[w].pc # "idle"
    <3>1. PICK x \in Exports \ {e} : x = workers[w].export
      BY <1>3, <1>w, <2>2
    <3>2. QED
      BY <1>1, <1>2, <1>w, <3>1 DEF WorkerOK, Part, Manifest
  <2>3. QED
    BY <2>1, <2>2
<1>4. ASSUME \A r \in Requests : requests[r].pc = "send" => requests[r].export # e
      PROVE  \A r \in Requests : RequestOK(r)'
  BY <1>1, <1>4, <1>q DEF RequestOK
<1>5. \A x \in Exports \ {e} : ItemOK(x)'
  BY <1>1 DEF ExportInv, ItemOK
<1>6. CASE DayPasses(e)
  <2>1. /\ exports'[e].status = exports[e].status /\ exports'[e].sha = exports[e].sha
        /\ exports'[e].past /\ UNCHANGED <<lives, manifests, msgs, sends>>
    BY <1>6 DEF DayPasses, TypeOK, ExportRecord
  <2>2. /\ \A w \in Workers : workers[w].export # e
        /\ \A r \in Requests : requests[r].pc = "send" => requests[r].export # e
        /\ msgs[e] \notin {"visible", "inflight"}
    BY <1>6 DEF DayPasses, Quiet
  <2>3. ItemOK(e)'
    <3>1. exports[e].status # "absent"
      BY <1>6 DEF DayPasses
    <3>2. QED
      BY <1>i, <2>1, <2>2, <3>1 DEF ItemOK
  <2>4. ReceiptOK'
    <3>1. \A x \in Exports : exports'[x].status = exports[x].status
      BY <1>1, <2>1
    <3>2. QED
      BY <1>1, <2>1, <3>1 DEF ExportInv, ReceiptOK, ReceiptIsTrue
  <2>5. QED
    BY <1>3, <1>4, <1>5, <2>2, <2>3, <2>4 DEF ExportInv
<1>7. CASE ItemExpires(e)
  <2>1. /\ exports'[e].status = "absent" /\ exports'[e].sha = NoSha /\ ~exports'[e].past
        /\ lives'[e] = lives[e] + 1 /\ msgs'[e] = "unsent" /\ sends'[e] = 0
    BY <1>7 DEF ItemExpires, TypeOK, QueueType, NoItem
  <2>2. /\ \A w \in Workers : workers[w].pc # "idle" => workers[w].export # e
        /\ \A r \in Requests : requests[r].pc = "send" => requests[r].export # e
    BY <1>7, <1>w, <1>q DEF ItemExpires, WorkerOK, RequestOK
  <2>3. ItemOK(e)'
    BY <2>1, SMT DEF ItemOK
  <2>4. ReceiptOK'
    <3>1. run.receipt.life \in Nat /\ \A x \in Exports : lives[x] \in Nat
      BY DEF TypeOK, RunRecord
    <3>2. QED
      BY <1>1, <2>1, <3>1 DEF ExportInv, ReceiptOK, ReceiptIsTrue
  <2>5. QED
    BY <1>3, <1>4, <1>5, <2>2, <2>3, <2>4 DEF ExportInv
<1>8. CASE ManifestExpires(e)
  <2>1. UNCHANGED <<exports, lives, msgs, sends>> /\ manifests[e] # NoManifest
        /\ (manifests[e].life = lives[e] => exports[e].past)
    BY <1>8 DEF ManifestExpires
  <2>2. ASSUME NEW w \in Workers PROVE WorkerOK(w)'
    <3>1. CASE workers[w].pc # "idle" /\ workers[w].export = e
      <4>1. manifests[e].life # lives[e]
        BY <1>w, <2>1, <3>1 DEF WorkerOK
      <4>2. Part(w) # "commit"
        <5>1. SUFFICES ASSUME Part(w) = "commit" PROVE FALSE
          OBVIOUS
        <5>2. manifests[e] = [listed |-> workers[w].listed, life |-> lives[e]]
          BY <1>w, <3>1, <5>1 DEF WorkerOK, Manifest
        <5>3. QED
          BY <4>1, <5>2
      <4>3. QED
        BY <1>1, <1>2, <1>w, <2>1, <3>1, <4>2 DEF WorkerOK, Part
    <3>2. QED
      BY <1>3, <3>1
  <2>3. ItemOK(e)'
    BY <1>i, <2>1 DEF ItemOK
  <2>4. \A r \in Requests : RequestOK(r)'
    BY <1>1, <1>q, <2>1 DEF RequestOK
  <2>5. ReceiptOK'
    BY <1>1, <2>1 DEF ExportInv, ReceiptOK, ReceiptIsTrue
  <2>6. QED
    BY <1>5, <2>2, <2>3, <2>4, <2>5 DEF ExportInv
<1>9. QED
  BY <1>6, <1>7, <1>8

LEMMA InvNext == TypeOK /\ ExportInv /\ [Next]_vars => ExportInv'
<1> SUFFICES ASSUME TypeOK, ExportInv, [Next]_vars PROVE ExportInv'
  OBVIOUS
<1>1. ASSUME NEW w \in Workers, NEW e \in Exports, Receive(w, e) \/ ReceiveDuplicate(w, e)
      PROVE  ExportInv'
  <2>1. ~exports[e].past
    BY <1>1 DEF Receive, ReceiveDuplicate, ExportInv, ItemOK
  <2>2. QED
    BY <1>1, <2>1, DeliverKeeps DEF Receive, ReceiveDuplicate, WorkerOnly, Silent
<1>2. CASE UNCHANGED vars
  <2>1. \A w \in Workers : WorkerOK(w)'
    BY <1>2 DEF vars, ExportInv, WorkerOK, Part, Exportable, Manifest
  <2>2. \A e \in Exports : ItemOK(e)'
    BY <1>2 DEF vars, queue, ExportInv, ItemOK
  <2>3. \A r \in Requests : RequestOK(r)'
    BY <1>2 DEF vars, queue, ExportInv, RequestOK
  <2>4. ReceiptOK'
    BY <1>2 DEF vars, ExportInv, ReceiptOK, ReceiptIsTrue
  <2>5. QED
    BY <2>1, <2>2, <2>3, <2>4 DEF ExportInv
<1>3. QED
  BY <1>1, <1>2, RequestSafe, WorkerSafe, EnvironmentSafe, AgingSafe DEF Next

LEMMA InvCorrect == Spec => []ExportInv
<1>1. Init => ExportInv
  BY InvInit
<1>2. TypeOK /\ ExportInv /\ [Next]_vars => ExportInv'
  BY InvNext
<1>3. QED
  BY <1>1, <1>2, TypeCorrect, PTL DEF Spec

\* The hash a ready export reports is that of the manifest stored for this very item, as
\* long as the item is valid.
THEOREM ReadyHashIsStored == Spec => []ReadyMatchesManifest
<1>1. ExportInv => ReadyMatchesManifest
  BY DEF ExportInv, ItemOK, ReadyMatchesManifest
<1>2. QED
  BY <1>1, InvCorrect, PTL

\* A deleted message means a ready or a canceled export, in every interleaving of claims,
\* conflicts, cancellations, crashes and repeated deliveries.
THEOREM DeletedMeansEnded == Spec => []NoExportLost
<1>1. ExportInv => NoExportLost
  BY DEF ExportInv, ItemOK, NoExportLost
<1>2. QED
  BY <1>1, InvCorrect, PTL

\* An item is queued once, however many requests ask for it, and an export is queued again
\* only when its item was deleted.
THEOREM OneMessagePerItem == Spec => []QueuedOncePerItem
<1>1. ASSUME ExportInv, NEW e \in Exports
      PROVE  sends[e] <= 1 /\ (sends[e] = 1 => exports[e].status # "absent")
  <2>1. sends[e] <= 1 /\ (exports[e].status = "absent" => sends[e] = 0)
    BY <1>1 DEF ExportInv, ItemOK
  <2>2. sends[e] = 0 => sends[e] # 1
    OBVIOUS
  <2>3. QED
    BY <2>1, <2>2
<1>2. ExportInv => QueuedOncePerItem
  BY <1>1 DEF QueuedOncePerItem
<1>3. QED
  BY <1>2, InvCorrect, PTL

\* The final receipt in the run item is that of an export in that state, unless the item it
\* was taken from was deleted.
THEOREM FinalReceiptIsTrue == Spec => []ReceiptIsTrue
<1>1. ExportInv => ReceiptIsTrue
  BY DEF ExportInv, ReceiptOK
<1>2. QED
  BY <1>1, InvCorrect, PTL

-----------------------------------------------------------------------------
(* The refinement.                                                         *)

jobs == [e \in Exports |-> JobState(e)]
shas == [e \in Exports |-> exports[e].sha]

\* The abstract state depends on the status and the hash of the items and on the run.
LEMMA JobStutters ==
    ASSUME Exportable' = Exportable,
           \A e \in Exports : JobState(e)' = JobState(e) /\ exports'[e].sha = exports[e].sha
    PROVE  UNCHANGED <<Exportable, jobs, shas>>
BY DEF jobs, shas

LEMMA JobMoves ==
    ASSUME NEW e \in Exports, \A x \in Exports \ {e} : exports'[x] = exports[x]
    PROVE  /\ jobs' = [jobs EXCEPT ![e] = JobState(e)']
           /\ shas' = [shas EXCEPT ![e] = exports'[e].sha]
           /\ jobs[e] = JobState(e) /\ shas[e] = exports[e].sha
<1>1. \A x \in Exports \ {e} : JobState(x)' = JobState(x)
  BY DEF JobState
<1>2. QED
  BY <1>1 DEF jobs, shas

LEMMA JobInit == Init => Job!Init
BY DEF Init, Job!Init, JobState, Exportable, NoItem, NoSha

LEMMA RequestRefines ==
    ASSUME TypeOK, ExportInv, NEW r \in Requests,
           RequestStep(r) \/ RequestDies(r) \/ \E e \in Exports : AskForExport(r, e)
    PROVE  Job!Next \/ UNCHANGED <<Exportable, jobs, shas>>
<1> USE DEF RequestOnly
<1>1. CASE UNCHANGED <<run, exports>>
  <2>1. UNCHANGED <<Exportable, jobs, shas>>
    BY <1>1, JobStutters DEF Exportable, JobState
  <2>2. QED
    BY <2>1
<1>2. CASE PutItem(r) /\ exports[requests[r].export].status = "absent"
  <2>0. PICK e \in Exports : e = requests[r].export
    BY <1>2 DEF PutItem, TypeOK
  <2>1. /\ e \in Exports /\ exports' = [exports EXCEPT ![e].status = "queued"] /\ UNCHANGED run
    BY <1>2, <2>0 DEF PutItem
  <2>2. /\ exports'[e].status = "queued" /\ exports'[e].sha = exports[e].sha
        /\ \A x \in Exports \ {e} : exports'[x] = exports[x]
    BY <2>1 DEF TypeOK, ExportRecord
  <2>3. JobState(e) = "none" /\ JobState(e)' = "pending"
    BY <1>2, <2>0, <2>2 DEF JobState
  <2>4. /\ jobs[e] = "none" /\ jobs' = [jobs EXCEPT ![e] = "pending"] /\ UNCHANGED shas
        /\ Exportable' = Exportable
    <3>1. shas' = [shas EXCEPT ![e] = shas[e]] /\ shas = [x \in Exports |-> shas[x]]
      BY <2>1, <2>2, JobMoves DEF shas
    <3>2. UNCHANGED shas
      BY <3>1
    <3>3. QED
      BY <2>1, <2>2, <2>3, <3>2, JobMoves DEF Exportable
  <2>5. Job!Ask(e)
    BY <2>4 DEF Job!Ask, jobs, shas
  <2>6. QED
    BY <2>1, <2>5 DEF Job!Next
<1>3. QED
  BY <1>1, <1>2
     DEF RequestStep, LookUpExport, PutItem, SendMessage, RequestDies, AskForExport

LEMMA WorkerRefines ==
    ASSUME TypeOK, ExportInv, NEW w \in Workers, WorkerStep(w) \/ WorkerRaises(w) \/ WorkerDies(w)
    PROVE  Job!Next \/ UNCHANGED <<Exportable, jobs, shas>>
<1> USE DEF WorkerOnly
<1>0. PICK e : e = workers[w].export
  OBVIOUS
<1>e. workers[w].pc # "idle" => e \in Exports
  BY <1>0 DEF TypeOK
<1>1. CASE UNCHANGED <<run, exports>>
  <2>1. UNCHANGED <<Exportable, jobs, shas>>
    BY <1>1, JobStutters DEF Exportable, JobState
  <2>2. QED
    BY <2>1
<1>2. CASE Claim(w) /\ Claimable(e) /\ Exportable
  <2>1. /\ exports' = [exports EXCEPT ![e] = [@ EXCEPT !.status = "building",
                                                       !.owner = workers[w].rid, !.leased = TRUE]]
        /\ run' = [run EXCEPT !.receipt = Receipt(e, "building")] /\ e \in Exports
    BY <1>0, <1>2, <1>e DEF Claim
  <2>2. /\ exports'[e].status = "building" /\ exports'[e].sha = exports[e].sha
        /\ \A x \in Exports \ {e} : exports'[x] = exports[x]
    BY <2>1 DEF TypeOK, ExportRecord
  <2>3. Exportable' = Exportable
    BY <2>1 DEF TypeOK, RunRecord, Exportable
  <2>4. JobState(e)' = JobState(e)
    BY <1>2, <2>2 DEF JobState, Claimable
  <2>5. \A x \in Exports : JobState(x)' = JobState(x) /\ exports'[x].sha = exports[x].sha
    BY <2>2, <2>4 DEF JobState
  <2>6. QED
    BY <2>3, <2>5, JobStutters
<1>3. CASE CancelExport(w) /\ Cancelable(e)
  <2>1. /\ exports' = [exports EXCEPT ![e] = [@ EXCEPT !.status = "cancelled",
                                 !.owner = NoOwner, !.leased = FALSE, !.sha = NoSha]]
        /\ UNCHANGED run /\ e \in Exports /\ ~Exportable /\ exports[e].status # "absent"
        /\ exports[e].sha = NoSha
    BY <1>0, <1>3, <1>e DEF CancelExport, Cancelable, ExportInv, WorkerOK, ItemOK
  <2>2. /\ exports'[e].status = "cancelled" /\ exports'[e].sha = NoSha
        /\ \A x \in Exports \ {e} : exports'[x] = exports[x]
    BY <2>1 DEF TypeOK, ExportRecord
  <2>3. CASE exports[e].status = "cancelled"
    <3>1. \A x \in Exports : JobState(x)' = JobState(x) /\ exports'[x].sha = exports[x].sha
      BY <2>1, <2>2, <2>3 DEF JobState
    <3>2. QED
      BY <2>1, <3>1, JobStutters DEF Exportable
  <2>4. CASE exports[e].status # "cancelled"
    <3>1. JobState(e) = "pending" /\ JobState(e)' = "cancelled"
      BY <1>3, <2>1, <2>2, <2>4 DEF JobState, Cancelable, TypeOK, ExportRecord
    <3>2. shas' = [shas EXCEPT ![e] = shas[e]] /\ shas = [x \in Exports |-> shas[x]]
      BY <2>1, <2>2, JobMoves DEF shas
    <3>3. UNCHANGED shas
      BY <3>2
    <3>4. /\ jobs[e] = "pending" /\ jobs' = [jobs EXCEPT ![e] = "cancelled"]
          /\ Exportable' = Exportable
      BY <2>1, <2>2, <3>1, JobMoves DEF Exportable
    <3>5. Job!Withdraw(e)
      BY <2>1, <3>3, <3>4 DEF Job!Withdraw, jobs, shas
    <3>6. QED
      BY <2>1, <3>5 DEF Job!Next
  <2>5. QED
    BY <2>3, <2>4
<1>4. CASE CancelReceipt(w)
  <2>1. UNCHANGED exports /\ Exportable' = Exportable
    BY <1>4 DEF CancelReceipt, TypeOK, RunRecord, Exportable
  <2>2. QED
    BY <2>1, JobStutters DEF JobState
<1>5. CASE PutManifest(w)
  BY <1>1, <1>5 DEF PutManifest
<1>6. CASE Commit(w) /\ Committable(w)
  <2>1. /\ exports' = [exports EXCEPT ![e] = [@ EXCEPT !.status = "ready", !.owner = NoOwner,
                                              !.leased = FALSE, !.sha = workers[w].listed]]
        /\ run' = [run EXCEPT !.receipt = Receipt(e, "ready")]
        /\ e \in Exports /\ Exportable /\ exports[e].status = "building"
        /\ workers[w].listed \in 1..Objects
    <3>1. WorkerOK(w) /\ workers[w].listed \in 0..Objects
      BY DEF ExportInv, TypeOK, WorkerRecord
    <3>2. workers[w].listed \in 1..Objects
      BY <1>6, <3>1, ScaleExportAssumption DEF ScaleExportAssumption, Commit, WorkerOK, Part
    <3>3. QED
      BY <1>0, <1>6, <1>e, <3>2 DEF Commit, Committable, Owned
  <2>2. /\ exports'[e].status = "ready" /\ exports'[e].sha = workers[w].listed
        /\ \A x \in Exports \ {e} : exports'[x] = exports[x]
    BY <2>1 DEF TypeOK, ExportRecord
  <2>3. Exportable' = Exportable
    BY <2>1 DEF TypeOK, RunRecord, Exportable
  <2>4. JobState(e) = "pending" /\ JobState(e)' = "ready"
    BY <2>1, <2>2 DEF JobState
  <2>5. /\ jobs[e] = "pending" /\ jobs' = [jobs EXCEPT ![e] = "ready"]
        /\ shas' = [shas EXCEPT ![e] = workers[w].listed]
    BY <2>1, <2>2, <2>4, JobMoves
  <2>6. Job!Release(e)
    BY <2>1, <2>3, <2>5 DEF Job!Release, jobs, shas
  <2>7. QED
    BY <2>1, <2>6 DEF Job!Next
<1>7. CASE Reset(w) /\ Resettable(w) /\ ~UNCHANGED exports
  <2>1. /\ exports' = [exports EXCEPT ![e] = [@ EXCEPT !.status = "queued",
                               !.owner = NoOwner, !.leased = FALSE]]
        /\ UNCHANGED run /\ e \in Exports /\ exports[e].status = "building"
    BY <1>0, <1>7, <1>e DEF Reset, Resettable, Owned
  <2>2. /\ exports'[e].status = "queued" /\ exports'[e].sha = exports[e].sha
        /\ \A x \in Exports \ {e} : exports'[x] = exports[x]
    BY <2>1 DEF TypeOK, ExportRecord
  <2>3. \A x \in Exports : JobState(x)' = JobState(x) /\ exports'[x].sha = exports[x].sha
    BY <2>1, <2>2 DEF JobState
  <2>4. QED
    BY <2>1, <2>3, JobStutters DEF Exportable
<1>8. QED
  BY <1>0, <1>1, <1>2, <1>3, <1>4, <1>5, <1>6, <1>7
     DEF WorkerStep, WorkerRaises, WorkerDies, ReadRun, ReadExport, Claim, Conflict, CancelExport,
         AssertRun, AssertOwner, ListSources, HashSources, Commit, Recheck, Reset

LEMMA JobNext ==
    ASSUME TypeOK, ExportInv, [Next]_vars
    PROVE  Job!Next \/ UNCHANGED <<Exportable, jobs, shas>>
<1> USE DEF WorkerOnly, queue
<1>1. CASE UNCHANGED <<run, exports>>
  <2>1. UNCHANGED <<Exportable, jobs, shas>>
    BY <1>1, JobStutters DEF Exportable, JobState
  <2>2. QED
    BY <2>1
<1>2. ASSUME NEW e \in Exports, LeaseExpires(e)
      PROVE  UNCHANGED <<Exportable, jobs, shas>>
  <2>1. \A x \in Exports : exports'[x].status = exports[x].status /\ exports'[x].sha = exports[x].sha
    BY <1>2 DEF LeaseExpires, TypeOK, ExportRecord
  <2>2. UNCHANGED run
    BY <1>2 DEF LeaseExpires
  <2>3. QED
    BY <2>1, <2>2, JobStutters DEF Exportable, JobState
<1>3. CASE RunFails
  <2>1. UNCHANGED exports /\ Exportable /\ ~Exportable'
    BY <1>3 DEF RunFails, Exportable, TypeOK, RunRecord
  <2>2. UNCHANGED <<jobs, shas>>
    BY <2>1 DEF jobs, shas, JobState
  <2>3. Job!Close
    BY <2>1, <2>2 DEF Job!Close, jobs, shas
  <2>4. QED
    BY <2>3 DEF Job!Next
<1>4. ASSUME NEW e \in Exports, DayPasses(e)
      PROVE  UNCHANGED <<Exportable, jobs, shas>>
  <2>1. \A x \in Exports : exports'[x].status = exports[x].status /\ exports'[x].sha = exports[x].sha
    BY <1>4 DEF DayPasses, TypeOK, ExportRecord
  <2>2. UNCHANGED run
    BY <1>4 DEF DayPasses
  <2>3. QED
    BY <2>1, <2>2, JobStutters DEF Exportable, JobState
<1>5. ASSUME NEW e \in Exports, ItemExpires(e) PROVE Job!Next
  <2>1. /\ exports'[e].status = "absent" /\ exports'[e].sha = NoSha /\ UNCHANGED run
        /\ \A x \in Exports \ {e} : exports'[x] = exports[x]
    BY <1>5 DEF ItemExpires, TypeOK, NoItem
  <2>2. exports[e].status # "absent"
    BY <1>5 DEF ItemExpires, ExportInv, ItemOK
  <2>3. JobState(e) # "none" /\ JobState(e)' = "none"
    BY <2>1, <2>2 DEF JobState, TypeOK, ExportRecord
  <2>4. /\ jobs[e] # "none" /\ jobs' = [jobs EXCEPT ![e] = "none"]
        /\ shas' = [shas EXCEPT ![e] = NoSha] /\ Exportable' = Exportable
    BY <2>1, <2>3, JobMoves DEF Exportable
  <2>5. Job!Lapse(e)
    BY <2>4 DEF Job!Lapse, jobs, shas
  <2>6. QED
    BY <2>5 DEF Job!Next
<1>6. QED
  BY <1>1, <1>2, <1>3, <1>4, <1>5, RequestRefines, WorkerRefines
     DEF vars, Next, Receive, ReceiveDuplicate, Redeliver, ObjectExpires, ManifestExpires

\* The implementation with its queue, leases, retries and times to live behaves as an Export
\* Job: it releases an export at most once until it lapses, with contents that do not change,
\* only while the run can be exported, and withdraws it only when the run cannot.
THEOREM ExportRefinement == Spec => ImplementsExportJob
<1>1. Init => Job!Init
  BY JobInit
<1>2. TypeOK /\ ExportInv /\ [Next]_vars
        => [Job!Next]_<<Exportable, [e \in Exports |-> JobState(e)],
                        [e \in Exports |-> exports[e].sha]>>
  BY JobNext DEF jobs, shas
<1>3. QED
  BY <1>1, <1>2, TypeCorrect, InvCorrect, PTL DEF Spec, ImplementsExportJob, Job!Spec

-----------------------------------------------------------------------------
(* The lease.                                                              *)

\* The request identifiers of an export's invocations are different, and an invocation
\* that owns the export and still runs has its lease.
LeaseInv ==
    /\ \A w \in Workers : workers[w].pc # "idle" =>
          workers[w].rid <= receives[workers[w].export]
    /\ \A w \in Workers : workers[w].pc = "idle" => workers[w].export = NoExport
    /\ \A v, w \in Workers :
          /\ workers[v].pc # "idle" /\ workers[w].pc # "idle"
          /\ workers[v].export = workers[w].export /\ workers[v].rid = workers[w].rid
          => v = w
    /\ \A e \in Exports : exports[e].owner <= receives[e]
    /\ \A w \in Workers : workers[w].pc # "idle" /\ Owned(w) =>
          exports[workers[w].export].leased

\* The other fields of a worker are of no interest here.
SameInvocation(w) == /\ workers'[w].export = workers[w].export
                     /\ workers'[w].rid = workers[w].rid
                     /\ workers'[w].pc # "idle" <=> workers[w].pc # "idle"

Ended(w) == workers'[w].pc = "idle" /\ workers'[w].export = NoExport

LEMMA LeaseInit == Init => LeaseInv
<1> SUFFICES ASSUME Init PROVE LeaseInv
  OBVIOUS
<1>1. \A w \in Workers : workers[w].pc = "idle" /\ workers[w].export = NoExport
  BY DEF Init, IdleWorker
<1>2. \A e \in Exports : exports[e].owner = 0 /\ receives[e] = 0
  BY DEF Init, NoItem, NoOwner
<1>3. QED
  BY <1>1, <1>2 DEF LeaseInv

\* What a step of a worker does to the invocations.
LEMMA WorkerInvocations ==
    ASSUME TypeOK, NEW w \in Workers, WorkerStep(w) \/ WorkerRaises(w) \/ WorkerDies(w)
    PROVE  /\ SameInvocation(w) \/ Ended(w)
           /\ workers[w].pc # "idle"
           /\ \A v \in Workers \ {w} : workers'[v] = workers[v]
           /\ UNCHANGED receives
<1>p. workers[w].next # "idle"
  BY DEF TypeOK, WorkerRecord, Parts
<1>1. (\E pc : pc # "idle" /\ Goto(w, pc)) \/ (\E part, n : Then(w, part, n)) \/ Ack(w) \/ GiveUp(w)
  BY <1>p DEF WorkerStep, WorkerRaises, WorkerDies, ReadRun, ReadExport, Claim, Conflict,
              CancelExport, CancelRejected, CancelReceipt, AssertRun, AssertOwner, ListSources,
              HashSources, PutManifest, Commit, Recheck, Reset, Raise
<1>2. workers[w].pc # "idle" /\ UNCHANGED receives
  BY DEF WorkerStep, WorkerRaises, WorkerDies, ReadRun, ReadExport, Claim, Conflict,
         CancelExport, CancelReceipt, AssertRun, AssertOwner, ListSources,
         HashSources, PutManifest, Commit, Recheck, Reset
<1>3. ASSUME NEW pc, pc # "idle", Goto(w, pc)
      PROVE  SameInvocation(w) /\ \A v \in Workers \ {w} : workers'[v] = workers[v]
  BY <1>2, <1>3, GotoFields DEF SameInvocation
<1>4. ASSUME NEW part, NEW n, Then(w, part, n)
      PROVE  SameInvocation(w) /\ \A v \in Workers \ {w} : workers'[v] = workers[v]
  BY <1>2, <1>4, ThenFields DEF SameInvocation
<1>5. CASE Ack(w) \/ GiveUp(w)
  BY <1>2, <1>5, EndFields DEF Ended
<1>6. QED
  BY <1>1, <1>2, <1>3, <1>4, <1>5

\* What a step of a worker does to the ownership of its export.
Ownership(w) ==
    LET e == workers[w].export IN
      \/ \A x \in Exports : exports'[x].owner = exports[x].owner
                            /\ exports'[x].leased = exports[x].leased
                            /\ exports'[x].status = exports[x].status
      \/ /\ exports'[e].owner = workers[w].rid /\ exports'[e].leased
         /\ exports[e].status = "queued" \/ ~exports[e].leased
         /\ \A x \in Exports \ {e} : exports'[x] = exports[x]
      \/ /\ exports'[e].owner = NoOwner
         /\ exports'[e].status \in Final \/ (Owned(w) /\ Ended(w))
         /\ \A x \in Exports \ {e} : exports'[x] = exports[x]

LEMMA WorkerOwnership ==
    ASSUME TypeOK, NEW w \in Workers, WorkerStep(w) \/ WorkerRaises(w) \/ WorkerDies(w)
    PROVE  Ownership(w)
<1> DEFINE e == workers[w].export
<1>e. e \in Exports
  BY WorkerInvocations DEF TypeOK
<1>1. CASE UNCHANGED exports
  BY <1>1 DEF Ownership
<1>2. CASE Claim(w) /\ Claimable(e) /\ Exportable
  <2>1. exports' = [exports EXCEPT ![e] = [@ EXCEPT !.status = "building",
                                                    !.owner = workers[w].rid, !.leased = TRUE]]
    BY <1>2 DEF Claim
  <2>2. /\ exports'[e].owner = workers[w].rid /\ exports'[e].leased
        /\ \A x \in Exports \ {e} : exports'[x] = exports[x]
    BY <1>e, <2>1 DEF TypeOK, ExportRecord
  <2>3. QED
    BY <1>2, <2>2 DEF Claimable, Ownership
<1>3. CASE CancelExport(w) /\ Cancelable(e)
  <2>1. exports' = [exports EXCEPT ![e] = [@ EXCEPT !.status = "cancelled",
                                 !.owner = NoOwner, !.leased = FALSE, !.sha = NoSha]]
    BY <1>3 DEF CancelExport
  <2>2. /\ exports'[e].owner = NoOwner /\ exports'[e].status = "cancelled"
        /\ \A x \in Exports \ {e} : exports'[x] = exports[x]
    BY <1>e, <2>1 DEF TypeOK, ExportRecord
  <2>3. QED
    BY <2>2 DEF Ownership, Final
<1>4. CASE Commit(w) /\ Committable(w)
  <2>1. exports' = [exports EXCEPT ![e] = [@ EXCEPT !.status = "ready", !.owner = NoOwner,
                                           !.leased = FALSE, !.sha = workers[w].listed]]
    BY <1>4 DEF Commit
  <2>2. /\ exports'[e].owner = NoOwner /\ exports'[e].status = "ready"
        /\ \A x \in Exports \ {e} : exports'[x] = exports[x]
    BY <1>e, <2>1 DEF TypeOK, ExportRecord
  <2>3. QED
    BY <2>2 DEF Ownership, Final
<1>5. CASE Reset(w) /\ Resettable(w) /\ ~UNCHANGED exports
  <2>1. exports' = [exports EXCEPT ![e] = [@ EXCEPT !.status = "queued",
                               !.owner = NoOwner, !.leased = FALSE]] /\ GiveUp(w)
    BY <1>5 DEF Reset
  <2>2. /\ exports'[e].owner = NoOwner /\ Ended(w)
        /\ \A x \in Exports \ {e} : exports'[x] = exports[x]
    BY <1>e, <2>1, EndFields DEF TypeOK, ExportRecord, Ended
  <2>3. QED
    BY <1>5, <2>2 DEF Ownership, Resettable
<1>6. QED
  BY <1>1, <1>2, <1>3, <1>4, <1>5
     DEF WorkerStep, WorkerRaises, WorkerDies, ReadRun, ReadExport, Claim, Conflict, CancelExport,
         CancelReceipt, AssertRun, AssertOwner, ListSources, HashSources, PutManifest, Commit,
         Recheck, Reset, WorkerOnly

LEMMA LeaseNext == TypeOK /\ ExportInv /\ LeaseInv /\ [Next]_vars => LeaseInv'
<1> SUFFICES ASSUME TypeOK, ExportInv, LeaseInv, [Next]_vars PROVE LeaseInv'
  OBVIOUS
<1> USE DEF WorkerOnly, RequestOnly, queue
<1>t. /\ \A w \in Workers : workers[w].rid \in Nat
                            /\ (workers[w].pc # "idle" => workers[w].export \in Exports)
      /\ \A w \in Workers : workers[w].pc # "idle" => workers[w].rid > 0
      /\ \A e \in Exports : exports[e].owner \in Nat /\ receives[e] \in Nat
  BY DEF TypeOK, WorkerRecord, ExportRecord, QueueType
<1>1. ASSUME UNCHANGED <<workers, receives>>,
             \A e \in Exports : /\ exports'[e].owner = exports[e].owner
                                /\ exports'[e].status = "building" => exports[e].status = "building"
                                /\ \/ exports'[e].leased = exports[e].leased
                                   \/ ~OwnerAlive(e)
      PROVE  LeaseInv'
  BY <1>1, <1>t DEF LeaseInv, Owned, OwnerAlive
<1>2. ASSUME NEW w \in Workers, WorkerStep(w) \/ WorkerRaises(w) \/ WorkerDies(w)
      PROVE  LeaseInv'
  <2>1. PICK e \in Exports : e = workers[w].export
    BY <1>2, WorkerInvocations DEF TypeOK
  <2>2. /\ SameInvocation(w) \/ Ended(w)
        /\ workers[w].pc # "idle" /\ UNCHANGED receives
        /\ \A v \in Workers \ {w} : workers'[v] = workers[v]
    BY <1>2, WorkerInvocations
  <2>3. Ownership(w)
    BY <1>2, WorkerOwnership
  <2>4. \A x \in Exports : exports'[x].owner <= receives[x]
    BY <1>t, <2>1, <2>2, <2>3 DEF Ownership, LeaseInv, NoOwner
  <2>5. \A v \in Workers : workers'[v].pc # "idle" =>
           /\ workers[v].pc # "idle" /\ workers'[v].export = workers[v].export
           /\ workers'[v].rid = workers[v].rid
    BY <2>2 DEF SameInvocation, Ended
  <2>6. ASSUME NEW v \in Workers, workers'[v].pc # "idle", Owned(v)'
        PROVE  exports'[workers'[v].export].leased
    <3>1. PICK x \in Exports : x = workers[v].export
      BY <1>t, <2>5, <2>6
    <3>2. /\ workers[v].pc # "idle" /\ workers'[v].export = x /\ workers'[v].rid = workers[v].rid
          /\ exports'[x].status = "building" /\ exports'[x].owner = workers[v].rid
      BY <2>5, <2>6, <3>1 DEF Owned
    <3>3. CASE exports'[x].owner = exports[x].owner /\ exports'[x].leased = exports[x].leased
               /\ exports'[x].status = exports[x].status
      BY <3>1, <3>2, <3>3 DEF LeaseInv, Owned
    <3>4. CASE exports'[x].leased
      BY <3>2, <3>4
    <3>5. CASE exports'[x].owner = NoOwner
      <4>1. workers[v].rid \in Nat /\ workers[v].rid > 0
        BY <1>t, <3>2
      <4>2. workers[v].rid = 0
        BY <3>2, <3>5 DEF NoOwner
      <4>3. QED
        BY <4>1, <4>2
    <3>6. QED
      BY <2>1, <2>3, <3>2, <3>3, <3>4, <3>5 DEF Ownership
  <2>7. QED
    BY <2>2, <2>4, <2>5, <2>6 DEF LeaseInv, SameInvocation, Ended
<1>3. ASSUME NEW w \in Workers, NEW e \in Exports, Receive(w, e) \/ ReceiveDuplicate(w, e)
      PROVE  LeaseInv'
  <2>1. /\ workers'[w].pc = "received" /\ workers'[w].export = e
        /\ workers'[w].rid = receives[e] + 1
        /\ \A v \in Workers \ {w} : workers'[v] = workers[v]
    BY <1>3, DeliverFields DEF Receive, ReceiveDuplicate
  <2>2. receives'[e] = receives[e] + 1 /\ UNCHANGED exports
        /\ \A x \in Exports \ {e} : receives'[x] = receives[x]
    BY <1>3 DEF Receive, ReceiveDuplicate, Deliver, TypeOK, QueueType
  <2>3. \A x \in Exports : receives[x] <= receives'[x]
    BY <1>t, <2>2
  <2>4. \A v \in Workers \ {w} : workers[v].pc # "idle" /\ workers[v].export = e
                                   => workers[v].rid # receives[e] + 1
    BY <1>t DEF LeaseInv
  <2>5. \A v \in Workers : workers'[v].pc # "idle" =>
            workers'[v].rid <= receives'[workers'[v].export]
    BY <1>t, <2>1, <2>2, <2>3 DEF LeaseInv
  <2>6. \A x \in Exports : exports'[x].owner <= receives'[x]
    BY <1>t, <2>2, <2>3 DEF LeaseInv
  <2>7. ~Owned(w)'
    BY <1>t, <2>1, <2>2 DEF Owned, LeaseInv
  <2>8. \A v \in Workers : workers'[v].pc # "idle" /\ Owned(v)' =>
            exports'[workers'[v].export].leased
    BY <2>1, <2>2, <2>7 DEF LeaseInv, Owned
  <2>9. QED
    BY <2>1, <2>4, <2>5, <2>6, <2>8 DEF LeaseInv
<1>4. ASSUME NEW e \in Exports, LeaseExpires(e) PROVE LeaseInv'
  <2>1. \A x \in Exports : /\ exports'[x].owner = exports[x].owner
                           /\ exports'[x].status = exports[x].status
                           /\ exports'[x].leased = exports[x].leased \/ ~OwnerAlive(x)
    BY <1>4 DEF LeaseExpires, TypeOK, ExportRecord
  <2>2. QED
    BY <1>1, <1>4, <2>1 DEF LeaseExpires
<1>5. ASSUME NEW r \in Requests, PutItem(r) PROVE LeaseInv'
  <2>1. \A x \in Exports : /\ exports'[x].owner = exports[x].owner
                           /\ exports'[x].leased = exports[x].leased
                           /\ exports'[x].status = "building" => exports[x].status = "building"
    BY <1>5 DEF PutItem, TypeOK, ExportRecord
  <2>2. QED
    BY <1>1, <1>5, <2>1 DEF PutItem
<1>6. CASE UNCHANGED <<exports, workers, receives>>
  BY <1>1, <1>6
<1>7. ASSUME NEW e \in Exports, DayPasses(e) PROVE LeaseInv'
  <2>1. \A x \in Exports : /\ exports'[x].owner = exports[x].owner
                           /\ exports'[x].leased = exports[x].leased
                           /\ exports'[x].status = exports[x].status
    BY <1>7 DEF DayPasses, TypeOK, ExportRecord
  <2>2. QED
    BY <1>1, <1>7, <2>1 DEF DayPasses
<1>8. ASSUME NEW e \in Exports, ItemExpires(e) PROVE LeaseInv'
  <2>1. /\ exports'[e].owner = 0 /\ receives'[e] = 0 /\ UNCHANGED workers
        /\ \A x \in Exports \ {e} : exports'[x] = exports[x] /\ receives'[x] = receives[x]
    BY <1>8 DEF ItemExpires, TypeOK, QueueType, NoItem, NoOwner
  <2>2. \A w \in Workers : workers[w].pc # "idle" => workers[w].export \in Exports \ {e}
    BY <1>8, <1>t DEF ItemExpires, ExportInv, WorkerOK
  <2>3. QED
    BY <2>1, <2>2 DEF LeaseInv, Owned
<1>9. QED
  BY <1>2, <1>3, <1>4, <1>5, <1>6, <1>7, <1>8
     DEF vars, Next, RequestStep, AskForExport, LookUpExport, SendMessage, RequestDies, Redeliver,
         RunFails, ObjectExpires, ManifestExpires

LEMMA LeaseCorrect == Spec => []LeaseInv
<1>1. Init => LeaseInv
  BY LeaseInit
<1>2. TypeOK /\ ExportInv /\ LeaseInv /\ [Next]_vars => LeaseInv'
  BY LeaseNext
<1>3. QED
  BY <1>1, <1>2, TypeCorrect, InvCorrect, PTL DEF Spec

\* Nobody takes a building export from an invocation that still runs, whatever the number
\* of duplicate deliveries, expired leases and resets by other invocations.
THEOREM OwnerIsKept == Spec => OwnerKeepsExport
<1> DEFINE A == \A w \in Workers :
                  LET e == workers[w].export IN
                    e # NoExport /\ Owned(w) /\ workers'[w].export = e =>
                      \/ exports'[e].owner = exports[e].owner
                      \/ exports'[e].status \in {"ready", "cancelled"}
<1>1. TypeOK /\ ExportInv /\ LeaseInv /\ [Next]_vars => [A]_vars
  <2> SUFFICES ASSUME TypeOK, ExportInv, LeaseInv, Next, NEW w \in Workers,
                      workers[w].export # NoExport, Owned(w),
                      workers'[w].export = workers[w].export
               PROVE  \/ exports'[workers[w].export].owner = exports[workers[w].export].owner
                      \/ exports'[workers[w].export].status \in {"ready", "cancelled"}
    BY DEF A
  <2>1. workers[w].pc # "idle" /\ exports[workers[w].export].leased
    BY DEF LeaseInv
  <2>2. PICK e \in Exports : e = workers[w].export
    BY <2>1 DEF TypeOK
  <2>3. ASSUME NEW v \in Workers, WorkerStep(v) \/ WorkerRaises(v) \/ WorkerDies(v)
        PROVE  exports'[e].owner = exports[e].owner \/ exports'[e].status \in Final
    <3>1. Ownership(v) /\ workers[v].pc # "idle"
      BY <2>3, WorkerOwnership, WorkerInvocations
    <3>2. PICK x \in Exports : x = workers[v].export
      BY <3>1 DEF TypeOK
    <3>3. CASE Owned(v) /\ Ended(v) /\ x = e
      <4>1. v = w
        BY <2>1, <2>2, <3>1, <3>2, <3>3 DEF LeaseInv, Owned
      <4>2. QED
        BY <3>3, <4>1 DEF Ended
    <3>4. CASE x # e
      BY <2>2, <3>1, <3>2, <3>4 DEF Ownership
    <3>5. CASE x = e /\ ~(Owned(v) /\ Ended(v))
      BY <2>1, <2>2, <3>1, <3>2, <3>5 DEF Ownership, Owned
    <3>6. QED
      BY <3>3, <3>4, <3>5
  <2>4. ASSUME NEW x \in Exports, LeaseExpires(x) PROVE exports'[e].owner = exports[e].owner
    BY <2>4 DEF LeaseExpires, TypeOK, ExportRecord
  <2>5. ASSUME NEW r \in Requests, PutItem(r) PROVE exports'[e].owner = exports[e].owner
    BY <2>5 DEF PutItem, TypeOK, ExportRecord
  <2>6. CASE UNCHANGED exports
    BY <2>6
  <2>7. ASSUME NEW x \in Exports, DayPasses(x) PROVE exports'[e].owner = exports[e].owner
    BY <2>7 DEF DayPasses, TypeOK, ExportRecord
  <2>8. ASSUME NEW x \in Exports, ItemExpires(x) PROVE exports'[e].owner = exports[e].owner
    <3>1. ~exports[e].past
      BY <2>1, <2>2 DEF ExportInv, WorkerOK
    <3>2. QED
      BY <2>8, <3>1 DEF ItemExpires
  <2>9. QED
    BY <2>2, <2>3, <2>4, <2>5, <2>6, <2>7, <2>8
       DEF Next, RequestStep, AskForExport, LookUpExport, SendMessage, RequestDies, RequestOnly,
           Receive, ReceiveDuplicate, Redeliver, RunFails, ObjectExpires, ManifestExpires,
           WorkerOnly, Final
<1>2. QED
  BY <1>1, TypeCorrect, InvCorrect, LeaseCorrect, PTL DEF Spec, OwnerKeepsExport

-----------------------------------------------------------------------------
(* The receipt of a run with one export.                                   *)

LEMMA ShownNext ==
    ASSUME \A d, e \in Exports : d = e, TypeOK, ExportInv, ReadyIsShown, [Next]_vars
    PROVE  ReadyIsShown'
<1> USE DEF WorkerOnly, RequestOnly, queue
<1>1. CASE /\ run'.receipt = run.receipt /\ UNCHANGED lives
           /\ \A e \in Exports : exports'[e].status = "ready" => exports[e].status = "ready"
  BY <1>1 DEF ReadyIsShown, Receipt
<1>2. ASSUME NEW w \in Workers, Claim(w) PROVE ReadyIsShown'
  <2>1. PICK e \in Exports : e = workers[w].export
    BY <1>2 DEF Claim, TypeOK
  <2>2. CASE UNCHANGED <<run, exports>>
    BY <1>1, <1>2, <2>2 DEF Claim
  <2>3. CASE exports' = [exports EXCEPT ![e] = [@ EXCEPT !.status = "building",
                                                 !.owner = workers[w].rid, !.leased = TRUE]]
    <3>1. exports'[e].status = "building"
      BY <2>1, <2>3 DEF TypeOK, ExportRecord
    <3>2. QED
      BY <2>1, <3>1 DEF ReadyIsShown
  <2>4. QED
    BY <1>2, <2>1, <2>2, <2>3 DEF Claim
<1>3. ASSUME NEW w \in Workers, CancelExport(w) PROVE ReadyIsShown'
  <2>1. \A e \in Exports : exports'[e].status = "ready" => exports[e].status = "ready"
    <3>1. PICK d \in Exports : d = workers[w].export
      BY <1>3 DEF CancelExport, TypeOK
    <3>2. UNCHANGED exports
          \/ exports' = [exports EXCEPT ![d] = [@ EXCEPT !.status = "cancelled",
                       !.owner = NoOwner, !.leased = FALSE, !.sha = NoSha]]
      BY <1>3, <3>1 DEF CancelExport
    <3>3. CASE exports' = [exports EXCEPT ![d] = [@ EXCEPT !.status = "cancelled",
                       !.owner = NoOwner, !.leased = FALSE, !.sha = NoSha]]
      <4>1. exports'[d].status = "cancelled" /\ \A e \in Exports \ {d} : exports'[e] = exports[e]
        BY <3>3 DEF TypeOK, ExportRecord
      <4>2. QED
        BY <4>1
    <3>4. QED
      BY <3>2, <3>3
  <2>2. QED
    BY <1>1, <1>3, <2>1 DEF CancelExport
<1>4. ASSUME NEW w \in Workers, CancelReceipt(w) PROVE ReadyIsShown'
  <2>1. PICK e \in Exports : e = workers[w].export
    BY <1>4 DEF CancelReceipt, TypeOK
  <2>2. exports'[e].status = "cancelled"
    BY <1>4, <2>1 DEF CancelReceipt, ExportInv, WorkerOK
  <2>3. QED
    BY <2>1, <2>2 DEF ReadyIsShown
<1>5. ASSUME NEW w \in Workers, Commit(w) PROVE ReadyIsShown'
  <2>1. PICK e \in Exports : e = workers[w].export
    BY <1>5 DEF Commit, TypeOK
  <2>2. CASE UNCHANGED <<run, exports>>
    BY <1>1, <1>5, <2>2 DEF Commit
  <2>3. CASE run' = [run EXCEPT !.receipt = Receipt(e, "ready")]
    <3>1. run'.receipt = Receipt(e, "ready")'
      BY <1>5, <2>3 DEF TypeOK, RunRecord, Commit, Receipt
    <3>2. QED
      BY <2>1, <3>1 DEF ReadyIsShown
  <2>4. QED
    BY <1>5, <2>1, <2>2, <2>3 DEF Commit
<1>6. ASSUME NEW w \in Workers, Reset(w) PROVE ReadyIsShown'
  <2>1. \A e \in Exports : exports'[e].status = "ready" => exports[e].status = "ready"
    <3>1. PICK d \in Exports : d = workers[w].export
      BY <1>6 DEF Reset, TypeOK
    <3>2. UNCHANGED exports
          \/ exports' = [exports EXCEPT ![d] = [@ EXCEPT !.status = "queued",
                       !.owner = NoOwner, !.leased = FALSE]]
      BY <1>6, <3>1 DEF Reset
    <3>3. CASE exports' = [exports EXCEPT ![d] = [@ EXCEPT !.status = "queued",
                       !.owner = NoOwner, !.leased = FALSE]]
      <4>1. exports'[d].status = "queued" /\ \A e \in Exports \ {d} : exports'[e] = exports[e]
        BY <3>3 DEF TypeOK, ExportRecord
      <4>2. QED
        BY <4>1
    <3>4. QED
      BY <3>2, <3>3
  <2>2. QED
    BY <1>1, <1>6, <2>1 DEF Reset
<1>7. ASSUME NEW r \in Requests, PutItem(r) PROVE ReadyIsShown'
  <2>1. \A e \in Exports : exports'[e].status = "ready" => exports[e].status = "ready"
    BY <1>7 DEF PutItem, TypeOK, ExportRecord
  <2>2. QED
    BY <1>1, <1>7, <2>1 DEF PutItem
<1>8. ASSUME NEW e \in Exports, LeaseExpires(e) PROVE ReadyIsShown'
  <2>1. \A x \in Exports : exports'[x].status = "ready" => exports[x].status = "ready"
    BY <1>8 DEF LeaseExpires, TypeOK, ExportRecord
  <2>2. QED
    BY <1>1, <1>8, <2>1 DEF LeaseExpires
<1>9. CASE RunFails
  <2>1. run'.receipt = run.receipt /\ UNCHANGED <<exports, lives>>
    BY <1>9 DEF RunFails, TypeOK, RunRecord
  <2>2. QED
    BY <1>1, <2>1
<1>10. CASE UNCHANGED <<run, exports, lives>>
  BY <1>1, <1>10
<1>11. ASSUME NEW e \in Exports, DayPasses(e) PROVE ReadyIsShown'
  <2>1. \A x \in Exports : exports'[x].status = "ready" => exports[x].status = "ready"
    BY <1>11 DEF DayPasses, TypeOK, ExportRecord
  <2>2. QED
    BY <1>1, <1>11, <2>1 DEF DayPasses
<1>12. ASSUME NEW e \in Exports, ItemExpires(e) PROVE ReadyIsShown'
  <2>1. exports'[e].status = "absent"
    BY <1>12 DEF ItemExpires, TypeOK, NoItem
  <2>2. QED
    BY <2>1 DEF ReadyIsShown
<1>13. QED
  BY <1>2, <1>3, <1>4, <1>5, <1>6, <1>7, <1>8, <1>9, <1>10, <1>11, <1>12
     DEF vars, Next, RequestStep, WorkerStep, ReadRun, ReadExport, Conflict, AssertRun, AssertOwner,
         ListSources, HashSources, PutManifest, Recheck, WorkerRaises, WorkerDies, AskForExport,
         LookUpExport, SendMessage, RequestDies, Receive, ReceiveDuplicate, Redeliver, ObjectExpires,
         ManifestExpires

\* A run with one export shows it as ready from the commit on, against every late
\* cancellation and claim.
THEOREM OnlyExportIsShown ==
    ASSUME \A d, e \in Exports : d = e PROVE Spec => []ReadyIsShown
<1>1. Init => ReadyIsShown
  BY DEF Init, ReadyIsShown, NoItem
<1>2. TypeOK /\ ExportInv /\ ReadyIsShown /\ [Next]_vars => ReadyIsShown'
  BY ShownNext
<1>3. QED
  BY <1>1, <1>2, TypeCorrect, InvCorrect, PTL DEF Spec
=============================================================================
