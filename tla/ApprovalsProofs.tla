--------------------------- MODULE ApprovalsProofs ---------------------------
(* Theorems about Approvals, for any number of actors, queries, database sessions
   and API calls, and for every size of the guard, the cap and the dataset.  The
   argument rests on the row lock: a session that is about to decide or to spend an
   approval holds the lock of its row, so that what it read still holds when it
   writes. *)
EXTENDS Approvals, TLAPS

ApprovalRecord ==
    [state : {"none", "pending", "approved", "rejected"},
     subject : Subjects \cup {NoSubject},
     requested_by : Actors \cup {NoActor}, decided_by : Actors \cup {NoActor},
     expired : BOOLEAN, consumed_by : Actors \cup {NoActor}]

ExportRecord ==
    [id : Nat, actor : Actors, subject : Subjects, count : Nat, fetched : Nat,
     approval : Ids \cup {0}]

SessionRecord ==
    [pc : {"idle", "reply", "insert", "lock", "decide", "check", "fetch", "commit", "deliver"},
     id : Nat, actor : Actors \cup {NoActor}, subject : Subjects \cup {NoSubject},
     action : {"none", "request", "approve", "reject", "export"},
     seen : SUBSET Ids, past : SUBSET Ids, row : Ids \cup {0}, count : Nat, fetched : Nat]

\* What the columns of a row say of each other.
RowOK(p) ==
    /\ p.state \in {"none", "pending"} => p.decided_by = NoActor
    /\ p.state = "approved" =>
          p.decided_by \in Reviewers /\ (FourEyes => p.decided_by # p.requested_by)
    /\ p.state # "approved" => p.consumed_by = NoActor

RowsOK == \A i \in Ids : RowOK(approvals[i])

\* An approved row that nobody has spent, for the query of the session that locked it.
Locked(s) == sessions[s].row \in Ids /\ locks[sessions[s].row] = s
Cleared(s) ==
    LET p == approvals[sessions[s].row]
    IN p.state = "approved" /\ p.subject = sessions[s].subject /\ p.consumed_by = NoActor

\* The count passed the cap, as far as the limit lets it; what a LIMIT leaves of the rows.
Capped(x, n) == Limited(x, n) <= HardMax
WithinLimit(x, n) == Limit[x] # 0 => n <= Limit[x]

CallerOK(s) ==
    /\ sessions[s].pc # "idle" => sessions[s].actor \in Actors /\ sessions[s].subject \in Subjects
    /\ sessions[s].pc \in {"lock", "decide"} =>
          sessions[s].actor \in Reviewers /\ sessions[s].action \in {"approve", "reject"}
    /\ sessions[s].pc \in {"check", "fetch", "commit"} =>
          Capped(sessions[s].subject, sessions[s].count)
    /\ sessions[s].pc = "commit" => WithinLimit(sessions[s].subject, sessions[s].fetched)
    /\ sessions[s].pc = "check" => sessions[s].row \in Ids /\ NeedsApproval(sessions[s].count)

\* What a session read under its lock still holds.
ReadOK(s) ==
    /\ sessions[s].pc = "decide" =>
          Locked(s) /\ approvals[sessions[s].row].state = "pending"
    /\ sessions[s].pc \in {"fetch", "commit"} /\ NeedsApproval(sessions[s].count) =>
          Locked(s) /\ Cleared(s)

RecordedOK(s) == sessions[s].pc = "deliver" => \E e \in exports : e.id = sessions[s].id

SessionsOK == \A s \in Sessions : CallerOK(s) /\ ReadOK(s) /\ RecordedOK(s)

ExportOK(e) ==
    /\ Capped(e.subject, e.count) /\ WithinLimit(e.subject, e.fetched)
    /\ ~NeedsApproval(e.count) => e.approval = 0
    /\ NeedsApproval(e.count) =>
          /\ e.approval \in Ids
          /\ approvals[e.approval].state = "approved"
          /\ approvals[e.approval].subject = e.subject
          /\ approvals[e.approval].consumed_by = e.actor

ExportsOK == \A e \in exports : ExportOK(e)

DeliveredOK == \A d \in delivered : \E e \in exports : e.id = d


-----------------------------------------------------------------------------
(* Type correctness. *)

LEMMA IdsAreNotZero == 0 \notin Ids /\ Ids \subseteq Nat
BY ApprovalsAssumption DEF Ids

\* What a LIMIT leaves of some rows.
LEMMA LimitedRows ==
    ASSUME NEW x \in Subjects, NEW n \in Nat
    PROVE  Limited(x, n) \in Nat /\ WithinLimit(x, Limited(x, n))
BY ApprovalsAssumption DEF Limited, WithinLimit

\* What an action may do to the sessions it leaves alone and to its own.
SessionsType ==
    /\ sessions \in [Sessions -> SessionRecord]
    /\ \A s \in Sessions : sessions[s].pc # "idle" =>
          sessions[s].actor \in Actors /\ sessions[s].subject \in Subjects

TypeInv == TypeOK /\ SessionsType

LEMMA IdleType == Idle \in SessionRecord
BY DEF Idle, SessionRecord

LEMMA CallType ==
    ASSUME TypeInv, NEW s \in Sessions, NEW action \in {"request", "approve", "reject", "export"},
           NEW pc \in {"reply", "insert", "lock", "check", "fetch"},
           NEW a \in Actors, NEW x \in Subjects, NEW token \in Ids \cup {0},
           Call(s, action, pc, a, x, token)
    PROVE  SessionsType' /\ calls' \in Nat
<1>1. Pending(x) \subseteq Ids /\ Expired \subseteq Ids
  BY DEF Pending, Expired
<1>4. calls \in Nat /\ dataset \in Nat
  BY DEF TypeInv, TypeOK
<1>5. [pc |-> pc, id |-> calls + 1, actor |-> a, subject |-> x, action |-> action,
       seen |-> IF pc = "lock" THEN Pending(x) ELSE {},
       past |-> IF pc = "check" THEN Expired ELSE {}, row |-> token,
       count |-> IF action = "export" THEN dataset ELSE 0, fetched |-> 0] \in SessionRecord
  BY <1>1, <1>4 DEF SessionRecord
<1>6. SessionsType'
  BY <1>5 DEF Call, TypeInv, SessionsType
<1>7. QED
  BY <1>4, <1>6 DEF Call

LEMMA GotoType ==
    ASSUME SessionsType, NEW s \in Sessions, NEW pc \in {"reply", "fetch", "deliver"}, Goto(s, pc),
           sessions[s].pc # "idle"
    PROVE  SessionsType'
BY DEF SessionsType, SessionRecord, Goto

LEMMA ReplyType ==
    ASSUME SessionsType, NEW s \in Sessions, Reply(s)
    PROVE  SessionsType'
BY IdleType DEF SessionsType, Reply, Idle

LEMMA UnlockType ==
    ASSUME TypeOK, NEW s \in Sessions, Unlock(s)
    PROVE  locks' \in [Ids -> Sessions \cup {NoSession}]
BY DEF TypeOK, Unlock

LEMMA InitType == Init => TypeInv
<1> SUFFICES ASSUME Init PROVE TypeInv
  OBVIOUS
<1>1. NoApproval \in ApprovalRecord
  BY DEF NoApproval, ApprovalRecord
<1>2. dataset \in Nat
  BY ApprovalsAssumption DEF Init
<1>3. QED
  BY <1>1, <1>2, IdleType DEF Init, TypeInv, TypeOK, SessionsType, Idle, ApprovalRecord, SessionRecord

LEMMA NextType == TypeInv /\ [Next]_vars => TypeInv'
<1> SUFFICES ASSUME TypeInv, [Next]_vars PROVE TypeInv'
  OBVIOUS
<1> USE DEF vars
<1>0. TypeOK /\ SessionsType
  BY DEF TypeInv
<1> DEFINE Rows == approvals \in [Ids -> ApprovalRecord]
<1>r. Rows
  BY <1>0 DEF TypeOK, ApprovalRecord
<1>1. ASSUME NEW s \in Sessions, NewCall(s) PROVE TypeInv'
  <2>1. PICK a \in Actors, x \in Subjects :
            \/ RequestApproval(s, a, x)
            \/ SelectPending(s, a, x, "approve")
            \/ SelectPending(s, a, x, "reject")
            \/ \E token \in tokens \cup {0} : CountRows(s, a, x, token)
    BY <1>1 DEF NewCall
  <2>2. CASE RequestApproval(s, a, x)
    <3>1. SessionsType' /\ calls' \in Nat
      BY <2>2, CallType DEF RequestApproval
    <3>2. QED
      BY <1>0, <2>2, <3>1 DEF TypeInv, RequestApproval, TypeOK, SessionsType, SessionRecord
  <2>3. CASE SelectPending(s, a, x, "approve") \/ SelectPending(s, a, x, "reject")
    <3>1. SessionsType' /\ calls' \in Nat
      BY <2>3, CallType DEF SelectPending
    <3>2. QED
      BY <1>0, <2>3, <3>1 DEF TypeInv, SelectPending, TypeOK, SessionsType, SessionRecord
  <2>4. ASSUME NEW token \in tokens \cup {0}, CountRows(s, a, x, token) PROVE TypeInv'
    <3>1. token \in Ids \cup {0}
      BY <1>0 DEF TypeOK
    <3>2. SessionsType' /\ calls' \in Nat
      BY <2>4, <3>1, CallType DEF CountRows
    <3>3. QED
      BY <1>0, <2>4, <3>2 DEF TypeInv, CountRows, TypeOK, SessionsType, SessionRecord
  <2>5. QED
    BY <2>1, <2>2, <2>3, <2>4
<1>2. ASSUME NEW s \in Sessions, CallStep(s) PROVE TypeInv'
  <2>1. CASE Insert(s)
    <3>1. SessionsType'
      BY <1>0, <2>1, ReplyType DEF Insert
    <3>2. PICK i \in Ids : approvals' = [approvals EXCEPT ![i] =
              [@ EXCEPT !.state = "pending", !.subject = sessions[s].subject,
                        !.requested_by = sessions[s].actor]]
      BY <2>1 DEF Insert
    <3>3. [approvals[i] EXCEPT !.state = "pending", !.subject = sessions[s].subject,
                               !.requested_by = sessions[s].actor] \in ApprovalRecord
      <4>1. approvals[i] \in ApprovalRecord
        BY <1>r
      <4>2. sessions[s].subject \in Subjects /\ sessions[s].actor \in Actors
        BY <1>0, <2>1 DEF Insert, SessionsType
      <4>3. QED
        BY <4>1, <4>2 DEF ApprovalRecord
    <3>4. approvals' \in [Ids -> ApprovalRecord]
      BY <1>r, <3>2, <3>3
    <3>5. QED
      BY <1>0, <2>1, <3>1, <3>4 DEF TypeInv, Insert, TypeOK, SessionsType,
       SessionRecord, ApprovalRecord, ExportRecord
  <2>2. CASE LockPending(s)
    <3>1. PICK i \in Ids :
            \/ /\ locks' = [locks EXCEPT ![i] = s]
               /\ sessions' = [sessions EXCEPT ![s].pc = "decide", ![s].row = i]
            \/ /\ sessions' = [sessions EXCEPT ![s].seen = @ \ {i}]
               /\ UNCHANGED locks
      BY <2>2 DEF LockPending
    <3>4. locks' \in [Ids -> Sessions \cup {NoSession}]
      BY <1>0, <3>1 DEF TypeOK
    <3>5. sessions' \in [Sessions -> SessionRecord]
      BY <1>0, <3>1 DEF SessionsType, SessionRecord
    <3>6. \A t \in Sessions : sessions'[t].actor = sessions[t].actor
                              /\ sessions'[t].subject = sessions[t].subject
                              /\ (t # s => sessions'[t].pc = sessions[t].pc)
      BY <1>0, <3>1 DEF SessionsType, SessionRecord
    <3>7. sessions[s].pc # "idle"
      BY <2>2 DEF LockPending
    <3>8. SessionsType'
      BY <1>0, <3>5, <3>6, <3>7 DEF SessionsType
    <3>9. QED
      BY <1>0, <2>2, <3>4, <3>8 DEF TypeInv, LockPending, TypeOK, SessionsType, SessionRecord
  <2>3. CASE NothingPending(s) \/ RefuseSelfApproval(s)
    <3>1. SessionsType'
      BY <1>0, <2>3, GotoType DEF NothingPending, RefuseSelfApproval
    <3>2. QED
      BY <1>0, <2>3, <3>1 DEF TypeInv, NothingPending, RefuseSelfApproval, TypeOK, SessionsType, SessionRecord
  <2>4. CASE ReplyOnly(s)
    <3>1. SessionsType' /\ locks' \in [Ids -> Sessions \cup {NoSession}]
      BY <1>0, <2>4, ReplyType, UnlockType DEF ReplyOnly
    <3>2. QED
      BY <1>0, <2>4, <3>1 DEF TypeInv, ReplyOnly, TypeOK, SessionsType, SessionRecord
  <2>5. CASE Decide(s)
    <3>1. SessionsType' /\ locks' \in [Ids -> Sessions \cup {NoSession}]
      BY <1>0, <2>5, ReplyType, UnlockType DEF Decide
    <3>2. PICK state \in {"approved", "rejected"} :
              approvals' = [approvals EXCEPT ![sessions[s].row] =
                [@ EXCEPT !.state = state, !.decided_by = sessions[s].actor,
                          !.expired = FALSE, !.consumed_by = NoActor]]
      BY <2>5 DEF Decide
    <3>3. \A i \in Ids : [approvals[i] EXCEPT !.state = state, !.decided_by = sessions[s].actor,
                              !.expired = FALSE, !.consumed_by = NoActor] \in ApprovalRecord
      <4>1. \A i \in Ids : approvals[i] \in ApprovalRecord
        BY <1>r
      <4>2. sessions[s].actor \in Actors
        BY <1>0, <2>5 DEF Decide, SessionsType
      <4>3. QED
        BY <4>1, <4>2 DEF ApprovalRecord
    <3>4. approvals' \in [Ids -> ApprovalRecord]
      BY <1>r, <3>2, <3>3
    <3>5. faults' \in Nat
      BY <1>0, <2>5 DEF Decide, Fault, TypeOK
    <3>6. QED
      BY <1>0, <2>5, <3>1, <3>4, <3>5 DEF TypeInv, Decide, TypeOK, SessionsType,
       SessionRecord, ApprovalRecord, ExportRecord
  <2>6. CASE CheckApproval(s)
    <3>1. SessionsType'
      BY <1>0, <2>6, GotoType DEF CheckApproval
    <3>2. QED
      BY <1>0, <2>6, <3>1 DEF TypeInv, CheckApproval, TypeOK, SessionsType, SessionRecord
  <2>7. CASE FetchRows(s)
    <3>1. SessionsType'
      <4>1. sessions' = [sessions EXCEPT ![s] =
             [sessions[s] EXCEPT !.pc = "commit", !.fetched = Limited(sessions[s].subject, dataset)]]
            /\ sessions[s].pc # "idle"
        BY <2>7 DEF FetchRows
      <4>2. sessions[s] \in SessionRecord /\ Limited(sessions[s].subject, dataset) \in Nat
        BY <1>0, <4>1, LimitedRows DEF SessionsType, TypeOK
      <4>3. [sessions[s] EXCEPT !.pc = "commit", !.fetched = Limited(sessions[s].subject, dataset)]
               \in SessionRecord
        BY <4>2 DEF SessionRecord
      <4>4. sessions' \in [Sessions -> SessionRecord]
        BY <1>0, <4>1, <4>3 DEF SessionsType
      <4>5. QED
        BY <1>0, <4>1, <4>2, <4>4 DEF SessionsType, SessionRecord
    <3>2. QED
      BY <1>0, <2>7, <3>1 DEF TypeInv, FetchRows, TypeOK, SessionsType, SessionRecord
  <2>8. CASE CommitExport(s)
    <3>1. SessionsType' /\ locks' \in [Ids -> Sessions \cup {NoSession}]
      BY <1>0, <2>8, GotoType, UnlockType DEF CommitExport
    <3>2. approvals' \in [Ids -> ApprovalRecord]
      BY <1>0, <2>8 DEF CommitExport, Consumed, TypeOK, ApprovalRecord
    <3>3. exports' \subseteq ExportRecord
      BY <1>0, <2>8 DEF CommitExport, Spent, TypeOK, SessionsType, SessionRecord, ExportRecord
    <3>4. QED
      BY <1>0, <2>8, <3>1, <3>2, <3>3 DEF TypeInv, CommitExport, TypeOK, SessionsType,
       SessionRecord, ApprovalRecord, ExportRecord
  <2>9. CASE Deliver(s)
    <3>1. SessionsType'
      BY <1>0, <2>9, ReplyType DEF Deliver
    <3>2. QED
      BY <1>0, <2>9, <3>1 DEF TypeInv, Deliver, TypeOK, SessionsType, SessionRecord
  <2>10. QED
    BY <1>2, <2>1, <2>2, <2>3, <2>4, <2>5, <2>6, <2>7, <2>8, <2>9 DEF CallStep
<1>3. ASSUME NEW s \in Sessions, CallFails(s) PROVE TypeInv'
  <2>1. SessionsType' /\ locks' \in [Ids -> Sessions \cup {NoSession}]
    BY <1>0, <1>3, ReplyType, UnlockType DEF CallFails
  <2>2. QED
    BY <1>0, <1>3, <2>1 DEF CallFails, Fault, TypeInv, TypeOK, SessionsType, SessionRecord
<1>4. ASSUME NEW i \in Ids, Expire(i) PROVE TypeInv'
  <2>1. [approvals[i] EXCEPT !.expired = TRUE] \in ApprovalRecord
    BY <1>r DEF ApprovalRecord
  <2>2. approvals' \in [Ids -> ApprovalRecord]
    BY <1>r, <1>4, <2>1 DEF Expire
  <2>3. QED
    BY <1>0, <1>4, <2>2 DEF Expire, TypeInv, TypeOK, SessionsType, ApprovalRecord
<1>5. CASE RowsArrive
  BY <1>0, <1>5 DEF RowsArrive, TypeInv, TypeOK, SessionsType
<1>6. CASE UNCHANGED vars
  BY <1>0, <1>6 DEF TypeInv, TypeOK, SessionsType
<1>7. QED
  BY <1>1, <1>2, <1>3, <1>4, <1>5, <1>6 DEF Next

-----------------------------------------------------------------------------
(* The invariant. *)

IInv == TypeInv /\ RowsOK /\ SessionsOK /\ ExportsOK /\ SpendsMatchExports /\ DeliveredOK

LEMMA InitInv == Init => IInv
BY InitType DEF Init, IInv, RowsOK, RowOK, NoApproval, SessionsOK, CallerOK, ReadOK, RecordedOK,
   Idle, ExportsOK, SpendsMatchExports, DeliveredOK

\* A session that takes no step keeps what it read, as long as nobody decides or spends
\* a row that it has locked.
Kept(i) ==
    /\ approvals'[i].state = approvals[i].state
    /\ approvals'[i].subject = approvals[i].subject
    /\ approvals'[i].consumed_by = approvals[i].consumed_by

LEMMA OneSession ==
    ASSUME IInv, NEW s \in Sessions, exports \subseteq exports',
           \A t \in Sessions \ {s} :
              /\ sessions'[t] = sessions[t]
              /\ \A i \in Ids : locks[i] = t =>
                    /\ locks'[i] = t
                    /\ approvals[i].state \in {"pending", "approved"} => Kept(i),
           CallerOK(s)' /\ ReadOK(s)' /\ RecordedOK(s)'
    PROVE  SessionsOK'
<1> SUFFICES ASSUME NEW t \in Sessions \ {s}
             PROVE  CallerOK(t)' /\ ReadOK(t)' /\ RecordedOK(t)'
  BY DEF SessionsOK
<1>1. CallerOK(t) /\ ReadOK(t) /\ RecordedOK(t)
  BY DEF IInv, SessionsOK
<1>2. CallerOK(t)'
  BY <1>1 DEF CallerOK, NeedsApproval, Capped, WithinLimit, Limited
<1>3. ReadOK(t)'
  <2>1. ASSUME Locked(t), approvals[sessions[t].row].state \in {"pending", "approved"}
        PROVE  Locked(t)' /\ Kept(sessions[t].row)
    BY <2>1 DEF Locked
  <2>2. QED
    BY <1>1, <2>1 DEF ReadOK, Cleared, Kept, NeedsApproval, Capped, WithinLimit, Limited
<1>4. RecordedOK(t)'
  BY <1>1 DEF RecordedOK
<1>5. QED
  BY <1>2, <1>3, <1>4

LEMMA Finished ==
    ASSUME TypeInv, NEW s \in Sessions, Reply(s)
    PROVE  CallerOK(s)' /\ ReadOK(s)' /\ RecordedOK(s)'
<1>1. sessions'[s] = Idle
  BY DEF TypeInv, SessionsType, Reply
<1>2. QED
  BY <1>1 DEF Idle, CallerOK, ReadOK, RecordedOK

LEMMA SameLedger ==
    ASSUME IInv, UNCHANGED <<approvals, exports>>
    PROVE  RowsOK' /\ ExportsOK' /\ SpendsMatchExports'
BY DEF IInv, RowsOK, RowOK, ExportsOK, ExportOK, NeedsApproval, Capped, WithinLimit, Limited,
   SpendsMatchExports

LEMMA SameDelivered ==
    ASSUME IInv, delivered' = delivered, exports \subseteq exports'
    PROVE  DeliveredOK'
BY DEF IInv, DeliveredOK

LEMMA UnlockKeeps ==
    ASSUME TypeInv, NEW s \in Sessions, NEW t \in Sessions \ {s}, Unlock(s), NEW i \in Ids,
           locks[i] = t
    PROVE  locks'[i] = t
BY DEF Unlock

LEMMA NewCallInv ==
    ASSUME IInv, NEW s \in Sessions, NewCall(s), TypeInv' PROVE IInv'
<1>0. TypeInv
  BY DEF IInv
<1>1. UNCHANGED <<approvals, locks, exports, delivered>>
  BY DEF NewCall, RequestApproval, SelectPending, CountRows
<1>2. \A t \in Sessions \ {s} : sessions'[t] = sessions[t]
  <2> SUFFICES ASSUME NEW t \in Sessions \ {s} PROVE sessions'[t] = sessions[t]
    OBVIOUS
  <2>1. PICK x : sessions' = [sessions EXCEPT ![s] = x]
    BY DEF NewCall, RequestApproval, SelectPending, CountRows, Call
  <2>2. QED
    BY <1>0, <2>1 DEF TypeInv, SessionsType
<1>3. CallerOK(s)' /\ ReadOK(s)' /\ RecordedOK(s)'
  <2>1. PICK a \in Actors, x \in Subjects :
            \/ RequestApproval(s, a, x)
            \/ SelectPending(s, a, x, "approve")
            \/ SelectPending(s, a, x, "reject")
            \/ \E token \in tokens \cup {0} : CountRows(s, a, x, token)
    BY DEF NewCall
  <2>2. CASE RequestApproval(s, a, x)
    <3>1. sessions'[s].pc \in {"insert", "reply"} /\ sessions'[s].actor = a
          /\ sessions'[s].subject = x
      BY <1>0, <2>2 DEF RequestApproval, Call, TypeInv, SessionsType, SessionRecord, Idle
    <3>2. QED
      BY <3>1 DEF CallerOK, ReadOK, RecordedOK
  <2>3. CASE SelectPending(s, a, x, "approve") \/ SelectPending(s, a, x, "reject")
    <3>1. sessions'[s].pc = "lock" /\ sessions'[s].actor = a /\ a \in Reviewers
          /\ sessions'[s].subject = x /\ sessions'[s].action \in {"approve", "reject"}
      <4>1. PICK action \in {"approve", "reject"} : SelectPending(s, a, x, action)
        BY <2>3
      <4>2. sessions'[s].pc = "lock" /\ sessions'[s].actor = a
            /\ sessions'[s].subject = x /\ sessions'[s].action = action
        BY <1>0, <4>1 DEF SelectPending, Call, TypeInv, SessionsType, SessionRecord, Idle
      <4>3. QED
        BY <4>1, <4>2 DEF SelectPending
    <3>2. QED
      BY <3>1 DEF CallerOK, ReadOK, RecordedOK
  <2>4. ASSUME NEW token \in tokens \cup {0}, CountRows(s, a, x, token)
        PROVE  CallerOK(s)' /\ ReadOK(s)' /\ RecordedOK(s)'
    <3>1. /\ sessions'[s].pc = IF Limited(x, dataset) > HardMax \/ (NeedsApproval(dataset) /\ token = 0)
                               THEN "reply"
                               ELSE IF NeedsApproval(dataset) THEN "check" ELSE "fetch"
          /\ sessions'[s].actor = a /\ sessions'[s].subject = x
          /\ sessions'[s].row = token /\ sessions'[s].count = dataset
      BY <1>0, <2>4 DEF CountRows, Call, TypeInv, SessionsType, SessionRecord, Idle
    <3>2. token \in Ids \cup {0} /\ Limited(x, dataset) \in Nat /\ HardMax \in Nat
      BY <1>0, LimitedRows, ApprovalsAssumption DEF TypeInv, TypeOK
    <3>3. ~(Limited(x, dataset) > HardMax) => Capped(x, dataset)
      BY <3>2 DEF Capped
    <3>4. sessions'[s].pc \in {"check", "fetch"} => Capped(x, dataset)
      BY <3>1, <3>3
    <3>5. QED
      BY <3>1, <3>2, <3>4 DEF CallerOK, ReadOK, RecordedOK, NeedsApproval, Capped, Limited
  <2>5. QED
    BY <2>1, <2>2, <2>3, <2>4
<1>4. SessionsOK'
  BY <1>1, <1>2, <1>3, OneSession DEF Kept
<1>5. QED
  BY <1>1, <1>4, SameLedger, SameDelivered DEF IInv

\* The statements that change neither the approvals nor the audit log.
LEMMA ReadingInv ==
    ASSUME IInv, NEW s \in Sessions, TypeInv',
           \/ LockPending(s) \/ NothingPending(s) \/ ReplyOnly(s) \/ RefuseSelfApproval(s)
           \/ CheckApproval(s) \/ FetchRows(s) \/ CallFails(s)
    PROVE  IInv'
<1>0. TypeInv /\ CallerOK(s) /\ ReadOK(s) /\ RecordedOK(s)
  BY DEF IInv, SessionsOK
<1> USE DEF LockPending, NothingPending, ReplyOnly, RefuseSelfApproval, CheckApproval,
            FetchRows, CallFails
<1>1. UNCHANGED <<approvals, exports, delivered>>
  OBVIOUS
<1>2. \A t \in Sessions \ {s} : sessions'[t] = sessions[t]
  BY <1>0 DEF Goto, Reply, TypeInv, SessionsType
<1>3. \A t \in Sessions \ {s} : \A i \in Ids : locks[i] = t => locks'[i] = t
  <2>1. CASE LockPending(s) \/ CheckApproval(s)
    <3>1. PICK i \in Ids : locks[i] = NoSession /\ (UNCHANGED locks \/ locks' = [locks EXCEPT ![i] = s])
      <4>1. CASE LockPending(s)
        BY <4>1
      <4>2. CASE CheckApproval(s)
        <5>1. sessions[s].row \in Ids
          BY <1>0, <4>2 DEF CallerOK
        <5>2. QED
          BY <4>2, <5>1
      <4>3. QED
        BY <2>1, <4>1, <4>2
    <3>2. NoSession \notin Sessions
      BY ApprovalsAssumption
    <3>3. QED
      BY <1>0, <3>1, <3>2 DEF TypeInv, TypeOK
  <2>2. CASE Unlock(s)
    BY <1>0, <2>2, UnlockKeeps
  <2>3. QED
    BY <2>1, <2>2
<1>4. CallerOK(s)' /\ ReadOK(s)' /\ RecordedOK(s)'
  <2>1. CASE ReplyOnly(s) \/ CallFails(s)
    BY <1>0, <2>1, Finished
  <2>2. CASE NothingPending(s) \/ RefuseSelfApproval(s)
    <3>1. sessions'[s].pc = "reply" /\ sessions'[s].actor = sessions[s].actor
          /\ sessions'[s].subject = sessions[s].subject /\ sessions[s].pc # "idle"
      <4>1. sessions'[s] = [sessions[s] EXCEPT !.pc = "reply"] /\ sessions[s].pc # "idle"
            /\ sessions[s] \in SessionRecord
        BY <1>0, <2>2 DEF Goto, TypeInv, SessionsType
      <4>2. QED
        BY <4>1 DEF SessionRecord
    <3>2. QED
      BY <1>0, <3>1 DEF CallerOK, ReadOK, RecordedOK
  <2>3. CASE LockPending(s)
    <3>1. PICK i \in Ids :
            \/ /\ StillPending(i)
               /\ locks' = [locks EXCEPT ![i] = s]
               /\ sessions' = [sessions EXCEPT ![s].pc = "decide", ![s].row = i]
            \/ /\ sessions' = [sessions EXCEPT ![s].seen = @ \ {i}]
               /\ UNCHANGED locks
      BY <2>3
    <3>2. /\ sessions'[s].actor = sessions[s].actor /\ sessions'[s].subject = sessions[s].subject
          /\ sessions'[s].action = sessions[s].action
          /\ \/ StillPending(i) /\ locks'[i] = s /\ sessions'[s].pc = "decide"
                                /\ sessions'[s].row = i
             \/ sessions'[s].pc = "lock"
      BY <1>0, <2>3, <3>1 DEF TypeInv, TypeOK, SessionsType, SessionRecord
    <3>3. QED
      BY <1>0, <1>1, <2>3, <3>2 DEF StillPending, CallerOK, ReadOK, RecordedOK, Locked
  <2>4. CASE CheckApproval(s)
    <3>1. /\ sessions'[s] = [sessions[s] EXCEPT !.pc = IF Spendable(s, sessions[s].row)
                                                       THEN "fetch" ELSE "reply"]
          /\ sessions[s].pc = "check" /\ sessions[s].row \in Ids
          /\ sessions[s] \in SessionRecord
      BY <1>0, <2>4 DEF Goto, TypeInv, SessionsType, CallerOK
    <3>2. locks'[sessions[s].row] = s
      BY <1>0, <2>4, <3>1 DEF TypeInv, TypeOK
    <3>3. QED
      BY <1>0, <1>1, <3>1, <3>2 DEF CallerOK, ReadOK, RecordedOK, Locked, Cleared, Spendable,
         NeedsApproval, Capped, WithinLimit, Limited, SessionRecord
  <2>5. CASE FetchRows(s)
    <3>1. /\ sessions'[s] = [sessions[s] EXCEPT !.pc = "commit",
                                  !.fetched = Limited(sessions[s].subject, dataset)]
          /\ sessions[s].pc = "fetch" /\ UNCHANGED locks
          /\ sessions[s] \in SessionRecord
      BY <1>0, <2>5 DEF TypeInv, SessionsType
    <3>2. WithinLimit(sessions[s].subject, Limited(sessions[s].subject, dataset))
      BY <1>0, <3>1, LimitedRows DEF CallerOK, TypeInv, TypeOK
    <3>3. QED
      BY <1>0, <1>1, <3>1, <3>2 DEF CallerOK, ReadOK, RecordedOK, Locked, Cleared,
         NeedsApproval, Capped, WithinLimit, Limited, SessionRecord
  <2>6. QED
    BY <2>1, <2>2, <2>3, <2>4, <2>5
<1>5. SessionsOK'
  BY <1>1, <1>2, <1>3, <1>4, OneSession DEF Kept
<1>6. QED
  BY <1>1, <1>5, SameLedger, SameDelivered DEF IInv
\* The row that a step changes, field by field.
LEMMA RowFields ==
    ASSUME TypeInv, TypeInv', NEW i \in Ids
    PROVE  approvals[i] \in ApprovalRecord /\ approvals'[i] \in ApprovalRecord
BY DEF TypeInv, TypeOK, ApprovalRecord

LEMMA InsertRow ==
    ASSUME IInv, NEW s \in Sessions, Insert(s)
    PROVE  \E i \in Ids :
              /\ approvals[i].state = "none" /\ approvals'[i].state = "pending"
              /\ approvals[i].consumed_by = NoActor /\ approvals'[i].consumed_by = NoActor
              /\ approvals'[i].decided_by = NoActor
              /\ approvals'[i].subject = sessions[s].subject
              /\ approvals'[i].requested_by = sessions[s].actor
              /\ \A j \in Ids \ {i} : approvals'[j] = approvals[j]
<1>1. PICK i \in Ids : approvals[i].state = "none" /\ approvals' = [approvals EXCEPT ![i] =
                [@ EXCEPT !.state = "pending", !.subject = sessions[s].subject,
                          !.requested_by = sessions[s].actor]]
  BY DEF Insert
<1>2. /\ approvals'[i].state = "pending" /\ approvals'[i].subject = sessions[s].subject
      /\ approvals'[i].requested_by = sessions[s].actor
      /\ approvals'[i].decided_by = approvals[i].decided_by
      /\ approvals'[i].consumed_by = approvals[i].consumed_by
      /\ \A j \in Ids \ {i} : approvals'[j] = approvals[j]
  BY <1>1 DEF IInv, TypeInv, TypeOK
<1>3. approvals[i].decided_by = NoActor /\ approvals[i].consumed_by = NoActor
  BY <1>1 DEF IInv, RowsOK, RowOK
<1>4. QED
  BY <1>1, <1>2, <1>3

LEMMA InsertInv ==
    ASSUME IInv, NEW s \in Sessions, Insert(s), TypeInv' PROVE IInv'
<1>0. TypeInv /\ RowsOK /\ ExportsOK /\ SpendsMatchExports
  BY DEF IInv
<1>1. PICK i \in Ids :
          /\ approvals[i].state = "none" /\ approvals'[i].state = "pending"
          /\ approvals[i].consumed_by = NoActor /\ approvals'[i].consumed_by = NoActor
          /\ approvals'[i].decided_by = NoActor
          /\ \A j \in Ids \ {i} : approvals'[j] = approvals[j]
  BY InsertRow
<1>4. UNCHANGED <<locks, exports, delivered>> /\ Reply(s)
  BY DEF Insert
<1>5. RowsOK'
  BY <1>0, <1>1 DEF RowsOK, RowOK
<1>6. ExportsOK'
  BY <1>0, <1>1, <1>4 DEF ExportsOK, ExportOK, NeedsApproval, Capped, WithinLimit, Limited
<1>7. SpendsMatchExports'
  BY <1>0, <1>1, <1>4 DEF SpendsMatchExports
<1>8. \A t \in Sessions \ {s} : sessions'[t] = sessions[t]
  BY <1>0, <1>4 DEF Reply, TypeInv, SessionsType
<1>9. \A j \in Ids : approvals[j].state \in {"pending", "approved"} => Kept(j)
  BY <1>1 DEF Kept
<1>10. SessionsOK'
  BY <1>0, <1>4, <1>8, <1>9, Finished, OneSession
<1>11. QED
  BY <1>4, <1>5, <1>6, <1>7, <1>10, SameDelivered DEF IInv

LEMMA DecideRow ==
    ASSUME IInv, NEW s \in Sessions, Decide(s)
    PROVE  \E i \in Ids, state \in {"approved", "rejected"} :
              /\ locks[i] = s /\ approvals[i].state = "pending"
              /\ sessions[s].actor \in Reviewers
              /\ FourEyes => sessions[s].actor # approvals[i].requested_by
              /\ approvals'[i].state = state /\ approvals'[i].decided_by = sessions[s].actor
              /\ approvals'[i].consumed_by = NoActor
              /\ approvals'[i].subject = approvals[i].subject
              /\ approvals'[i].requested_by = approvals[i].requested_by
              /\ \A j \in Ids \ {i} : approvals'[j] = approvals[j]
<1>0. TypeInv /\ CallerOK(s) /\ ReadOK(s)
  BY DEF IInv, SessionsOK
<1> DEFINE i == sessions[s].row
<1>1. /\ i \in Ids /\ locks[i] = s /\ approvals[i].state = "pending"
      /\ sessions[s].actor \in Reviewers
  BY <1>0 DEF Decide, CallerOK, ReadOK, Locked
<1>2. PICK state \in {"approved", "rejected"} :
          approvals' = [approvals EXCEPT ![i] =
              [@ EXCEPT !.state = state, !.decided_by = sessions[s].actor,
                        !.expired = FALSE, !.consumed_by = NoActor]]
  BY DEF Decide
<1>3. /\ approvals'[i].state = state /\ approvals'[i].decided_by = sessions[s].actor
      /\ approvals'[i].consumed_by = NoActor
      /\ approvals'[i].subject = approvals[i].subject
      /\ approvals'[i].requested_by = approvals[i].requested_by
  BY <1>0, <1>1, <1>2 DEF TypeInv, TypeOK
<1>4. \A j \in Ids \ {i} : approvals'[j] = approvals[j]
  BY <1>0, <1>2 DEF TypeInv, TypeOK
<1>5. FourEyes => sessions[s].actor # approvals[i].requested_by
  BY DEF Decide, SelfApproving
<1>6. QED
  BY <1>1, <1>3, <1>4, <1>5

LEMMA DecideInv ==
    ASSUME IInv, NEW s \in Sessions, Decide(s), TypeInv' PROVE IInv'
<1>0. TypeInv /\ RowsOK /\ ExportsOK /\ SpendsMatchExports
  BY DEF IInv
<1>1. PICK i \in Ids, state \in {"approved", "rejected"} :
          /\ locks[i] = s /\ approvals[i].state = "pending"
          /\ sessions[s].actor \in Reviewers
          /\ FourEyes => sessions[s].actor # approvals[i].requested_by
          /\ approvals'[i].state = state /\ approvals'[i].decided_by = sessions[s].actor
          /\ approvals'[i].consumed_by = NoActor
          /\ approvals'[i].requested_by = approvals[i].requested_by
          /\ \A j \in Ids \ {i} : approvals'[j] = approvals[j]
  BY DecideRow
<1>5. UNCHANGED <<exports, delivered>> /\ Unlock(s) /\ Reply(s)
  BY DEF Decide
<1>7. RowsOK'
  BY <1>0, <1>1 DEF RowsOK, RowOK
<1>8. ExportsOK'
  BY <1>0, <1>1, <1>5 DEF ExportsOK, ExportOK, NeedsApproval, Capped, WithinLimit, Limited
<1>9. SpendsMatchExports'
  BY <1>0, <1>1, <1>5 DEF SpendsMatchExports
<1>10. \A t \in Sessions \ {s} : sessions'[t] = sessions[t]
  BY <1>0, <1>5 DEF Reply, TypeInv, SessionsType
<1>11. \A t \in Sessions \ {s} : \A j \in Ids : locks[j] = t => locks'[j] = t /\ Kept(j)
  BY <1>0, <1>1, <1>5, UnlockKeeps DEF Kept
<1>12. SessionsOK'
  BY <1>0, <1>5, <1>10, <1>11, Finished, OneSession
<1>13. QED
  BY <1>5, <1>7, <1>8, <1>9, <1>12, SameDelivered DEF IInv

LEMMA CommitRow ==
    ASSUME IInv, NEW s \in Sessions, CommitExport(s), TypeInv'
    PROVE  \/ /\ ~NeedsApproval(sessions[s].count) /\ Spent(s) = 0
              /\ \A j \in Ids : approvals'[j] = approvals[j]
           \/ \E i \in Ids :
              /\ NeedsApproval(sessions[s].count) /\ Spent(s) = i /\ i # 0 /\ locks[i] = s
              /\ approvals[i].state = "approved" /\ approvals'[i].state = "approved"
              /\ approvals[i].consumed_by = NoActor
              /\ approvals'[i].consumed_by = sessions[s].actor
              /\ sessions[s].actor \in Actors /\ sessions[s].actor # NoActor
              /\ approvals[i].subject = sessions[s].subject
              /\ approvals'[i].subject = sessions[s].subject
              /\ approvals'[i].decided_by = approvals[i].decided_by
              /\ approvals'[i].requested_by = approvals[i].requested_by
              /\ \A j \in Ids \ {i} : approvals'[j] = approvals[j]
<1>0. TypeInv /\ CallerOK(s) /\ ReadOK(s)
  BY DEF IInv, SessionsOK
<1>1. /\ \A j \in Ids \ {Spent(s)} : approvals'[j] = approvals[j]
      /\ Spent(s) \in Ids => approvals'[Spent(s)] =
            [approvals[Spent(s)] EXCEPT !.consumed_by = sessions[s].actor]
  BY DEF CommitExport, Consumed
<1>2. CASE ~NeedsApproval(sessions[s].count)
  BY <1>1, <1>2, IdsAreNotZero DEF Spent
<1>3. CASE NeedsApproval(sessions[s].count)
  <2> DEFINE i == sessions[s].row
  <2>1. /\ Spent(s) = i /\ i \in Ids /\ i # 0 /\ locks[i] = s
        /\ approvals[i].state = "approved" /\ approvals[i].subject = sessions[s].subject
        /\ approvals[i].consumed_by = NoActor
    BY <1>0, <1>3, IdsAreNotZero DEF CommitExport, Spent, ReadOK, Locked, Cleared
  <2>2. sessions[s].actor \in Actors /\ sessions[s].actor # NoActor
    BY <1>0, ApprovalsAssumption DEF CommitExport, CallerOK
  <2>3. /\ approvals'[i].state = "approved" /\ approvals'[i].subject = sessions[s].subject
        /\ approvals'[i].consumed_by = sessions[s].actor
        /\ approvals'[i].decided_by = approvals[i].decided_by
        /\ approvals'[i].requested_by = approvals[i].requested_by
    BY <1>0, <1>1, <2>1, RowFields DEF ApprovalRecord
  <2>4. QED
    BY <1>1, <1>3, <2>1, <2>2, <2>3
<1>4. QED
  BY <1>2, <1>3

LEMMA CommitInv ==
    ASSUME IInv, NEW s \in Sessions, CommitExport(s), TypeInv' PROVE IInv'
<1>0. TypeInv /\ RowsOK /\ ExportsOK /\ SpendsMatchExports /\ CallerOK(s) /\ ReadOK(s)
  BY DEF IInv, SessionsOK
<1>n. PICK new : new = [id |-> sessions[s].id, actor |-> sessions[s].actor,
                        subject |-> sessions[s].subject, count |-> sessions[s].count,
                        fetched |-> sessions[s].fetched, approval |-> Spent(s)]
  OBVIOUS
<1>1. /\ sessions[s].pc = "commit" /\ approvals' = Consumed(s) /\ exports' = exports \cup {new}
      /\ delivered' = delivered /\ Unlock(s) /\ Goto(s, "deliver")
  BY <1>n DEF CommitExport
<1>f. /\ new.id = sessions[s].id /\ new.actor = sessions[s].actor
      /\ new.subject = sessions[s].subject /\ new.count = sessions[s].count
      /\ new.fetched = sessions[s].fetched
      /\ new.approval = Spent(s) /\ new \in exports'
  BY <1>n, <1>1
<1>2. /\ sessions[s].actor \in Actors /\ sessions[s].actor # NoActor
      /\ Capped(sessions[s].subject, sessions[s].count)
      /\ WithinLimit(sessions[s].subject, sessions[s].fetched)
  BY <1>0, <1>1, ApprovalsAssumption DEF CallerOK
<1>4. ASSUME ~NeedsApproval(sessions[s].count)
      PROVE  RowsOK' /\ ExportsOK' /\ SpendsMatchExports'
             /\ \A t \in Sessions \ {s} : \A j \in Ids : locks[j] = t => Kept(j)
  <2>1. Spent(s) = 0 /\ \A j \in Ids : approvals'[j] = approvals[j]
    BY <1>4, CommitRow
  <2>3. RowsOK'
    BY <1>0, <2>1 DEF RowsOK, RowOK
  <2>4. ExportsOK'
    BY <1>0, <1>1, <1>f, <1>2, <1>4, <2>1 DEF ExportsOK, ExportOK, NeedsApproval, Capped, WithinLimit, Limited
  <2>5. SpendsMatchExports'
    <3>1. \A e, f \in exports' : e.approval = f.approval /\ e.approval # 0 => e = f
      BY <1>0, <1>1, <1>f, <2>1 DEF SpendsMatchExports
    <3>2. QED
      BY <1>0, <1>1, <2>1, <3>1 DEF SpendsMatchExports
  <2>6. \A j \in Ids : Kept(j)
    BY <2>1 DEF Kept
  <2>7. QED
    BY <2>3, <2>4, <2>5, <2>6
<1>5. ASSUME NeedsApproval(sessions[s].count)
      PROVE  RowsOK' /\ ExportsOK' /\ SpendsMatchExports'
             /\ \A t \in Sessions \ {s} : \A j \in Ids : locks[j] = t => Kept(j)
  <2>1. PICK i \in Ids :
          /\ Spent(s) = i /\ i # 0 /\ locks[i] = s
          /\ approvals[i].state = "approved" /\ approvals'[i].state = "approved"
          /\ approvals[i].consumed_by = NoActor
          /\ approvals'[i].consumed_by = sessions[s].actor
          /\ approvals'[i].subject = sessions[s].subject
          /\ approvals'[i].decided_by = approvals[i].decided_by
          /\ approvals'[i].requested_by = approvals[i].requested_by
          /\ \A j \in Ids \ {i} : approvals'[j] = approvals[j]
    BY <1>5, CommitRow
  <2>4. \A e \in exports : e.approval # i
    BY <1>0, <2>1, ApprovalsAssumption DEF ExportsOK, ExportOK, TypeInv, TypeOK
  <2>5. RowsOK'
    BY <1>0, <2>1 DEF RowsOK, RowOK
  <2>6. ExportsOK'
    <3>1. \A e \in exports : ExportOK(e)'
      BY <1>0, <2>1, <2>4 DEF ExportsOK, ExportOK, NeedsApproval, Capped, WithinLimit, Limited
    <3>2. ExportOK(new)'
      BY <1>f, <1>2, <1>5, <2>1 DEF ExportOK, NeedsApproval, Capped, WithinLimit, Limited
    <3>3. QED
      BY <1>1, <3>1, <3>2 DEF ExportsOK
  <2>7. SpendsMatchExports'
    <3>1. \A e, f \in exports' : e.approval = f.approval /\ e.approval # 0 => e = f
      BY <1>0, <1>1, <1>f, <2>1, <2>4 DEF SpendsMatchExports
    <3>2. \A j \in Ids : approvals'[j].consumed_by # NoActor =>
             \E e \in exports' : e.approval = j /\ e.actor = approvals'[j].consumed_by
      <4>1. new.approval = i /\ new.actor = approvals'[i].consumed_by /\ new \in exports'
        BY <1>1, <1>f, <2>1
      <4>2. QED
        BY <1>0, <1>1, <2>1, <4>1 DEF SpendsMatchExports
    <3>3. QED
      BY <3>1, <3>2 DEF SpendsMatchExports
  <2>8. \A t \in Sessions \ {s} : \A j \in Ids : locks[j] = t => Kept(j)
    BY <2>1 DEF Kept
  <2>9. QED
    BY <2>5, <2>6, <2>7, <2>8
<1>6. RowsOK' /\ ExportsOK' /\ SpendsMatchExports'
      /\ \A t \in Sessions \ {s} : \A j \in Ids : locks[j] = t => Kept(j)
  BY <1>4, <1>5
<1>7. /\ sessions'[s].pc = "deliver" /\ sessions'[s].id = sessions[s].id
      /\ sessions'[s].actor = sessions[s].actor /\ sessions'[s].subject = sessions[s].subject
      /\ \A t \in Sessions \ {s} : sessions'[t] = sessions[t]
  BY <1>0, <1>1 DEF Goto, TypeInv, SessionsType, SessionRecord
<1>8. CallerOK(s)' /\ ReadOK(s)' /\ RecordedOK(s)'
  <2>1. new \in exports' /\ new.id = sessions[s].id
    BY <1>f
  <2>2. QED
    BY <1>0, <1>1, <1>7, <2>1 DEF CallerOK, ReadOK, RecordedOK
<1>9. \A t \in Sessions \ {s} : \A j \in Ids : locks[j] = t => locks'[j] = t
  BY <1>0, <1>1, UnlockKeeps
<1>10. SessionsOK'
  BY <1>0, <1>1, <1>6, <1>7, <1>8, <1>9, OneSession
<1>11. QED
  BY <1>1, <1>6, <1>10, SameDelivered DEF IInv

LEMMA DeliverInv ==
    ASSUME IInv, NEW s \in Sessions, Deliver(s), TypeInv' PROVE IInv'
<1>0. TypeInv /\ RecordedOK(s) /\ DeliveredOK
  BY DEF IInv, SessionsOK
<1>1. UNCHANGED <<approvals, locks, exports>> /\ Reply(s)
      /\ delivered' = delivered \cup {sessions[s].id} /\ sessions[s].pc = "deliver"
  BY DEF Deliver
<1>2. DeliveredOK'
  BY <1>0, <1>1 DEF DeliveredOK, RecordedOK
<1>3. \A t \in Sessions \ {s} : sessions'[t] = sessions[t]
  BY <1>0, <1>1 DEF Reply, TypeInv, SessionsType
<1>4. SessionsOK'
  BY <1>0, <1>1, <1>3, Finished, OneSession DEF Kept
<1>5. QED
  BY <1>1, <1>2, <1>4, SameLedger DEF IInv

\* The steps of no session.
LEMMA AmbientInv ==
    ASSUME IInv, TypeInv', UNCHANGED <<locks, exports, delivered, sessions>>,
           \/ UNCHANGED approvals
           \/ \E i \in Ids : Expire(i)
    PROVE  IInv'
<1>0. TypeInv /\ RowsOK /\ SessionsOK /\ ExportsOK /\ SpendsMatchExports /\ DeliveredOK
  BY DEF IInv
<1>1. \A j \in Ids : Kept(j) /\ approvals'[j].decided_by = approvals[j].decided_by
                     /\ approvals'[j].requested_by = approvals[j].requested_by
  <2>1. CASE UNCHANGED approvals
    BY <2>1 DEF Kept
  <2>2. ASSUME NEW i \in Ids, Expire(i)
        PROVE  \A j \in Ids : Kept(j) /\ approvals'[j].decided_by = approvals[j].decided_by
                              /\ approvals'[j].requested_by = approvals[j].requested_by
    BY <1>0, <2>2 DEF Expire, Kept, TypeInv, TypeOK
  <2>3. QED
    BY <2>1, <2>2
<1>2. RowsOK'
  BY <1>0, <1>1 DEF RowsOK, RowOK, Kept
<1>3. SessionsOK'
  BY <1>0, <1>1 DEF SessionsOK, CallerOK, ReadOK, RecordedOK, Locked, Cleared, Kept,
     NeedsApproval, Capped, WithinLimit, Limited
<1>4. ExportsOK'
  BY <1>0, <1>1 DEF ExportsOK, ExportOK, NeedsApproval, Capped, WithinLimit, Limited, Kept
<1>5. SpendsMatchExports'
  BY <1>0, <1>1 DEF SpendsMatchExports, Kept
<1>6. DeliveredOK'
  BY <1>0 DEF DeliveredOK
<1>7. QED
  BY <1>2, <1>3, <1>4, <1>5, <1>6 DEF IInv

LEMMA NextInv == IInv /\ [Next]_vars => IInv'
<1> SUFFICES ASSUME IInv, [Next]_vars PROVE IInv'
  OBVIOUS
<1>1. TypeInv'
  BY NextType DEF IInv
<1>2. ASSUME NEW s \in Sessions, NewCall(s) \/ CallStep(s) \/ CallFails(s) PROVE IInv'
  BY <1>1, <1>2, NewCallInv, InsertInv, DecideInv, CommitInv, DeliverInv, ReadingInv DEF CallStep
<1>3. ASSUME NEW i \in Ids, Expire(i) PROVE IInv'
  BY <1>1, <1>3, AmbientInv DEF Expire
<1>4. CASE RowsArrive \/ UNCHANGED vars
  BY <1>1, <1>4, AmbientInv DEF RowsArrive, vars
<1>5. QED
  BY <1>2, <1>3, <1>4 DEF Next

-----------------------------------------------------------------------------
(* The theorems. *)

\* The invariant holds: what a session read under the lock of a row still holds when it
\* decides or spends that row.
THEOREM Invariance == Spec => []IInv
BY InitInv, NextInv, PTL DEF Spec

\* The columns, the sessions and the audit rows keep their domains.
THEOREM TypeCorrect == Spec => []TypeOK
<1>1. IInv => TypeOK
  BY DEF IInv, TypeInv
<1>2. QED
  BY Invariance, <1>1, PTL

\* One approval lets one export out, and the approval and the audit log agree on who
\* spent it, whatever calls die and wherever they die.
THEOREM SpentOnce == Spec => []SpendsMatchExports
<1>1. IInv => SpendsMatchExports
  BY DEF IInv
<1>2. QED
  BY Invariance, <1>1, PTL

\* No bytes leave without an audit row, and none above the guard without a decision of
\* a reviewer, another person than the requester when four eyes are required.  More rows
\* than the cap leave only when rows were committed after the count, and never for a
\* request whose limit is within the cap.
THEOREM Governed == Spec => []DeliveriesAreGoverned
<1>1. IInv => DeliveriesAreGoverned
  <2> SUFFICES ASSUME IInv, NEW d \in delivered PROVE \E e \in exports :
        /\ e.id = d
        /\ e.fetched > HardMax => e.fetched > e.count /\ Limit[e.subject] \notin 1..HardMax
        /\ e.count > MaxRows =>
             /\ e.approval # 0 /\ approvals[e.approval].state = "approved"
             /\ approvals[e.approval].subject = e.subject
             /\ approvals[e.approval].consumed_by = e.actor
             /\ approvals[e.approval].decided_by \in Reviewers
             /\ FourEyes => approvals[e.approval].decided_by # approvals[e.approval].requested_by
    BY DEF DeliveriesAreGoverned
  <2>1. PICK e \in exports : e.id = d
    BY DEF IInv, DeliveredOK
  <2>2. ExportOK(e)
    BY DEF IInv, ExportsOK
  <2>3. ASSUME e.fetched > HardMax
        PROVE  e.fetched > e.count /\ Limit[e.subject] \notin 1..HardMax
    <3>1. /\ e.subject \in Subjects /\ e.count \in Nat /\ e.fetched \in Nat
          /\ HardMax \in Nat /\ Limit[e.subject] \in Nat
      BY ApprovalsAssumption DEF IInv, TypeInv, TypeOK
    <3>2. Limit[e.subject] \notin 1..HardMax
      BY <2>2, <2>3, <3>1 DEF ExportOK, WithinLimit
    <3>3. e.count <= HardMax
      BY <2>2, <3>1, <3>2 DEF ExportOK, Capped, Limited
    <3>4. QED
      BY <2>3, <3>1, <3>2, <3>3
  <2>4. ASSUME e.count > MaxRows
        PROVE  /\ e.approval # 0 /\ approvals[e.approval].state = "approved"
               /\ approvals[e.approval].subject = e.subject
               /\ approvals[e.approval].consumed_by = e.actor
               /\ approvals[e.approval].decided_by \in Reviewers
               /\ FourEyes => approvals[e.approval].decided_by # approvals[e.approval].requested_by
    <3>1. /\ e.approval \in Ids /\ approvals[e.approval].state = "approved"
          /\ approvals[e.approval].subject = e.subject
          /\ approvals[e.approval].consumed_by = e.actor
      BY <2>2, <2>4 DEF ExportOK, NeedsApproval, Capped, WithinLimit, Limited
    <3>2. RowOK(approvals[e.approval])
      BY <3>1 DEF IInv, RowsOK
    <3>3. QED
      BY <3>1, <3>2, IdsAreNotZero DEF RowOK
  <2>5. QED
    BY <2>1, <2>3, <2>4
<1>2. QED
  BY Invariance, <1>1, PTL
-----------------------------------------------------------------------------
(* The refinement: an approval is a capability. *)

\* The status of a row, as the mapping reads it.
StatusOf(p) ==
    CASE p.state = "none" -> "none"
      [] p.state = "pending" -> "asked"
      [] p.state = "rejected" -> "refused"
      [] p.state = "approved" -> IF p.consumed_by = NoActor THEN "granted" ELSE "used"

GrantOf(p) == [status |-> StatusOf(p), subject |-> p.subject, asker |-> p.requested_by,
               granter |-> p.decided_by]

LEMMA StatusCases ==
    ASSUME NEW p
    PROVE  /\ p.state = "none" => StatusOf(p) = "none"
           /\ p.state = "pending" => StatusOf(p) = "asked"
           /\ p.state = "rejected" => StatusOf(p) = "refused"
           /\ p.state = "approved" /\ p.consumed_by # NoActor => StatusOf(p) = "used"
           /\ p.state = "approved" /\ p.consumed_by = NoActor => StatusOf(p) = "granted"
<1>1. p.state = "none" => StatusOf(p) = "none"
  BY DEF StatusOf
<1>2. p.state = "pending" => StatusOf(p) = "asked"
  BY DEF StatusOf
<1>3. p.state = "rejected" => StatusOf(p) = "refused"
  BY DEF StatusOf
<1>4. p.state = "approved" /\ p.consumed_by # NoActor => StatusOf(p) = "used"
  BY DEF StatusOf
<1>5. p.state = "approved" /\ p.consumed_by = NoActor => StatusOf(p) = "granted"
  BY DEF StatusOf
<1>6. QED
  BY <1>1, <1>2, <1>3, <1>4, <1>5

LEMMA GrantedRow ==
    /\ Granted = [i \in Ids |-> GrantOf(approvals[i])]
    /\ Granted' = [i \in Ids |-> GrantOf(approvals'[i])]
BY DEF Granted, GrantOf, StatusOf

\* The columns that the mapping reads.
LEMMA SameGrant ==
    ASSUME NEW p, NEW q, p.state = q.state, p.subject = q.subject,
           p.requested_by = q.requested_by, p.decided_by = q.decided_by,
           p.consumed_by = q.consumed_by
    PROVE  GrantOf(p) = GrantOf(q)
BY DEF GrantOf, StatusOf

LEMMA SameUses ==
    ASSUME UNCHANGED exports PROVE Used' = Used
BY DEF Used

LEMMA SameGrants ==
    ASSUME \A j \in Ids : GrantOf(approvals'[j]) = GrantOf(approvals[j])
    PROVE  Granted' = Granted
BY GrantedRow

\* One row changes its grant.
LEMMA OneGrant ==
    ASSUME NEW i \in Ids, NEW g, GrantOf(approvals'[i]) = g,
           \A j \in Ids \ {i} : approvals'[j] = approvals[j]
    PROVE  Granted' = [Granted EXCEPT ![i] = g]
BY GrantedRow

LEMMA InsertAsks ==
    ASSUME IInv, NEW s \in Sessions, Insert(s) PROVE Promise!Next
<1>1. PICK i \in Ids :
          /\ approvals[i].state = "none" /\ approvals'[i].state = "pending"
          /\ approvals'[i].decided_by = NoActor
          /\ approvals'[i].subject = sessions[s].subject
          /\ approvals'[i].requested_by = sessions[s].actor
          /\ \A j \in Ids \ {i} : approvals'[j] = approvals[j]
  BY InsertRow
<1>2. sessions[s].actor \in Actors /\ sessions[s].subject \in Subjects
  BY DEF IInv, SessionsOK, CallerOK, Insert
<1>3. Granted[i].status = "none"
  BY <1>1, GrantedRow, StatusCases DEF GrantOf
<1>4. GrantOf(approvals'[i]) = [status |-> "asked", subject |-> sessions[s].subject,
                                asker |-> sessions[s].actor, granter |-> NoActor]
  BY <1>1, StatusCases DEF GrantOf
<1>5. Used' = Used
  BY SameUses DEF Insert
<1>6. Promise!Ask(i, sessions[s].actor, sessions[s].subject)
  BY <1>1, <1>3, <1>4, <1>5, OneGrant DEF Promise!Ask
<1>7. QED
  BY <1>2, <1>6 DEF Promise!Next

LEMMA DecideDecides ==
    ASSUME IInv, FourEyes, NEW s \in Sessions, Decide(s) PROVE Promise!Next
<1>1. PICK i \in Ids, state \in {"approved", "rejected"} :
          /\ approvals[i].state = "pending"
          /\ sessions[s].actor \in Reviewers
          /\ FourEyes => sessions[s].actor # approvals[i].requested_by
          /\ approvals'[i].state = state /\ approvals'[i].decided_by = sessions[s].actor
          /\ approvals'[i].consumed_by = NoActor
          /\ approvals'[i].subject = approvals[i].subject
          /\ approvals'[i].requested_by = approvals[i].requested_by
          /\ \A j \in Ids \ {i} : approvals'[j] = approvals[j]
  BY DecideRow
<1> DEFINE status == IF state = "approved" THEN "granted" ELSE "refused"
           g == [status |-> "asked", subject |-> approvals[i].subject,
                 asker |-> approvals[i].requested_by, granter |-> approvals[i].decided_by]
<1>2. sessions[s].actor \in Actors /\ status \in {"granted", "refused"}
  BY <1>1, ApprovalsAssumption
<1>3. Granted[i] = g
  BY <1>1, GrantedRow, StatusCases DEF GrantOf
<1>4. GrantOf(approvals'[i]) = [status |-> status, subject |-> approvals[i].subject,
                asker |-> approvals[i].requested_by, granter |-> sessions[s].actor]
  BY <1>1, StatusCases DEF GrantOf
<1>6. Used' = Used
  BY SameUses DEF Decide
<1>7. Promise!Decide(i, sessions[s].actor, status)
  BY <1>1, <1>3, <1>4, <1>6, OneGrant DEF Promise!Decide
<1>8. QED
  BY <1>2, <1>7 DEF Promise!Next

LEMMA CommitUses ==
    ASSUME IInv, TypeInv', NEW s \in Sessions, CommitExport(s)
    PROVE  Promise!Next \/ UNCHANGED <<Granted, Used>>
<1>1. PICK new : new = [id |-> sessions[s].id, actor |-> sessions[s].actor,
                        subject |-> sessions[s].subject, count |-> sessions[s].count,
                        fetched |-> sessions[s].fetched, approval |-> Spent(s)]
  OBVIOUS
<1>2. /\ exports' = exports \cup {new} /\ new.approval = Spent(s)
      /\ new.subject = sessions[s].subject
  BY <1>1 DEF CommitExport
<1>3. CASE Spent(s) = 0 /\ \A j \in Ids : approvals'[j] = approvals[j]
  <2>1. Granted' = Granted
    BY <1>3, SameGrants
  <2>2. Used' = Used
    BY <1>2, <1>3 DEF Used
  <2>3. QED
    BY <2>1, <2>2
<1>4. ASSUME NEW i \in Ids, Spent(s) = i, i # 0,
             approvals[i].state = "approved", approvals'[i].state = "approved",
             approvals[i].consumed_by = NoActor, approvals'[i].consumed_by # NoActor,
             approvals[i].subject = sessions[s].subject,
             approvals'[i].subject = sessions[s].subject,
             approvals'[i].decided_by = approvals[i].decided_by,
             approvals'[i].requested_by = approvals[i].requested_by,
             \A j \in Ids \ {i} : approvals'[j] = approvals[j]
      PROVE  Promise!Next
  <2>1. Granted[i] = [status |-> "granted", subject |-> sessions[s].subject,
                      asker |-> approvals[i].requested_by, granter |-> approvals[i].decided_by]
    BY <1>4, GrantedRow, StatusCases DEF GrantOf
  <2>2. GrantOf(approvals'[i]) = [Granted[i] EXCEPT !.status = "used"]
    BY <1>4, <2>1, StatusCases DEF GrantOf
  <2>3. Granted' = [Granted EXCEPT ![i] = [Granted[i] EXCEPT !.status = "used"]]
    BY <1>4, <2>2, OneGrant
  <2>4. Used' = Used \cup {[grant |-> i, subject |-> sessions[s].subject]}
    BY <1>2, <1>4 DEF Used
  <2>5. Promise!Use(i)
    BY <2>1, <2>3, <2>4 DEF Promise!Use
  <2>6. QED
    BY <2>5 DEF Promise!Next
<1>5. QED
  BY <1>3, <1>4, CommitRow

LEMMA ExpireHides ==
    ASSUME IInv, NEW i \in Ids, Expire(i) PROVE UNCHANGED <<Granted, Used>>
<1>1. \A j \in Ids : /\ approvals'[j].state = approvals[j].state
                     /\ approvals'[j].subject = approvals[j].subject
                     /\ approvals'[j].requested_by = approvals[j].requested_by
                     /\ approvals'[j].decided_by = approvals[j].decided_by
                     /\ approvals'[j].consumed_by = approvals[j].consumed_by
  BY DEF Expire, IInv, TypeInv, TypeOK
<1>2. \A j \in Ids : GrantOf(approvals'[j]) = GrantOf(approvals[j])
  BY <1>1, SameGrant
<1>3. QED
  BY <1>2, SameGrants, SameUses DEF Expire

LEMMA InitPromises == Init => Promise!Init
<1> SUFFICES ASSUME Init PROVE Promise!Init
  OBVIOUS
<1>1. \A i \in Ids : GrantOf(approvals[i]) = [status |-> "none", subject |-> NoSubject,
                                              asker |-> NoActor, granter |-> NoActor]
  BY StatusCases DEF Init, NoApproval, GrantOf
<1>2. Used = {}
  BY DEF Init, Used
<1>3. QED
  BY <1>1, <1>2, GrantedRow DEF Promise!Init

LEMMA StepPromises ==
    ASSUME FourEyes, IInv, IInv', [Next]_vars
    PROVE  Promise!Next \/ UNCHANGED <<Granted, Used>>
<1>1. TypeInv'
  BY DEF IInv
<1>2. ASSUME NEW s \in Sessions, NewCall(s) \/ CallStep(s) \/ CallFails(s)
      PROVE  Promise!Next \/ UNCHANGED <<Granted, Used>>
  <2>1. CASE Insert(s) \/ Decide(s) \/ CommitExport(s)
    BY <1>1, <2>1, InsertAsks, DecideDecides, CommitUses
  <2>2. CASE ~(Insert(s) \/ Decide(s) \/ CommitExport(s))
    <3>1. UNCHANGED <<approvals, exports>>
      BY <1>2, <2>2 DEF NewCall, RequestApproval, SelectPending, CountRows, CallStep, LockPending,
         NothingPending, ReplyOnly, RefuseSelfApproval, CheckApproval, FetchRows, Deliver, CallFails
    <3>2. QED
      BY <3>1, SameGrants, SameUses
  <2>3. QED
    BY <2>1, <2>2
<1>3. ASSUME NEW i \in Ids, Expire(i) PROVE UNCHANGED <<Granted, Used>>
  BY <1>3, ExpireHides
<1>4. CASE RowsArrive \/ UNCHANGED vars
  BY <1>4, SameGrants, SameUses DEF RowsArrive, vars
<1>5. QED
  BY <1>2, <1>3, <1>4 DEF Next

\* At the default of the four-eyes switch the calls of the two Lambdas keep the promise of
\* an approval: asked for once, decided once by another person, used once for its query.
THEOREM KeepsPromise ==
    ASSUME FourEyes PROVE Spec => ImplementsCapability
<1>1. IInv /\ IInv' /\ [Next]_vars => [Promise!Next]_<<Granted, Used>>
  BY StepPromises
<1>2. QED
  BY <1>1, InitPromises, Invariance, PTL DEF Spec, ImplementsCapability, Promise!Spec
=============================================================================
