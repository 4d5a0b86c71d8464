----------------------------- MODULE Approvals ------------------------------
(***************************************************************************)
(* Approvals and the governed export they clear (functions/approvals and   *)
(* functions/export), over PostgreSQL at READ COMMITTED: every API call is *)
(* one transaction, every statement of it sees what was committed before   *)
(* the statement began, and now() is the time the transaction began.       *)
(*                                                                         *)
(* An action is one statement, or several whose effects nobody can see     *)
(* before the commit that follows them.  A token is named by the approval  *)
(* whose digest it matches: an approval is decided once, with one secret.  *)
(***************************************************************************)
EXTENDS Naturals, FiniteSets

CONSTANTS
    Actors, Reviewers,   \* identities; those in the role poweruser
    Subjects,            \* fingerprints of export requests
    Limit,               \* the limit among the filters of each request, 0 when it has none
    Sessions,            \* database sessions, one per live Lambda container
    NoActor, NoSubject, NoSession,
    FourEyes,            \* APPROVAL_REQUIRE_FOUR_EYES
    MaxRows, HardMax,    \* EXPORT_MAX_ROWS and EXPORT_HARD_MAX_ROWS
    MaxDataset,          \* bound: rows that ever match the filters
    MaxApprovals,        \* bound: rows of the table approvals
    MaxCalls,            \* bound: API calls
    MaxFaults            \* bound: killed calls, broken connections, lost replies

ASSUME ApprovalsAssumption ==
    /\ Reviewers \subseteq Actors /\ NoActor \notin Actors
    /\ NoSubject \notin Subjects /\ NoSession \notin Sessions
    /\ FourEyes \in BOOLEAN /\ Limit \in [Subjects -> Nat]
    /\ {MaxRows, HardMax, MaxDataset, MaxApprovals, MaxCalls, MaxFaults} \subseteq Nat

Ids == 1..MaxApprovals

VARIABLES
    approvals, \* compass.approvals
    locks,     \* the session that holds the row lock of an approval
    tokens,    \* the approvals whose token reached the reviewer
    exports,   \* the rows of action 'export' in compass.audit_log
    delivered, \* the exports whose bytes were handed out
    dataset,   \* how many rows match the filters
    sessions,
    calls, faults

vars == <<approvals, locks, tokens, exports, delivered, dataset, sessions, calls, faults>>

NoApproval == [state |-> "none", subject |-> NoSubject, requested_by |-> NoActor,
               decided_by |-> NoActor, expired |-> FALSE, consumed_by |-> NoActor]

Idle == [pc |-> "idle", id |-> 0, actor |-> NoActor, subject |-> NoSubject,
         action |-> "none", seen |-> {}, past |-> {}, row |-> 0, count |-> 0, fetched |-> 0]

Init ==
    /\ approvals = [i \in Ids |-> NoApproval]
    /\ locks = [i \in Ids |-> NoSession]
    /\ tokens = {} /\ exports = {} /\ delivered = {}
    /\ dataset \in 0..MaxDataset
    /\ sessions = [s \in Sessions |-> Idle]
    /\ calls = 0 /\ faults = 0

Fault == faults < MaxFaults /\ faults' = faults + 1

Expired == {i \in Ids : approvals[i].expired}

Pending(x) == {i \in Ids : approvals[i].state = "pending" /\ approvals[i].subject = x}

\* A new call and its transaction; now() is settled here.
Call(s, action, pc, a, x, token) ==
    /\ sessions[s].pc = "idle" /\ calls < MaxCalls
    /\ calls' = calls + 1
    /\ sessions' = [sessions EXCEPT ![s] =
         [pc |-> pc, id |-> calls + 1, actor |-> a, subject |-> x, action |-> action,
          seen |-> IF pc = "lock" THEN Pending(x) ELSE {},
          past |-> IF pc = "check" THEN Expired ELSE {}, row |-> token,
          count |-> IF action = "export" THEN dataset ELSE 0, fetched |-> 0]]

Goto(s, pc) == sessions' = [sessions EXCEPT ![s] = [@ EXCEPT !.pc = pc]]
Reply(s)    == sessions' = [sessions EXCEPT ![s] = Idle]

\* A commit or a rollback gives back the row locks of the session.
Unlock(s) == locks' = [i \in Ids |-> IF locks[i] = s THEN NoSession ELSE locks[i]]

-----------------------------------------------------------------------------
(* create_or_advance: request                                              *)

\* An outstanding request of the same actor is the answer, and no row is written.
Outstanding(a, x) == {i \in Pending(x) : approvals[i].requested_by = a}

RequestApproval(s, a, x) ==
    /\ Call(s, "request", IF Outstanding(a, x) = {} THEN "insert" ELSE "reply", a, x, 0)
    /\ UNCHANGED <<approvals, locks, tokens, exports, delivered, dataset, faults>>

\* INSERT, audit row, commit.  No unique index covers a pending request.
Insert(s) ==
    /\ sessions[s].pc = "insert"
    /\ \E i \in Ids :
         /\ approvals[i].state = "none"
         /\ \A j \in 1..(i - 1) : approvals[j].state # "none"
         /\ approvals' = [approvals EXCEPT ![i] =
                [@ EXCEPT !.state = "pending", !.subject = sessions[s].subject,
                          !.requested_by = sessions[s].actor]]
    /\ Reply(s)
    /\ UNCHANGED <<locks, tokens, exports, delivered, dataset, calls, faults>>

-----------------------------------------------------------------------------
(* create_or_advance: approve and reject                                   *)

\* SELECT ... FOR UPDATE begins: the rows it will consider are settled.
SelectPending(s, a, x, action) ==
    /\ a \in Reviewers
    /\ Call(s, action, "lock", a, x, 0)
    /\ UNCHANGED <<approvals, locks, tokens, exports, delivered, dataset, faults>>

\* The oldest of the rows that are left; the order of created_at is that of the ids.
IsOldest(s, i) == i \in sessions[s].seen /\ \A j \in sessions[s].seen : i <= j

StillPending(i) == approvals[i].state = "pending"

\* Wait for the lock, then look again: a row that was decided meanwhile is passed over.
LockPending(s) ==
    /\ sessions[s].pc = "lock"
    /\ \E i \in Ids :
         /\ IsOldest(s, i) /\ locks[i] = NoSession
         /\ \/ /\ StillPending(i)
               /\ locks' = [locks EXCEPT ![i] = s]
               /\ sessions' = [sessions EXCEPT ![s].pc = "decide", ![s].row = i]
            \/ /\ ~StillPending(i)
               /\ sessions' = [sessions EXCEPT ![s].seen = @ \ {i}]
               /\ UNCHANGED locks
    /\ UNCHANGED <<approvals, tokens, exports, delivered, dataset, calls, faults>>

\* 404.
NothingPending(s) ==
    /\ sessions[s].pc = "lock" /\ sessions[s].seen = {}
    /\ Goto(s, "reply")
    /\ UNCHANGED <<approvals, locks, tokens, exports, delivered, dataset, calls, faults>>

\* The transaction ends, with an audit row at most.
ReplyOnly(s) ==
    /\ sessions[s].pc = "reply"
    /\ Unlock(s) /\ Reply(s)
    /\ UNCHANGED <<approvals, tokens, exports, delivered, dataset, calls, faults>>

\* Mutant: the requester may decide after all.
MutantSelfApproving(s) == FALSE
SelfApproving(s) == approvals[sessions[s].row].requested_by = sessions[s].actor

\* 403 with an audit row.
RefuseSelfApproval(s) ==
    /\ sessions[s].pc = "decide" /\ FourEyes /\ SelfApproving(s)
    /\ Goto(s, "reply")
    /\ UNCHANGED <<approvals, locks, tokens, exports, delivered, dataset, calls, faults>>

\* UPDATE, audit row, commit; the token is in the reply, and the reply may be lost.
Decide(s) ==
    /\ sessions[s].pc = "decide" /\ ~(FourEyes /\ SelfApproving(s))
    /\ LET approve == sessions[s].action = "approve"
           i == sessions[s].row
       IN /\ approvals' = [approvals EXCEPT ![i] =
                [@ EXCEPT !.state = IF approve THEN "approved" ELSE "rejected",
                          !.decided_by = sessions[s].actor, !.expired = FALSE,
                          !.consumed_by = NoActor]]
          /\ \/ /\ tokens' = IF approve THEN tokens \cup {i} ELSE tokens
                /\ UNCHANGED faults
             \/ approve /\ Fault /\ UNCHANGED tokens
    /\ Unlock(s) /\ Reply(s)
    /\ UNCHANGED <<exports, delivered, dataset, calls>>

-----------------------------------------------------------------------------
(* run_export                                                              *)

\* Mutant: the cap is tested, the guard is not.
MutantNeedsApproval(n) == FALSE
NeedsApproval(n) == n > MaxRows

\* What the LIMIT of a request leaves of n rows that match.
Limited(x, n) == IF Limit[x] \in 1..n THEN Limit[x] ELSE n

\* COUNT(*) of all that match: too many to write are a 413, too many that match a 428
\* without a token. The guard does not look at the limit, the cap does.
CountRows(s, a, x, token) ==
    /\ Call(s, "export",
            IF Limited(x, dataset) > HardMax \/ (NeedsApproval(dataset) /\ token = 0) THEN "reply"
            ELSE IF NeedsApproval(dataset) THEN "check" ELSE "fetch", a, x, token)
    /\ UNCHANGED <<approvals, locks, tokens, exports, delivered, dataset, faults>>

\* Mutant: a token that was spent is good for another export.
MutantSpendable(s, i) ==
    approvals[i].state = "approved" /\ approvals[i].subject = sessions[s].subject
                                    /\ i \notin sessions[s].past
Spendable(s, i) ==
    /\ approvals[i].state = "approved"
    /\ approvals[i].subject = sessions[s].subject
    /\ approvals[i].consumed_by = NoActor
    /\ i \notin sessions[s].past

\* FOR UPDATE, the tests, the conditional UPDATE: private to the session until it commits.
CheckApproval(s) ==
    /\ sessions[s].pc = "check"
    /\ LET i == sessions[s].row
       IN /\ locks[i] = NoSession
          /\ locks' = [locks EXCEPT ![i] = s]
          /\ Goto(s, IF Spendable(s, i) THEN "fetch" ELSE "reply")
    /\ UNCHANGED <<approvals, tokens, exports, delivered, dataset, calls, faults>>

\* A statement of its own: it sees the rows of this moment.
FetchRows(s) ==
    /\ sessions[s].pc = "fetch"
    /\ sessions' = [sessions EXCEPT ![s] =
          [@ EXCEPT !.pc = "commit", !.fetched = Limited(sessions[s].subject, dataset)]]
    /\ UNCHANGED <<approvals, locks, tokens, exports, delivered, dataset, calls, faults>>

\* The approval this export spends: none when the guard was not tripped.
Spent(s) == IF NeedsApproval(sessions[s].count) THEN sessions[s].row ELSE 0

Consumed(s) == [i \in Ids |-> IF i = Spent(s)
                              THEN [approvals[i] EXCEPT !.consumed_by = sessions[s].actor]
                              ELSE approvals[i]]

\* The audit row, and the commit of it with the use of the approval.
CommitExport(s) ==
    /\ sessions[s].pc = "commit"
    /\ approvals' = Consumed(s)
    /\ exports' = exports \cup {[id |-> sessions[s].id, actor |-> sessions[s].actor,
                                 subject |-> sessions[s].subject, count |-> sessions[s].count,
                                 fetched |-> sessions[s].fetched, approval |-> Spent(s)]}
    /\ Unlock(s) /\ Goto(s, "deliver")
    /\ UNCHANGED <<tokens, delivered, dataset, calls, faults>>

Deliver(s) ==
    /\ sessions[s].pc = "deliver"
    /\ delivered' = delivered \cup {sessions[s].id}
    /\ Reply(s)
    /\ UNCHANGED <<approvals, locks, tokens, exports, dataset, calls, faults>>

\* The call is killed or its connection breaks: what was not committed is rolled back,
\* and what was committed stays, a spent approval without a delivery included.
CallFails(s) ==
    /\ sessions[s].pc # "idle" /\ Fault
    /\ Unlock(s) /\ Reply(s)
    /\ UNCHANGED <<approvals, tokens, exports, delivered, dataset, calls>>

-----------------------------------------------------------------------------
Expire(i) ==
    /\ approvals[i].state = "approved" /\ ~approvals[i].expired
    /\ approvals[i].consumed_by = NoActor
    /\ approvals' = [approvals EXCEPT ![i] = [@ EXCEPT !.expired = TRUE]]
    /\ UNCHANGED <<locks, tokens, exports, delivered, dataset, sessions, calls, faults>>

\* The intake pipeline commits another row that the filters match.
RowsArrive ==
    /\ dataset < MaxDataset /\ dataset' = dataset + 1
    /\ UNCHANGED <<approvals, locks, tokens, exports, delivered, sessions, calls, faults>>

NewCall(s) ==
    \E a \in Actors, x \in Subjects :
        \/ RequestApproval(s, a, x)
        \/ SelectPending(s, a, x, "approve")
        \/ SelectPending(s, a, x, "reject")
        \/ \E token \in tokens \cup {0} : CountRows(s, a, x, token)

CallStep(s) ==
    \/ Insert(s) \/ LockPending(s) \/ NothingPending(s) \/ ReplyOnly(s)
    \/ RefuseSelfApproval(s) \/ Decide(s)
    \/ CheckApproval(s) \/ FetchRows(s) \/ CommitExport(s) \/ Deliver(s)

Next ==
    \/ \E s \in Sessions : NewCall(s) \/ CallStep(s) \/ CallFails(s)
    \/ \E i \in Ids : Expire(i)
    \/ RowsArrive

Spec == Init /\ [][Next]_vars

-----------------------------------------------------------------------------
TypeOK ==
    /\ approvals \in [Ids -> [state : {"none", "pending", "approved", "rejected"},
                              subject : Subjects \cup {NoSubject},
                              requested_by : Actors \cup {NoActor},
                              decided_by : Actors \cup {NoActor},
                              expired : BOOLEAN, consumed_by : Actors \cup {NoActor}]]
    /\ locks \in [Ids -> Sessions \cup {NoSession}]
    /\ tokens \subseteq Ids
    /\ exports \subseteq [id : Nat, actor : Actors, subject : Subjects, count : Nat,
                          fetched : Nat, approval : Ids \cup {0}]
    /\ delivered \subseteq Nat /\ dataset \in Nat
    /\ sessions \in [Sessions ->
            [pc : {"idle", "reply", "insert", "lock", "decide", "check", "fetch", "commit", "deliver"},
             id : Nat, actor : Actors \cup {NoActor}, subject : Subjects \cup {NoSubject},
             action : {"none", "request", "approve", "reject", "export"},
             seen : SUBSET Ids, past : SUBSET Ids, row : Ids \cup {0}, count : Nat, fetched : Nat]]
    /\ calls \in Nat /\ faults \in Nat

\* An approval lets one export out at most, and the approval and the audit log agree
\* about who spent it (check_approval and the audit row share a transaction).
SpendsMatchExports ==
    /\ \A e, f \in exports : e.approval = f.approval /\ e.approval # 0 => e = f
    /\ \A i \in Ids : approvals[i].consumed_by # NoActor =>
          \E e \in exports : e.approval = i /\ e.actor = approvals[i].consumed_by

\* Whatever leaves is on record, and if the guard counted too many rows then a reviewer
\* other than the requester had approved that very query (run_export, create_or_advance).
\* More rows than the cap leave only if some were committed after the count, and never
\* when the request has a limit within the cap.
DeliveriesAreGoverned ==
    \A d \in delivered : \E e \in exports :
        /\ e.id = d
        /\ e.fetched > HardMax => e.fetched > e.count /\ Limit[e.subject] \notin 1..HardMax
        /\ e.count > MaxRows =>
             LET p == approvals[e.approval]
             IN /\ e.approval # 0 /\ p.state = "approved" /\ p.subject = e.subject
                /\ p.consumed_by = e.actor
                /\ p.decided_by \in Reviewers /\ (FourEyes => p.decided_by # p.requested_by)

\* What an approval promises (Capability), at the default of the four-eyes switch.
Granted == [i \in Ids |->
    [status |-> CASE approvals[i].state = "none" -> "none"
                  [] approvals[i].state = "pending" -> "asked"
                  [] approvals[i].state = "rejected" -> "refused"
                  [] approvals[i].state = "approved" ->
                       IF approvals[i].consumed_by = NoActor THEN "granted" ELSE "used",
     subject |-> approvals[i].subject, asker |-> approvals[i].requested_by,
     granter |-> approvals[i].decided_by]]
Used == {[grant |-> e.approval, subject |-> e.subject] : e \in {f \in exports : f.approval # 0}}
Promise == INSTANCE Capability WITH grants <- Granted, uses <- Used

\* Every decision is made once, by another person, and every use is the one use of a
\* granted approval, for its own subject.
ImplementsCapability == Promise!Spec

\* approvals/app.py says a double-click cannot fan out the queue.
PendingIsUnique ==
    \A i, j \in Ids :
        /\ approvals[i].state = "pending" /\ approvals[j].state = "pending"
        /\ approvals[i].subject = approvals[j].subject
        /\ approvals[i].requested_by = approvals[j].requested_by
        => i = j
=============================================================================
