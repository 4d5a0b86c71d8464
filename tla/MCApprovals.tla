---------------------------- MODULE MCApprovals -----------------------------
(* Instances of Approvals for TLC: a request for everything, and one with a limit.  *)
EXTENDS Approvals, TLC

CONSTANTS all, some

MCLimit == [x \in Subjects |-> IF x = some THEN 1 ELSE 0]

\* Only the request with the limit is brought before a reviewer.
Sought == \A s \in Sessions : sessions[s].subject = all => sessions[s].action = "export"

ApprovalSymmetry == Permutations(Sessions)
=============================================================================
