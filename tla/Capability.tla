----------------------------- MODULE Capability -----------------------------
(***************************************************************************)
(* What an approval promises: it is asked for by one person for one query, *)
(* decided once, by somebody else, and a granted one lets one export of    *)
(* that query out, once.                                                   *)
(***************************************************************************)
CONSTANTS Ids, Actors, Subjects, NoActor, NoSubject

VARIABLES
    grants, \* status, subject, asker and granter of each approval
    uses    \* the exports let out under an approval

Init ==
    /\ grants = [i \in Ids |-> [status |-> "none", subject |-> NoSubject,
                                asker |-> NoActor, granter |-> NoActor]]
    /\ uses = {}

Ask(i, a, s) ==
    /\ grants[i].status = "none"
    /\ grants' = [grants EXCEPT ![i] = [status |-> "asked", subject |-> s,
                                        asker |-> a, granter |-> NoActor]]
    /\ UNCHANGED uses

Decide(i, a, status) ==
    /\ grants[i].status = "asked"
    /\ grants[i].asker # a
    /\ grants' = [grants EXCEPT ![i] = [status |-> status, subject |-> @.subject,
                                        asker |-> @.asker, granter |-> a]]
    /\ UNCHANGED uses

Use(i) ==
    /\ grants[i].status = "granted"
    /\ grants' = [grants EXCEPT ![i] = [@ EXCEPT !.status = "used"]]
    /\ uses' = uses \cup {[grant |-> i, subject |-> grants[i].subject]}

Next ==
    \E i \in Ids :
        \/ \E a \in Actors, s \in Subjects : Ask(i, a, s)
        \/ \E a \in Actors, status \in {"granted", "refused"} : Decide(i, a, status)
        \/ Use(i)

Spec == Init /\ [][Next]_<<grants, uses>>
=============================================================================
