----------------------------- MODULE ExportJob -----------------------------
(***************************************************************************)
(* What an Export Job of a Scale Run promises, without queue, leases,      *)
(* retries or cancellation writes: a requested export is released once,    *)
(* with contents that do not change until it lapses, and only while its    *)
(* run is exportable; it is withdrawn only when its run is not.  What has  *)
(* lapsed can be requested again.                                          *)
(***************************************************************************)
CONSTANTS Exports, Contents, None

VARIABLES open,      \* whether the run can be exported
          job,       \* "none", "pending", "ready" or "cancelled"
          contents   \* what a ready export was released with, None before

Init == /\ open = TRUE
        /\ job = [e \in Exports |-> "none"] /\ contents = [e \in Exports |-> None]

Ask(e) ==
    /\ job[e] = "none" /\ job' = [job EXCEPT ![e] = "pending"]
    /\ UNCHANGED <<open, contents>>

Release(e) ==
    /\ open /\ job[e] = "pending" /\ job' = [job EXCEPT ![e] = "ready"]
    /\ \E c \in Contents : contents' = [contents EXCEPT ![e] = c]
    /\ UNCHANGED open

Withdraw(e) ==
    /\ ~open /\ job[e] = "pending" /\ job' = [job EXCEPT ![e] = "cancelled"]
    /\ UNCHANGED <<open, contents>>

Lapse(e) ==
    /\ job[e] # "none" /\ job' = [job EXCEPT ![e] = "none"]
    /\ contents' = [contents EXCEPT ![e] = None]
    /\ UNCHANGED open

Close == open /\ open' = FALSE /\ UNCHANGED <<job, contents>>

Next == Close \/ \E e \in Exports : Ask(e) \/ Release(e) \/ Withdraw(e) \/ Lapse(e)

Spec == Init /\ [][Next]_<<open, job, contents>>
=============================================================================
