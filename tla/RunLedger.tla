----------------------------- MODULE RunLedger -----------------------------
(***************************************************************************)
(* What a Scale Run promises about its partitions, without workers,        *)
(* queues, retries or workflow: the ledger is open, and partitions finish  *)
(* one at a time; it is sealed only when all of them completed; only a     *)
(* sealed ledger is published; and nothing finishes in a ledger that is    *)
(* not open.  A run may be closed (failed, canceled) at any time.  A       *)
(* closed run whose partitions all completed may still be sealed: that is  *)
(* how far _check's unconditional write can go.                            *)
(***************************************************************************)
CONSTANT Partitions

VARIABLES phase,  \* "open", "sealed", "published" or "closed"
          done,   \* partitions counted as completed
          lost    \* partitions counted as failed

Init == phase = "open" /\ done = {} /\ lost = {}

Complete(p) ==
    /\ phase = "open" /\ p \notin done \cup lost
    /\ done' = done \cup {p} /\ UNCHANGED <<phase, lost>>

Lose(p) ==
    /\ phase = "open" /\ p \notin done \cup lost
    /\ lost' = lost \cup {p} /\ UNCHANGED <<phase, done>>

Seal ==
    /\ phase \in {"open", "closed"} /\ done = Partitions
    /\ phase' = "sealed" /\ UNCHANGED <<done, lost>>

Publish == phase = "sealed" /\ phase' = "published" /\ UNCHANGED <<done, lost>>

Close == phase' = "closed" /\ UNCHANGED <<done, lost>>

Next == Seal \/ Publish \/ Close \/ \E p \in Partitions : Complete(p) \/ Lose(p)

Spec == Init /\ [][Next]_<<phase, done, lost>>
=============================================================================
