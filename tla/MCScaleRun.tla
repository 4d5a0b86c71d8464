---------------------------- MODULE MCScaleRun ----------------------------
(* Instances of ScaleRun for TLC, over the plan that ScaleWorkload makes.  *)
(* The first dataset gets no record, the second also what the division     *)
(* loses: two partitions, the last one short and with a refused record.    *)
EXTENDS ScaleRun, ScaleWorkload, TLC

MCDatasets == <<"grants", "finance">>
MCRatios   == [d \in Names |-> IF d = "grants" THEN 10 ELSE 90]
MCRefused  == {<<"finance", 2>>}

MCPartitions == PartitionSpecs
MCRows == [p \in Partitions |-> Receipt(p).generated]
MCBad  == [p \in Partitions |-> Receipt(p).invalid]

WorkerSymmetry == Permutations(Workers)

\* Records of each dataset, drawn at the edges of the ranges of its slots, and each of
\* their defects.
Records == INSTANCE ScaleRecords
Drawn(n) == [slot \in Records!Slots |-> n]
Edges    == {0, 7, 364, 729, 1095, 24750000}

ASSUME RecordsAssumption ==
    \A d \in DOMAIN Records!Schema, n, m \in Edges :
        LET record == Records!Generate(d, n, Drawn(n), Drawn(m)) IN
        /\ Records!Issues(d, record) = {}
        /\ \A kind \in Records!DefectKinds :
               Records!Issues(d, Records!Damage(d, record, kind)) # {}

\* A run that completed every partition of the plan has generated every record of its
\* profile (_dispatch, dataset_counts).
ASSUME PlanAssumption == MapThenSumSet(LAMBDA p : Rows[p], Partitions) = TotalRecords
=============================================================================
