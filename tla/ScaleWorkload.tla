--------------------------- MODULE ScaleWorkload ---------------------------
(***************************************************************************)
(* What a Scale Run generates (common/.../scale_workload.py): the records  *)
(* of a profile are shared out over the datasets, each dataset is cut into *)
(* partitions, and a partition is generated record by record into a        *)
(* receipt.  All of it is pure: the control Lambda and every execution of  *)
(* a worker compute the same.                                              *)
(***************************************************************************)
EXTENDS Integers, Sequences, FiniteSets, FiniteSetsExt

CONSTANTS
    Datasets,       \* the datasets, in the order of DATASETS
    Ratios,         \* their percentages
    TotalRecords,   \* total_records of the profile
    PartitionSize,  \* its default_partition_size
    Refused         \* <<dataset, index>> of the records with issues (inject_defect,
                    \* validate_record): a function of seed, dataset and index

Names == {Datasets[i] : i \in 1 .. Len(Datasets)}

Share(d) == (TotalRecords * Ratios[d]) \div 100
Last == Datasets[Len(Datasets)]

\* WorkloadProfile.dataset_counts: what the division loses goes to the last dataset.
Counts ==
    [d \in Names |->
        IF d = Last THEN TotalRecords - MapThenSumSet(Share, Names \ {d}) ELSE Share(d)]

ASSUME ScaleWorkloadAssumption ==
    /\ Datasets \in Seq(STRING) /\ Datasets # <<>>
    /\ Counts \in [Names -> Nat]
    /\ PartitionSize \in Nat \ {0}

Smaller(a, b) == IF a <= b THEN a ELSE b

\* iter_partition_specs: the starts are range(0, count, size), numbered from 0.
PartitionSpecs ==
    UNION {{[dataset |-> d, ordinal |-> k, start |-> k * PartitionSize,
             stop |-> Smaller((k + 1) * PartitionSize, Counts[d])] :
               k \in {n \in 0 .. Counts[d] - 1 : n * PartitionSize < Counts[d]}} : d \in Names}

RecordCount(spec) == spec.stop - spec.start

\* iter_record_results: the range of a spec.
Indices(spec) == spec.start .. spec.stop - 1

\* What PartitionReceiptBuilder counts over that range; the worker quarantines a record
\* for the issues for which the builder calls it invalid.
Receipt(spec) ==
    [generated |-> Cardinality(Indices(spec)),
     invalid   |-> Cardinality({i \in Indices(spec) : <<spec.dataset, i>> \in Refused})]
=============================================================================
