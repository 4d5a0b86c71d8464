----------------------------- MODULE MCCollector -----------------------------
(* An instance of Collector for TLC: every connector, and every format with  *)
(* a connector of each family.                                              *)
EXTENDS Collector

MCJobs ==
    [connector : Connectors, format : {"jsonl"}]
        \cup [connector : {"openalex", "usaspending", "sbir"}, format : {"gzip", "parquet"}]

\* Entries at fault are passed over in the middle; what is refused is old, or there would be
\* nothing to collect, or new (PubMed: an identifier published without its article).
MCMalformed == [s \in Connectors |-> CASE s = "pubmed" -> {8} [] s \in Files -> {} [] OTHER -> {2}]
MCOutside   == [s \in Connectors |-> IF s = "sam_gov" THEN {1} ELSE {3, 4}]
MCUndated   == [s \in Connectors |-> IF s = "sam_gov" THEN {} ELSE {3}]
MCForeign   == [s \in Connectors |-> CASE s = "federal_register" -> {1}
                                       [] s \in {"sbir", "onr_website"} -> {4}
                                       [] s = "uspto_patents" -> {2}
                                       [] OTHER -> {}]
MCNameless  == [s \in Connectors |-> IF s = "pubmed" THEN {1} ELSE {5}]
=============================================================================
