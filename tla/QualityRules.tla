---------------------------- MODULE QualityRules ----------------------------
(* The data-quality rule engine of the structured intake
   (src/functions/quality_gate/rules.py) over records that intake/normalize.py
   has normalized. A field is abstracted to what the rules tell apart: whether
   it is absent ("missing"), present but of a type that cannot be coerced
   ("invalid_type"; the normalized value is then null too), coerced but outside
   its bounds, or "valid". A grant number is itself when it is valid. *)
EXTENDS Integers, Sequences, FiniteSets

CONSTANTS
  GrantNos,          \* the grant numbers that occur in the drops
  PassThreshold      \* QUALITY_PASS_THRESHOLD, in hundredths of a per cent

ASSUME ThresholdAssumption == PassThreshold \in 0 .. 10000

RuleNames ==
  {"not_null_required_fields", "valid_fiscal_year_range",
   "amount_usd_within_bounds", "org_unit_recognized", "grant_no_unique"}

\* What normalize_record can make of a source record. "title" stands for every
\* required text column that only the first rule looks at.
Record ==
  [grant_no    : GrantNos \union {"missing", "invalid_type"},
   title       : {"valid", "missing", "invalid_type"},
   fiscal_year : {"valid", "missing", "invalid_type", "outside_window"},
   amount_usd  : {"valid", "missing", "invalid_type", "not_positive", "above_cap"},
   org_unit    : {"valid", "missing", "invalid_type", "unknown"}]

RequiredFields == {"grant_no", "title", "fiscal_year", "amount_usd", "org_unit"}

\* A column that normalization left null, whatever the reason.
IsNull(record, field) == record[field] \in {"missing", "invalid_type"}

\* The rows of a batch are a function of numbers in whose order they are read: the places
\* of the records in a file, or the ids of the rows of the table. The first row of a batch
\* that bears a grant number not curated elsewhere claims it, whether or not that row
\* passes the other rules.
Duplicates(rows, i, existing) ==
  /\ rows[i].grant_no \in GrantNos
  /\ \/ rows[i].grant_no \in existing
     \/ \E j \in DOMAIN rows : j < i /\ rows[j].grant_no = rows[i].grant_no

Violates(rule, rows, i, existing) ==
  LET record == rows[i] IN
  \/ /\ rule = "not_null_required_fields"
     /\ \E field \in RequiredFields : record[field] = "missing"
  \/ /\ rule = "valid_fiscal_year_range"
     /\ record.fiscal_year \in {"invalid_type", "outside_window"}
  \/ /\ rule = "amount_usd_within_bounds"
     /\ record.amount_usd \in {"invalid_type", "not_positive", "above_cap"}
  \/ /\ rule = "org_unit_recognized"
     /\ record.org_unit = "unknown"
  \/ /\ rule = "grant_no_unique"
     /\ Duplicates(rows, i, existing)

\* BatchQualityResult.rows: a row passes when it violates no rule.
PassingRows(rows, existing) ==
  {i \in DOMAIN rows : \A rule \in RuleNames : ~Violates(rule, rows, i, existing)}

\* round(100 * passed / (passed + failed), 2), in hundredths of a per cent; a
\* tie rounds up here, and no threshold lies on one.
ScoreOf(passed, failed) ==
  LET total == passed + failed IN
  IF total = 0 THEN 10000 ELSE (20000 * passed + total) \div (2 * total)

GatePasses(rows, existing) ==
  LET passed == Cardinality(PassingRows(rows, existing)) IN
  ScoreOf(passed, Cardinality(DOMAIN rows) - passed) >= PassThreshold
=============================================================================
