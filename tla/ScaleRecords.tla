---------------------------- MODULE ScaleRecords ----------------------------
(***************************************************************************)
(* The records of a Scale Run (common/.../scale_workload.py): how a record *)
(* is drawn from its coordinates, which defect may be injected into it,    *)
(* and what the schema of its dataset finds.  A draw is a function from    *)
(* the names of its slots to the numbers that _counter_u64 returns for     *)
(* them.  A day is counted from the first one of fiscal year 2019.  The    *)
(* texts, the identifiers and the references that no rule tells apart are  *)
(* left out.                                                               *)
(***************************************************************************)
LOCAL INSTANCE Integers
LOCAL INSTANCE Sequences

IntValue(n)  == [type |-> "int", is |-> n]
TextValue(s) == [type |-> "text", is |-> s]
DayValue(n)  == [type |-> "day", is |-> n]

\* date(year - 1, 10, 1), from 2019 to 2028; the leap days are those of 2020 and 2024.
FiscalStart(year) ==
    365 * (year - 2019) + (IF year > 2020 THEN 1 ELSE 0) + (IF year > 2024 THEN 1 ELSE 0)

\* 2026-08-11 and 2024-01-01
ReferenceDate == 2871
LicenseDate   == 1918

FiscalYear(day) ==
    CHOOSE year \in 2019 .. 2027 : FiscalStart(year) <= day /\ day < FiscalStart(year + 1)

Earlier(a, b) == IF a < b THEN a ELSE b
Later(a, b)   == IF a < b THEN b ELSE a

\* The slots of _counter_u64 that tell the records apart.
Slots ==
    {"fiscal_year", "start_day", "duration", "award", "transaction_day", "transaction_type",
     "amount", "status", "due_day", "completion", "risk_level", "document_type", "size",
     "created", "start", "term", "seats", "annual_cost", "usage_ratio", "event_type",
     "event_time", "defect_selected", "defect_kind"}
Draws == [Slots -> Nat]

\* A drawn number brought below a size, or to a member of a tuple (_choice).
Below(size, n)    == n % size
Choice(values, n) == values[Below(Len(values), n) + 1]

Members(values) == {values[i] : i \in 1 .. Len(values)}

-----------------------------------------------------------------------------
(* The schemas                                                             *)

TransactionTypes == <<"obligation", "expenditure", "commitment", "deobligation">>
Postings         == <<"posted", "pending", "reconciled">>
RiskLevels       == <<"low", "moderate", "high">>
DocumentTypes    == <<"technical_report", "milestone_evidence", "financial_report",
                      "data_management_plan">>
EventTypes       == <<"financial_update", "milestone_update", "document_added", "quality_signal">>

Ints(minimum, maximum) == [type |-> "int", allowed |-> minimum .. maximum]
Amounts       == [type |-> "int", allowed |-> Nat]
Texts(values) == [type |-> "text", allowed |-> values]

\* A pattern admits the well-formed identifiers, a format every day of the calendar.
Identifier == Texts({"well-formed"})
Day        == [type |-> "day", allowed |-> Int]

\* The rules over the fields of a payload tell a complete one from the others.
Payload == [type |-> "payload", allowed |-> {"complete"}]

Schema ==
    [grants |->
        [grant_id |-> Identifier, fiscal_year |-> Ints(2019, 2026),
         start_date |-> Day, end_date |-> Day, award_amount_usd |-> Amounts,
         status |-> Texts({"active", "completed", "planned"})],
     finance |->
        [transaction_id |-> Identifier, transaction_date |-> Day,
         fiscal_year |-> Ints(2019, 2027),
         transaction_type |-> Texts(Members(TransactionTypes)),
         amount_usd |-> Ints(-250000, 2000000), status |-> Texts(Members(Postings))],
     milestones |->
        [milestone_id |-> Identifier, due_date |-> Day,
         status |-> Texts({"complete", "at_risk", "in_progress", "not_started"}),
         completion_percent |-> Ints(0, 100), risk_level |-> Texts(Members(RiskLevels))],
     documents |->
        [document_id |-> Identifier, document_type |-> Texts(Members(DocumentTypes)),
         size_bytes |-> Ints(1, 25000000), created_at |-> Day],
     licenses |->
        [license_id |-> Identifier, start_date |-> Day, renewal_date |-> Day,
         status |-> Texts({"active", "expired"}), seats |-> Ints(1, 500),
         annual_cost_usd |-> Ints(1, 500000),
         usage_ratio_basis_points |-> Ints(0, 10000)],
     stream_events |->
        [event_id |-> Identifier, event_type |-> Texts(Members(EventTypes)),
         event_time |-> Day, sequence |-> Amounts, payload |-> Payload]]

Conforms(value, spec) == value.type = spec.type /\ value.is \in spec.allowed

\* validate_record: the fields with an issue; "value" stands for the code of an enum, a
\* minimum, a maximum, a pattern and a format.
FieldIssues(schema, record) ==
    LET present == DOMAIN schema \cap DOMAIN record IN
    {<<f, "required">> : f \in DOMAIN schema \ DOMAIN record}
    \cup {<<f, "unexpected">> : f \in DOMAIN record \ DOMAIN schema}
    \cup {<<f, IF record[f].type = schema[f].type THEN "value" ELSE "type">> :
             f \in {g \in present : ~Conforms(record[g], schema[g])}}

NoIssueWith(issues, fields) == \A issue \in issues : issue[1] \notin fields

\* The rules over two fields wait for each of them to be without an issue.
Issues(dataset, record) ==
    LET issues == FieldIssues(Schema[dataset], record) IN
    issues \cup
      {issue \in {<<"end_date", "range">>} :
         /\ dataset = "grants" /\ NoIssueWith(issues, {"start_date", "end_date"})
         /\ record["end_date"].is < record["start_date"].is}
      \cup
      {issue \in {<<"renewal_date", "range">>} :
         /\ dataset = "licenses" /\ NoIssueWith(issues, {"start_date", "renewal_date"})
         /\ record["renewal_date"].is <= record["start_date"].is}

-----------------------------------------------------------------------------
(* The records                                                             *)

GrantRecord(draw) ==
    LET year  == 2019 + Below(8, draw["fiscal_year"])
        start == FiscalStart(year) + Below(365, draw["start_day"])
        end   == start + 365 + Below(1096, draw["duration"]) IN
    [grant_id |-> TextValue("well-formed"), fiscal_year |-> IntValue(year),
     start_date |-> DayValue(start), end_date |-> DayValue(end),
     award_amount_usd |-> IntValue(250000 + Below(24750001, draw["award"])),
     status |-> TextValue(IF end < ReferenceDate THEN "completed"
                          ELSE IF start > ReferenceDate THEN "planned" ELSE "active")]

\* Of the grant a record refers to, which _grant_reference draws again, the days count.
FinanceRecord(draw, grant) ==
    LET start == grant.start_date.is
        span  == Later(Earlier(grant.end_date.is, ReferenceDate) - start, 0)
        day   == start + Below(span + 1, draw["transaction_day"])
        type  == Choice(TransactionTypes, draw["transaction_type"])
        amount == 10000 + Below(1990001, draw["amount"]) IN
    [transaction_id |-> TextValue("well-formed"), transaction_date |-> DayValue(day),
     fiscal_year |-> IntValue(FiscalYear(day)), transaction_type |-> TextValue(type),
     amount_usd |-> IntValue(IF type = "deobligation" THEN -Earlier(amount, 250000) ELSE amount),
     status |-> TextValue(Choice(Postings, draw["status"]))]

MilestoneRecord(draw, grant) ==
    LET start == grant.start_date.is
        due   == start + Below(Later(grant.end_date.is - start, 1) + 1, draw["due_day"])
        completion == Below(101, draw["completion"]) IN
    [milestone_id |-> TextValue("well-formed"), due_date |-> DayValue(due),
     status |-> TextValue(IF completion = 100 THEN "complete"
                          ELSE IF due < ReferenceDate /\ completion < 80 THEN "at_risk"
                          ELSE IF completion > 0 THEN "in_progress" ELSE "not_started"),
     completion_percent |-> IntValue(completion),
     risk_level |-> TextValue(Choice(RiskLevels, draw["risk_level"]))]

\* The instant is drawn in seconds, of which the day is kept.
DocumentRecord(draw, grant) ==
    LET start == grant.start_date.is
        upper == Later(86400 * (ReferenceDate - start), 0) IN
    [document_id |-> TextValue("well-formed"),
     document_type |-> TextValue(Choice(DocumentTypes, draw["document_type"])),
     size_bytes |-> IntValue(4096 + Below(24995905, draw["size"])),
     created_at |-> DayValue(start + Below(upper + 1, draw["created"]) \div 86400)]

LicenseRecord(draw) ==
    LET start   == LicenseDate + Below(730, draw["start"])
        renewal == start + 365 * (1 + Below(3, draw["term"])) IN
    [license_id |-> TextValue("well-formed"), start_date |-> DayValue(start),
     renewal_date |-> DayValue(renewal),
     status |-> TextValue(IF renewal >= ReferenceDate THEN "active" ELSE "expired"),
     seats |-> IntValue(5 + Below(496, draw["seats"])),
     annual_cost_usd |-> IntValue(5000 + Below(495001, draw["annual_cost"])),
     usage_ratio_basis_points |-> IntValue(Below(10001, draw["usage_ratio"]))]

StreamEventRecord(draw, index) ==
    [event_id |-> TextValue("well-formed"),
     event_type |-> TextValue(Choice(EventTypes, draw["event_type"])),
     event_time |->
         DayValue((86400 * ReferenceDate - Below(15552000, draw["event_time"])) \div 86400),
     sequence |-> IntValue(index), payload |-> [type |-> "payload", is |-> "complete"]]

\* generate_record
Generate(dataset, index, draw, reference) ==
    LET grant == GrantRecord(reference) IN
    CASE dataset = "grants"        -> GrantRecord(draw)
      [] dataset = "finance"       -> FinanceRecord(draw, grant)
      [] dataset = "milestones"    -> MilestoneRecord(draw, grant)
      [] dataset = "documents"     -> DocumentRecord(draw, grant)
      [] dataset = "licenses"      -> LicenseRecord(draw)
      [] dataset = "stream_events" -> StreamEventRecord(draw, index)

-----------------------------------------------------------------------------
(* The defects                                                             *)

DefectKinds ==
    {"missing_required", "invalid_type", "invalid_enum", "invalid_format", "out_of_range"}

PrimaryId ==
    [grants |-> "grant_id", finance |-> "transaction_id", milestones |-> "milestone_id",
     documents |-> "document_id", licenses |-> "license_id", stream_events |-> "event_id"]
NumericField ==
    [grants |-> "award_amount_usd", finance |-> "fiscal_year",
     milestones |-> "completion_percent", documents |-> "size_bytes", licenses |-> "seats",
     stream_events |-> "sequence"]
EnumField ==
    [grants |-> "status", finance |-> "status", milestones |-> "risk_level",
     documents |-> "document_type", licenses |-> "status", stream_events |-> "event_type"]
OutOfRangeValue ==
    [grants |-> -1, finance |-> 1900, milestones |-> 101, documents |-> 0, licenses |-> 0,
     stream_events |-> -1]

\* inject_defect, of a kind
Damage(dataset, record, kind) ==
    LET id == PrimaryId[dataset]
        number == NumericField[dataset] IN
    CASE kind = "missing_required" -> [f \in DOMAIN record \ {id} |-> record[f]]
      [] kind = "invalid_type"     -> [record EXCEPT ![number] = TextValue("not-an-integer")]
      [] kind = "invalid_enum"     ->
           [record EXCEPT ![EnumField[dataset]] = TextValue("invalid-synthetic-enum")]
      [] kind = "invalid_format"   -> [record EXCEPT ![id] = TextValue("invalid-synthetic-id")]
      [] kind = "out_of_range"     -> [record EXCEPT ![number] = IntValue(OutOfRangeValue[dataset])]

\* inject_defect: a policy damages the records whose draw is below its rate.
Selected(draw, rate) == Below(10000, draw["defect_selected"]) < rate

\* iter_record_results, for one index and a policy of a rate and a sequence of kinds.
Observed(dataset, index, draw, reference, rate, kinds) ==
    LET record == Generate(dataset, index, draw, reference) IN
    IF Selected(draw, rate) THEN Damage(dataset, record, Choice(kinds, draw["defect_kind"]))
    ELSE record
=============================================================================
