--------------------------- MODULE ScaleRunProofs ---------------------------
(***************************************************************************)
(* Theorems about the plan of a run and the records it generates, for every*)
(* profile, and about ScaleRun, for every plan, worker pool, queue limit   *)
(* and fault budget that ScaleRunAssumption admits.                        *)
(***************************************************************************)
EXTENDS ScaleRun, ScaleWorkload, ScaleRecords, FiniteSetTheorems, TLAPS

-----------------------------------------------------------------------------
(* The plan of a run (ScaleWorkload).                                      *)

\* The starts of two partitions of a dataset are a partition apart.
LEMMA Apart ==
    ASSUME NEW j \in Nat, NEW k \in Nat, NEW n \in Nat, j < k
    PROVE  j * n + n <= k * n
<1>1. PICK m \in Nat : k = j + 1 + m
  <2> WITNESS k - j - 1 \in Nat
  <2> QED OBVIOUS
<1>2. k * n = j * n + n + m * n  BY <1>1
<1>3. m * n \in Nat  OBVIOUS
<1> QED BY <1>2, <1>3

\* The values of a function on a finite set are finitely many.
LEMMA ImageIsFinite ==
    ASSUME NEW S, NEW T, NEW f \in [S -> T], IsFiniteSet(S), \A t \in T : \E s \in S : f[s] = t
    PROVE  IsFiniteSet(T)
<1>1. f \in Surjection(S, T)  BY DEF Surjection
<1> QED BY <1>1, FS_Surjection

\* A spec by its number.
LEMMA SpecOf ==
    ASSUME NEW spec \in PartitionSpecs
    PROVE  /\ spec.dataset \in Names /\ spec.ordinal \in Nat
           /\ Counts[spec.dataset] \in Nat
           /\ spec.start = spec.ordinal * PartitionSize
           /\ spec.start \in Nat /\ spec.start < Counts[spec.dataset]
           /\ spec.stop = Smaller(spec.start + PartitionSize, Counts[spec.dataset])
           /\ spec = [dataset |-> spec.dataset, ordinal |-> spec.ordinal,
                      start |-> spec.start, stop |-> spec.stop]
<1>0. PICK d \in Names : spec \in
        {[dataset |-> d, ordinal |-> k, start |-> k * PartitionSize,
          stop |-> Smaller((k + 1) * PartitionSize, Counts[d])] :
           k \in {n \in 0 .. Counts[d] - 1 : n * PartitionSize < Counts[d]}}
  BY DEF PartitionSpecs
<1>1. PICK k \in {n \in 0 .. Counts[d] - 1 : n * PartitionSize < Counts[d]} :
        spec = [dataset |-> d, ordinal |-> k, start |-> k * PartitionSize,
                stop |-> Smaller((k + 1) * PartitionSize, Counts[d])]
  BY <1>0
<1>2. k \in Nat /\ Counts[d] \in Nat /\ PartitionSize \in Nat
  BY <1>1, ScaleWorkloadAssumption
<1>3. (k + 1) * PartitionSize = k * PartitionSize + PartitionSize /\ k * PartitionSize \in Nat
  BY <1>2
<1> QED BY <1>1, <1>2, <1>3

\* The range of a spec is one that _resolve_range accepts, and it is not empty.
LEMMA RangeIsSound ==
    ASSUME NEW spec \in PartitionSpecs
    PROVE  /\ spec.start \in Nat /\ spec.stop \in Nat
           /\ spec.start < spec.stop
           /\ spec.stop <= Counts[spec.dataset] /\ spec.stop <= spec.start + PartitionSize
BY SpecOf, ScaleWorkloadAssumption DEF Smaller

\* Every record of every dataset is generated by one partition and by one only
\* (iter_partition_specs): no range of the plan leaves a gap or overlaps another.
THEOREM RecordsAreTiled ==
    ASSUME NEW d \in Names, NEW i \in 0 .. Counts[d] - 1
    PROVE  /\ \E spec \in PartitionSpecs : spec.dataset = d /\ i \in Indices(spec)
           /\ \A r, s \in PartitionSpecs :
                /\ r.dataset = d /\ i \in Indices(r)
                /\ s.dataset = d /\ i \in Indices(s)
                => r = s
<1> DEFINE n == PartitionSize
<1>0. Counts[d] \in Nat /\ n \in Nat \ {0} /\ i \in Nat /\ i < Counts[d]
  BY ScaleWorkloadAssumption
<1>1. \E spec \in PartitionSpecs : spec.dataset = d /\ i \in Indices(spec)
  <2> DEFINE k == i \div n
  <2>1. k \in Nat /\ k * n <= i /\ i < k * n + n
    BY <1>0
  <2>2. k \in 0 .. Counts[d] - 1 /\ k * n < Counts[d]
    <3>1. k * n \in Nat  BY <2>1, <1>0
    <3>2. k <= k * n  BY <2>1, <1>0
    <3> HIDE DEF k
    <3> QED BY <2>1, <3>1, <3>2, <1>0
  <2> DEFINE spec == [dataset |-> d, ordinal |-> k, start |-> k * PartitionSize,
                      stop |-> Smaller((k + 1) * PartitionSize, Counts[d])]
  <2>3. spec \in PartitionSpecs
    BY <2>2 DEF PartitionSpecs
  <2>4. (k + 1) * n = k * n + n /\ k * n \in Nat
    BY <2>1, <1>0
  <2>5. i \in Indices(spec)
    <3> HIDE DEF k
    <3> QED BY <2>1, <2>4, <1>0 DEF Indices, Smaller
  <2> QED BY <2>3, <2>5
<1>2. ASSUME NEW r \in PartitionSpecs, NEW s \in PartitionSpecs,
             r.dataset = d, i \in Indices(r), s.dataset = d, i \in Indices(s)
      PROVE  r = s
  <2>1. r.start <= i /\ i < r.start + n /\ s.start <= i /\ i < s.start + n
    BY <1>2, <1>0, RangeIsSound DEF Indices
  <2>2. ~(r.ordinal < s.ordinal)
    BY <2>1, <1>0, <1>2, SpecOf, Apart
  <2>3. ~(s.ordinal < r.ordinal)
    BY <2>1, <1>0, <1>2, SpecOf, Apart
  <2>4. r.ordinal = s.ordinal
    BY <2>2, <2>3, SpecOf
  <2>5. r.start = s.start /\ r.stop = s.stop
    BY <2>4, <1>2, SpecOf
  <2> QED BY <2>4, <2>5, <1>2, SpecOf
<1> QED BY <1>1, <1>2

\* The rows PART#<dataset>#<partition_id>, the messages and the objects of a run are named
\* by dataset and ordinal: no two partitions share a name (_dispatch, _write_partition_files).
THEOREM NamesAreUnique ==
    ASSUME NEW r \in PartitionSpecs, NEW s \in PartitionSpecs,
           r.dataset = s.dataset, r.ordinal = s.ordinal
    PROVE  r = s
<1>1. r.start = s.start /\ r.stop = s.stop
  BY SpecOf
<1> QED BY <1>1, SpecOf

\* A receipt counts what its partition was to generate, and finish() does not raise for it;
\* with this the plan meets the assumptions of ScaleRun on Partitions, Rows and Bad.
THEOREM ReceiptsAreExact ==
    /\ IsFiniteSet(PartitionSpecs)
    /\ \A spec \in PartitionSpecs :
         /\ Receipt(spec).generated = RecordCount(spec)
         /\ Receipt(spec).generated \in Nat /\ Receipt(spec).invalid \in Nat
         /\ Receipt(spec).invalid <= Receipt(spec).generated
<1>1. ASSUME NEW spec \in PartitionSpecs
      PROVE  /\ Receipt(spec).generated = RecordCount(spec)
             /\ Receipt(spec).generated \in Nat /\ Receipt(spec).invalid \in Nat
             /\ Receipt(spec).invalid <= Receipt(spec).generated
  <2> DEFINE bad == {i \in Indices(spec) : <<spec.dataset, i>> \in Refused}
  <2>1. spec.start \in Nat /\ spec.stop \in Nat /\ spec.start < spec.stop
    BY RangeIsSound
  <2>2. /\ IsFiniteSet(Indices(spec))
        /\ Cardinality(Indices(spec)) = RecordCount(spec)
        /\ RecordCount(spec) \in Nat
    <3>1. spec.start \in Int /\ spec.stop - 1 \in Int  BY <2>1
    <3>2. /\ IsFiniteSet(spec.start .. spec.stop - 1)
          /\ Cardinality(spec.start .. spec.stop - 1)
               = IF spec.start > spec.stop - 1 THEN 0 ELSE (spec.stop - 1) - spec.start + 1
      BY <3>1, FS_Interval
    <3> QED BY <2>1, <3>2 DEF Indices, RecordCount
  <2>3. IsFiniteSet(bad) /\ Cardinality(bad) <= Cardinality(Indices(spec))
    BY <2>2, FS_Subset
  <2>4. Cardinality(bad) \in Nat
    BY <2>3, FS_CardinalityType
  <2>5. Receipt(spec) = [generated |-> Cardinality(Indices(spec)), invalid |-> Cardinality(bad)]
    BY DEF Receipt
  <2> HIDE DEF bad
  <2> QED BY <2>2, <2>3, <2>4, <2>5
<1>2. IsFiniteSet(PartitionSpecs)
  <2> DEFINE Ks(d) == {n \in 0 .. Counts[d] - 1 : n * PartitionSize < Counts[d]}
             Of(d) == {[dataset |-> d, ordinal |-> k, start |-> k * PartitionSize,
                        stop |-> Smaller((k + 1) * PartitionSize, Counts[d])] : k \in Ks(d)}
  <2>1. IsFiniteSet(Names)
    <3>1. Len(Datasets) \in Nat  BY ScaleWorkloadAssumption
    <3>2. IsFiniteSet(1 .. Len(Datasets))  BY <3>1, FS_Interval
    <3> DEFINE f == [i \in 1 .. Len(Datasets) |-> Datasets[i]]
    <3>3. f \in [1 .. Len(Datasets) -> Names] /\ \A t \in Names : \E i \in 1 .. Len(Datasets) : f[i] = t
      BY DEF Names
    <3> HIDE DEF f
    <3> QED BY <3>2, <3>3, ImageIsFinite
  <2>2. ASSUME NEW d \in Names PROVE IsFiniteSet(Of(d))
    <3>1. IsFiniteSet(0 .. Counts[d] - 1)  BY ScaleWorkloadAssumption, FS_Interval
    <3>2. IsFiniteSet(Ks(d))  BY <3>1, FS_Subset
    <3> DEFINE f == [k \in Ks(d) |-> [dataset |-> d, ordinal |-> k, start |-> k * PartitionSize,
                                      stop |-> Smaller((k + 1) * PartitionSize, Counts[d])]]
    <3> HIDE DEF Ks
    <3>3. f \in [Ks(d) -> Of(d)] /\ \A t \in Of(d) : \E k \in Ks(d) : f[k] = t
      OBVIOUS
    <3> HIDE DEF f, Of
    <3> QED BY <3>2, <3>3, ImageIsFinite
  <2> DEFINE g == [d \in Names |-> Of(d)]
             Ofs == {Of(d) : d \in Names}
  <2> HIDE DEF Of
  <2>3. g \in [Names -> Ofs] /\ \A t \in Ofs : \E d \in Names : g[d] = t
    OBVIOUS
  <2>4. IsFiniteSet(Ofs)
    <3> HIDE DEF g, Ofs
    <3> QED BY <2>1, <2>3, ImageIsFinite
  <2>5. IsFiniteSet(UNION Ofs)  BY <2>2, <2>4, FS_UNION
  <2> QED BY <2>5 DEF Of, PartitionSpecs
<1> QED BY <1>1, <1>2

-----------------------------------------------------------------------------
(* The records of a run (ScaleRecords).                                    *)

LEMMA DrawIsNat ==
    ASSUME NEW draw \in Draws, NEW slot \in Slots
    PROVE  draw[slot] \in Nat
BY SMT DEF Draws

IsWithin(low, x, high) == x \in Int /\ low <= x /\ x <= high

\* The schemas admit what is drawn up to its least and its greatest number.
LEMMA BoundsOfGrants ==
    ASSUME NEW n \in Nat
    PROVE  /\ IsWithin(0, Below(8, n), 7) /\ IsWithin(0, Below(365, n), 364)
           /\ Below(1096, n) \in Nat /\ 250000 + Below(24750001, n) \in Nat
BY SMT DEF Below, IsWithin

LEMMA BoundsOfAmounts ==
    ASSUME NEW n \in Nat
    PROVE  IsWithin(10000, 10000 + Below(1990001, n), 2000000)
BY SMT DEF Below, IsWithin

LEMMA BoundsOfSizes ==
    ASSUME NEW n \in Nat
    PROVE  /\ IsWithin(0, Below(101, n), 100)
           /\ IsWithin(1, 4096 + Below(24995905, n), 25000000)
BY SMT DEF Below, IsWithin

LEMMA BoundsOfLicenses ==
    ASSUME NEW n \in Nat
    PROVE  /\ IsWithin(1, 5 + Below(496, n), 500)
           /\ IsWithin(1, 5000 + Below(495001, n), 500000)
           /\ IsWithin(0, Below(10001, n), 10000)
           /\ Below(730, n) \in Nat /\ Below(3, n) \in Nat
BY SMT DEF Below, IsWithin

LEMMA InstantIsOfADay ==
    ASSUME NEW n \in Nat, NEW upper \in Nat
    PROVE  Below(upper + 1, n) \div 86400 \in Int
<1>1. Below(upper + 1, n) \in Nat
  BY SMT DEF Below
<1> QED BY <1>1, SMT

LEMMA ChosenFrom ==
    ASSUME NEW n \in Nat, NEW values, Len(values) \in Nat \ {0}
    PROVE  Choice(values, n) \in Members(values)
<1>1. Below(Len(values), n) \in 0 .. Len(values) - 1
  BY SMT DEF Below
<1>2. Below(Len(values), n) + 1 \in 1 .. Len(values)
  BY <1>1, SMT
<1> QED BY <1>2 DEF Choice, Members

LEMMA Chosen ==
    ASSUME NEW n \in Nat
    PROVE  /\ Choice(TransactionTypes, n) \in Members(TransactionTypes)
           /\ Choice(Postings, n) \in Members(Postings)
           /\ Choice(RiskLevels, n) \in Members(RiskLevels)
           /\ Choice(DocumentTypes, n) \in Members(DocumentTypes)
           /\ Choice(EventTypes, n) \in Members(EventTypes)
<1>1. Len(TransactionTypes) = 4
  BY DEF TransactionTypes
<1>2. Len(Postings) = 3
  BY DEF Postings
<1>3. Len(RiskLevels) = 3
  BY DEF RiskLevels
<1>4. Len(DocumentTypes) = 4
  BY DEF DocumentTypes
<1>5. Len(EventTypes) = 4
  BY DEF EventTypes
<1> QED BY <1>1, <1>2, <1>3, <1>4, <1>5, ChosenFrom, SMT

\* The start of a grant lies in its fiscal year, whatever the day that is drawn.
LEMMA FiscalDay ==
    ASSUME NEW y \in Int, NEW s \in Int, IsWithin(0, y, 7), IsWithin(0, s, 364)
    PROVE  IsWithin(0, FiscalStart(2019 + y) + s, 2921)
BY SMT DEF FiscalStart, IsWithin

LEMMA FiscalYearOf ==
    ASSUME NEW day \in Int, IsWithin(0, day, 2921)
    PROVE  IsWithin(2019, FiscalYear(day), 2027)
<1>1. \E year \in 2019 .. 2027 : FiscalStart(year) <= day /\ day < FiscalStart(year + 1)
  <2>1. PICK y \in 0 .. 7 : /\ 365 * y + (IF y > 1 THEN 1 ELSE 0) + (IF y > 5 THEN 1 ELSE 0) <= day
                            /\ day < 365 * y + 365 + (IF y > 0 THEN 1 ELSE 0) + (IF y > 4 THEN 1 ELSE 0)
    BY SMTT(30) DEF IsWithin
  <2> QED BY <2>1, SMT DEF FiscalStart
<1>2. FiscalYear(day) \in 2019 .. 2027
  BY <1>1, SMT DEF FiscalYear
<1> QED BY <1>2, SMT DEF IsWithin

\* The days that the records of the grants start on.
IsStart(day) == IsWithin(0, day, 2921)

\* A transaction falls between the start of its grant and the reference date, or on the start.
Transacted(start, end, n) ==
    start + Below(Later(Earlier(end, ReferenceDate) - start, 0) + 1, n)

LEMMA TransactionDay ==
    \A start, end \in Int, n \in Nat : IsStart(start) => IsStart(Transacted(start, end, n))
<1> SUFFICES ASSUME NEW start \in Int, NEW end \in Int, NEW n \in Nat, IsStart(start)
             PROVE  IsStart(Transacted(start, end, n))
  OBVIOUS
<1>1. PICK span \in Nat : /\ span = Later(Earlier(end, ReferenceDate) - start, 0)
                          /\ start + span <= 2921
  BY SMT DEF Later, Earlier, ReferenceDate, IsWithin, IsStart
<1>2. PICK m \in Nat : m = Below(span + 1, n) /\ m <= span
  BY SMT DEF Below
<1>3. IsStart(start + m)
  BY <1>1, <1>2, SMT DEF IsWithin, IsStart
<1> QED BY <1>1, <1>2, <1>3, SMT DEF Transacted

LEMMA NoFieldIssue ==
    ASSUME NEW schema, NEW record, DOMAIN record = DOMAIN schema,
           \A f \in DOMAIN schema : Conforms(record[f], schema[f])
    PROVE  FieldIssues(schema, record) = {}
BY DEF FieldIssues

LEMMA ConformingText ==
    ASSUME NEW S, NEW x \in S
    PROVE  Conforms(TextValue(x), Texts(S))
BY SMT DEF Conforms, TextValue, Texts

LEMMA ConformingInt ==
    ASSUME NEW x, NEW low \in Int, NEW high \in Int, NEW least \in Int, IsWithin(low, x, high), least <= low
    PROVE  Conforms(IntValue(x), Ints(least, high))
BY SMT DEF Conforms, IntValue, Ints, IsWithin

LEMMA ConformingAmount ==
    ASSUME NEW x \in Nat
    PROVE  Conforms(IntValue(x), Amounts)
BY SMT DEF Conforms, IntValue, Amounts

LEMMA ConformingDay ==
    ASSUME NEW x \in Int
    PROVE  Conforms(DayValue(x), Day)
BY SMT DEF Conforms, DayValue, Day

LEMMA ConformingId == Conforms(TextValue("well-formed"), Identifier)
BY ConformingText, SMT DEF Identifier

IsGrant(g) == /\ IsWithin(0, g.start_date.is, 2921)
              /\ g.end_date.is \in Int
              /\ g.start_date.is + 365 <= g.end_date.is

LEMMA GrantNumbers ==
    ASSUME NEW draw \in Draws
    PROVE  /\ draw["fiscal_year"] \in Nat /\ draw["start_day"] \in Nat
           /\ draw["duration"] \in Nat /\ draw["award"] \in Nat
BY SMT DEF Slots, Draws

LEMMA GrantIsValid ==
    ASSUME NEW draw \in Draws
    PROVE  /\ IsGrant(GrantRecord(draw))
           /\ Issues("grants", GrantRecord(draw)) = {}
<1> DEFINE year  == 2019 + Below(8, draw["fiscal_year"])
           start == FiscalStart(year) + Below(365, draw["start_day"])
           end   == start + 365 + Below(1096, draw["duration"])
           award == 250000 + Below(24750001, draw["award"])
           status == IF end < ReferenceDate THEN "completed"
                     ELSE IF start > ReferenceDate THEN "planned" ELSE "active"
           r == GrantRecord(draw)
           s == Schema["grants"]
<1>1. IsWithin(2019, year, 2026) /\ award \in Nat
  BY GrantNumbers, BoundsOfGrants, SMT DEF IsWithin
<1>2. IsWithin(0, start, 2921)
  BY GrantNumbers, BoundsOfGrants, FiscalDay, SMT DEF IsWithin
<1>3. end \in Int /\ start + 365 <= end
  BY <1>2, GrantNumbers, BoundsOfGrants, SMT DEF IsWithin
<1>4. status \in {"active", "completed", "planned"}
  BY SMT
<1>5. r = [grant_id |-> TextValue("well-formed"), fiscal_year |-> IntValue(year),
           start_date |-> DayValue(start), end_date |-> DayValue(end),
           award_amount_usd |-> IntValue(award), status |-> TextValue(status)]
  BY SMT DEF GrantRecord
<1>6. s = [grant_id |-> Identifier, fiscal_year |-> Ints(2019, 2026),
           start_date |-> Day, end_date |-> Day, award_amount_usd |-> Amounts,
           status |-> Texts({"active", "completed", "planned"})]
  BY SMT DEF Schema
<1> HIDE DEF year, start, end, award, status, r, s
<1>7. /\ Conforms(TextValue("well-formed"), Identifier) /\ Conforms(IntValue(year), Ints(2019, 2026))
      /\ Conforms(DayValue(start), Day) /\ Conforms(DayValue(end), Day)
      /\ Conforms(IntValue(award), Amounts) /\ Conforms(TextValue(status), Texts({"active", "completed", "planned"}))
  <2>1. Conforms(IntValue(year), Ints(2019, 2026))
    BY <1>1, ConformingInt, SMT
  <2>2. start \in Int
    BY <1>2 DEF IsWithin
  <2> QED BY <2>1, <2>2, <1>1, <1>3, <1>4, ConformingId, ConformingDay, ConformingAmount, ConformingText, SMT
<1>8. FieldIssues(s, r) = {}
  <2>1. DOMAIN r = DOMAIN s /\ \A f \in DOMAIN s : Conforms(r[f], s[f])
    BY <1>5, <1>6, <1>7, SMT
  <2> QED BY <2>1, NoFieldIssue, SMT
<1>9. r.start_date.is = start /\ r.end_date.is = end
  BY <1>5, SMT DEF DayValue
<1> QED BY <1>2, <1>3, <1>8, <1>9, SMT DEF IsGrant, Issues, IsWithin, r, s

LEMMA FinanceIsValid ==
    ASSUME NEW draw \in Draws, NEW grant, IsGrant(grant)
    PROVE  Issues("finance", FinanceRecord(draw, grant)) = {}
<1> DEFINE begin == grant.start_date.is
           day   == begin + Below(Later(Earlier(grant.end_date.is, ReferenceDate) - begin, 0) + 1,
                                  draw["transaction_day"])
           type  == Choice(TransactionTypes, draw["transaction_type"])
           drawn == 10000 + Below(1990001, draw["amount"])
           amount == IF type = "deobligation" THEN -Earlier(drawn, 250000) ELSE drawn
           status == Choice(Postings, draw["status"])
           r == FinanceRecord(draw, grant)
           s == Schema["finance"]
<1>0. /\ draw["transaction_day"] \in Nat /\ draw["transaction_type"] \in Nat
      /\ draw["amount"] \in Nat /\ draw["status"] \in Nat
  BY SMT DEF Slots, Draws
<1>1. IsStart(day)
  <2>1. begin \in Int /\ IsStart(begin) /\ grant.end_date.is \in Int
    BY SMT DEF IsGrant, IsWithin, IsStart
  <2>2. day = Transacted(begin, grant.end_date.is, draw["transaction_day"])
    BY SMT DEF Transacted
  <2> HIDE DEF begin, day
  <2> QED BY <1>0, <2>1, <2>2, TransactionDay, Zenon
<1>2. IsWithin(2019, FiscalYear(day), 2027)
  <2>1. IsWithin(0, day, 2921)
    BY <1>1 DEF IsStart
  <2>2. day \in Int
    BY <2>1 DEF IsWithin
  <2> HIDE DEF day
  <2> QED BY <2>1, <2>2, FiscalYearOf, SMT
<1>3. IsWithin(-250000, amount, 2000000)
  <2>1. IsWithin(10000, drawn, 2000000)
    BY <1>0, BoundsOfAmounts, SMT
  <2> HIDE DEF drawn, type
  <2> QED BY <2>1, SMT DEF IsWithin, Earlier
<1>4. type \in Members(TransactionTypes) /\ status \in Members(Postings)
  BY <1>0, Chosen, SMT
<1>5. r = [transaction_id |-> TextValue("well-formed"), transaction_date |-> DayValue(day),
           fiscal_year |-> IntValue(FiscalYear(day)), transaction_type |-> TextValue(type),
           amount_usd |-> IntValue(amount), status |-> TextValue(status)]
  BY SMT DEF FinanceRecord
<1>6. s = [transaction_id |-> Identifier, transaction_date |-> Day,
           fiscal_year |-> Ints(2019, 2027), transaction_type |-> Texts(Members(TransactionTypes)),
           amount_usd |-> Ints(-250000, 2000000), status |-> Texts(Members(Postings))]
  BY SMT DEF Schema
<1> HIDE DEF day, type, amount, status, r, s
<1>7. /\ Conforms(IntValue(FiscalYear(day)), Ints(2019, 2027))
      /\ Conforms(IntValue(amount), Ints(-250000, 2000000))
      /\ Conforms(DayValue(day), Day)
  <2>1. Conforms(IntValue(FiscalYear(day)), Ints(2019, 2027))
    BY <1>2, ConformingInt, SMT
  <2>2. Conforms(IntValue(amount), Ints(-250000, 2000000))
    BY <1>3, ConformingInt, SMT
  <2>3. day \in Int
    BY <1>1, SMT DEF IsStart, IsWithin
  <2> QED BY <2>1, <2>2, <2>3, ConformingDay, SMT
<1>8. /\ Conforms(TextValue(type), Texts(Members(TransactionTypes)))
      /\ Conforms(TextValue(status), Texts(Members(Postings)))
  BY <1>4, ConformingText, SMT
<1>9. DOMAIN r = DOMAIN s /\ \A f \in DOMAIN s : Conforms(r[f], s[f])
  BY <1>5, <1>6, <1>7, <1>8, ConformingId, SMT
<1> QED BY <1>9, NoFieldIssue, SMT DEF Issues, r, s

LEMMA MilestoneIsValid ==
    ASSUME NEW draw \in Draws, NEW grant, IsGrant(grant)
    PROVE  Issues("milestones", MilestoneRecord(draw, grant)) = {}
<1> DEFINE begin == grant.start_date.is
           span  == Later(grant.end_date.is - begin, 1)
           due   == begin + Below(span + 1, draw["due_day"])
           completion == Below(101, draw["completion"])
           status == IF completion = 100 THEN "complete"
                     ELSE IF due < ReferenceDate /\ completion < 80 THEN "at_risk"
                     ELSE IF completion > 0 THEN "in_progress" ELSE "not_started"
           risk  == Choice(RiskLevels, draw["risk_level"])
           r == MilestoneRecord(draw, grant)
           s == Schema["milestones"]
<1>0. draw["due_day"] \in Nat /\ draw["completion"] \in Nat /\ draw["risk_level"] \in Nat
  BY SMT DEF Slots, Draws
<1>1. due \in Int
  <2>1. begin \in Int /\ span \in Nat
    BY SMT DEF IsGrant, IsWithin, Later
  <2> HIDE DEF begin, span
  <2>2. Below(span + 1, draw["due_day"]) \in Nat
    BY <1>0, <2>1, SMT DEF Below
  <2> QED BY <2>1, <2>2, SMT
<1>2. IsWithin(0, completion, 100)
  BY <1>0, BoundsOfSizes, SMT
<1>3. status \in {"complete", "at_risk", "in_progress", "not_started"}
  BY SMT
<1>4. risk \in Members(RiskLevels)
  BY <1>0, Chosen, SMT
<1>5. r = [milestone_id |-> TextValue("well-formed"), due_date |-> DayValue(due),
           status |-> TextValue(status), completion_percent |-> IntValue(completion),
           risk_level |-> TextValue(risk)]
  BY SMT DEF MilestoneRecord
<1>6. s = [milestone_id |-> Identifier, due_date |-> Day,
           status |-> Texts({"complete", "at_risk", "in_progress", "not_started"}),
           completion_percent |-> Ints(0, 100), risk_level |-> Texts(Members(RiskLevels))]
  BY SMT DEF Schema
<1> HIDE DEF due, completion, status, risk, r, s
<1>7. Conforms(IntValue(completion), Ints(0, 100))
  BY <1>2, ConformingInt, SMT
<1>8. /\ Conforms(DayValue(due), Day)
      /\ Conforms(TextValue(status), Texts({"complete", "at_risk", "in_progress", "not_started"}))
      /\ Conforms(TextValue(risk), Texts(Members(RiskLevels)))
  BY <1>1, <1>3, <1>4, ConformingDay, ConformingText, SMT
<1>9. DOMAIN r = DOMAIN s /\ \A f \in DOMAIN s : Conforms(r[f], s[f])
  BY <1>5, <1>6, <1>7, <1>8, ConformingId, SMT
<1> QED BY <1>9, NoFieldIssue, SMT DEF Issues, r, s

LEMMA DocumentIsValid ==
    ASSUME NEW draw \in Draws, NEW grant, IsGrant(grant)
    PROVE  Issues("documents", DocumentRecord(draw, grant)) = {}
<1> DEFINE begin == grant.start_date.is
           upper == Later(86400 * (ReferenceDate - begin), 0)
           day   == begin + Below(upper + 1, draw["created"]) \div 86400
           type  == Choice(DocumentTypes, draw["document_type"])
           size  == 4096 + Below(24995905, draw["size"])
           r == DocumentRecord(draw, grant)
           s == Schema["documents"]
<1>0. draw["created"] \in Nat /\ draw["document_type"] \in Nat /\ draw["size"] \in Nat
  BY SMT DEF Slots, Draws
<1>1. day \in Int
  <2>1. begin \in Int /\ upper \in Nat
    BY SMT DEF IsGrant, IsWithin, Later, ReferenceDate
  <2> HIDE DEF begin, upper
  <2>2. Below(upper + 1, draw["created"]) \div 86400 \in Int
    BY <1>0, <2>1, InstantIsOfADay, SMT
  <2> QED BY <2>1, <2>2, SMT
<1>2. IsWithin(1, size, 25000000)
  BY <1>0, BoundsOfSizes, SMT
<1>3. type \in Members(DocumentTypes)
  BY <1>0, Chosen, SMT
<1>4. r = [document_id |-> TextValue("well-formed"), document_type |-> TextValue(type),
           size_bytes |-> IntValue(size), created_at |-> DayValue(day)]
  BY SMT DEF DocumentRecord
<1>5. s = [document_id |-> Identifier, document_type |-> Texts(Members(DocumentTypes)),
           size_bytes |-> Ints(1, 25000000), created_at |-> Day]
  BY SMT DEF Schema
<1> HIDE DEF day, type, size, r, s
<1>6. Conforms(IntValue(size), Ints(1, 25000000))
  BY <1>2, ConformingInt, SMT
<1>7. /\ Conforms(DayValue(day), Day)
      /\ Conforms(TextValue(type), Texts(Members(DocumentTypes)))
  BY <1>1, <1>3, ConformingDay, ConformingText, SMT
<1>8. DOMAIN r = DOMAIN s /\ \A f \in DOMAIN s : Conforms(r[f], s[f])
  BY <1>4, <1>5, <1>6, <1>7, ConformingId, SMT
<1> QED BY <1>8, NoFieldIssue, SMT DEF Issues, r, s

LEMMA LicenseIsValid ==
    ASSUME NEW draw \in Draws
    PROVE  Issues("licenses", LicenseRecord(draw)) = {}
<1> DEFINE start == LicenseDate + Below(730, draw["start"])
           renewal == start + 365 * (1 + Below(3, draw["term"]))
           status == IF renewal >= ReferenceDate THEN "active" ELSE "expired"
           seats == 5 + Below(496, draw["seats"])
           cost  == 5000 + Below(495001, draw["annual_cost"])
           ratio == Below(10001, draw["usage_ratio"])
           r == LicenseRecord(draw)
           s == Schema["licenses"]
<1>0. /\ draw["start"] \in Nat /\ draw["term"] \in Nat /\ draw["seats"] \in Nat
      /\ draw["annual_cost"] \in Nat /\ draw["usage_ratio"] \in Nat
  BY SMT DEF Slots, Draws
<1>1. start \in Int /\ renewal \in Int /\ start < renewal
  BY <1>0, BoundsOfLicenses, SMT DEF LicenseDate
<1>2. IsWithin(1, seats, 500) /\ IsWithin(1, cost, 500000) /\ IsWithin(0, ratio, 10000)
  BY <1>0, BoundsOfLicenses, SMT
<1>3. status \in {"active", "expired"}
  BY SMT
<1>4. r = [license_id |-> TextValue("well-formed"), start_date |-> DayValue(start),
           renewal_date |-> DayValue(renewal), status |-> TextValue(status),
           seats |-> IntValue(seats), annual_cost_usd |-> IntValue(cost),
           usage_ratio_basis_points |-> IntValue(ratio)]
  BY SMT DEF LicenseRecord
<1>5. s = [license_id |-> Identifier, start_date |-> Day, renewal_date |-> Day,
           status |-> Texts({"active", "expired"}), seats |-> Ints(1, 500),
           annual_cost_usd |-> Ints(1, 500000), usage_ratio_basis_points |-> Ints(0, 10000)]
  BY SMT DEF Schema
<1> HIDE DEF start, renewal, status, seats, cost, ratio, r, s
<1>6. /\ Conforms(IntValue(seats), Ints(1, 500)) /\ Conforms(IntValue(cost), Ints(1, 500000))
      /\ Conforms(IntValue(ratio), Ints(0, 10000))
  BY <1>2, ConformingInt, SMT
<1>7. /\ Conforms(DayValue(start), Day) /\ Conforms(DayValue(renewal), Day)
      /\ Conforms(TextValue(status), Texts({"active", "expired"}))
  BY <1>1, <1>3, ConformingDay, ConformingText, SMT
<1>8. FieldIssues(s, r) = {}
  <2>1. DOMAIN r = DOMAIN s /\ \A f \in DOMAIN s : Conforms(r[f], s[f])
    BY <1>4, <1>5, <1>6, <1>7, ConformingId, SMT
  <2> QED BY <2>1, NoFieldIssue, SMT
<1>9. r.start_date.is = start /\ r.renewal_date.is = renewal
  BY <1>4, SMT DEF DayValue
<1> QED BY <1>1, <1>8, <1>9, SMT DEF Issues, r, s

LEMMA StreamEventIsValid ==
    ASSUME NEW draw \in Draws, NEW index \in Nat
    PROVE  Issues("stream_events", StreamEventRecord(draw, index)) = {}
<1> DEFINE day  == (86400 * ReferenceDate - Below(15552000, draw["event_time"])) \div 86400
           type == Choice(EventTypes, draw["event_type"])
           r == StreamEventRecord(draw, index)
           s == Schema["stream_events"]
<1>0. draw["event_time"] \in Nat /\ draw["event_type"] \in Nat
  BY SMT DEF Slots, Draws
<1>1. day \in Int
  <2>1. Below(15552000, draw["event_time"]) \in Nat
    BY <1>0, SMT DEF Below
  <2> QED BY <2>1, SMT DEF ReferenceDate
<1>2. type \in Members(EventTypes)
  BY <1>0, Chosen, SMT
<1>3. r = [event_id |-> TextValue("well-formed"), event_type |-> TextValue(type),
           event_time |-> DayValue(day), sequence |-> IntValue(index),
           payload |-> [type |-> "payload", is |-> "complete"]]
  BY SMT DEF StreamEventRecord
<1>4. s = [event_id |-> Identifier, event_type |-> Texts(Members(EventTypes)),
           event_time |-> Day, sequence |-> Amounts, payload |-> Payload]
  BY SMT DEF Schema
<1> HIDE DEF day, type, r, s
<1>5. /\ Conforms(DayValue(day), Day) /\ Conforms(IntValue(index), Amounts)
      /\ Conforms(TextValue(type), Texts(Members(EventTypes)))
      /\ Conforms([type |-> "payload", is |-> "complete"], Payload)
  <2>1. Conforms([type |-> "payload", is |-> "complete"], Payload)
    BY SMT DEF Conforms, Payload
  <2> QED BY <1>1, <1>2, <2>1, ConformingDay, ConformingAmount, ConformingText, SMT
<1>6. DOMAIN r = DOMAIN s /\ \A f \in DOMAIN s : Conforms(r[f], s[f])
  BY <1>3, <1>4, <1>5, ConformingId, SMT
<1> QED BY <1>6, NoFieldIssue, SMT DEF Issues, r, s

\* generate_record draws no record in which validate_record finds an issue, whatever the slots
\* and the coordinates are.
THEOREM GeneratedIsValid ==
    ASSUME NEW dataset \in DOMAIN Schema, NEW index \in Nat,
           NEW draw \in Draws, NEW reference \in Draws
    PROVE  Issues(dataset, Generate(dataset, index, draw, reference)) = {}
<1> DEFINE grant == GrantRecord(reference)
<1>1. IsGrant(grant)
  BY GrantIsValid, SMT
<1>2. /\ Generate("grants", index, draw, reference) = GrantRecord(draw)
      /\ Generate("finance", index, draw, reference) = FinanceRecord(draw, grant)
      /\ Generate("milestones", index, draw, reference) = MilestoneRecord(draw, grant)
      /\ Generate("documents", index, draw, reference) = DocumentRecord(draw, grant)
      /\ Generate("licenses", index, draw, reference) = LicenseRecord(draw)
      /\ Generate("stream_events", index, draw, reference) = StreamEventRecord(draw, index)
  BY SMT DEF Generate
<1> HIDE DEF grant
<1>3. dataset \in {"grants", "finance", "milestones", "documents", "licenses", "stream_events"}
  BY SMT DEF Schema
<1>4. CASE dataset \in {"grants", "finance", "milestones"}
  BY <1>1, <1>2, <1>4, GrantIsValid, FinanceIsValid, MilestoneIsValid, SMT
<1>5. CASE dataset \in {"documents", "licenses", "stream_events"}
  BY <1>1, <1>2, <1>5, DocumentIsValid, LicenseIsValid, StreamEventIsValid, SMT
<1> QED BY <1>3, <1>4, <1>5, SMT

LEMMA FaultIsAnIssue ==
    ASSUME NEW schema, NEW record, NEW f \in DOMAIN schema,
           f \in DOMAIN record => ~Conforms(record[f], schema[f])
    PROVE  FieldIssues(schema, record) # {}
<1>1. CASE f \notin DOMAIN record
  <2>1. <<f, "required">> \in FieldIssues(schema, record)
    BY <1>1 DEF FieldIssues
  <2> QED BY <2>1
<1>2. CASE f \in DOMAIN record
  <2>1. <<f, IF record[f].type = schema[f].type THEN "value" ELSE "type">>
           \in FieldIssues(schema, record)
    BY <1>2 DEF FieldIssues
  <2> QED BY <2>1
<1> QED BY <1>1, <1>2

LEMMA WithoutIssueSameFields ==
    ASSUME NEW schema, NEW record, FieldIssues(schema, record) = {}
    PROVE  DOMAIN record = DOMAIN schema
<1>1. ASSUME NEW f \in DOMAIN record \ DOMAIN schema PROVE FALSE
  <2>1. <<f, "unexpected">> \in FieldIssues(schema, record)
    BY <1>1 DEF FieldIssues
  <2> QED BY <2>1
<1>2. ASSUME NEW f \in DOMAIN schema \ DOMAIN record PROVE FALSE
  <2>1. <<f, "required">> \in FieldIssues(schema, record)
    BY <1>2 DEF FieldIssues
  <2> QED BY <2>1
<1> QED BY <1>1, <1>2

LEMMA OutOfRange ==
    ASSUME NEW low \in Int, NEW high \in Int, NEW x \in Int, x < low \/ high < x
    PROVE  Ints(low, high).type = "int" /\ ~Conforms(IntValue(x), Ints(low, high))
BY SMT DEF Conforms, IntValue, Ints

\* The fields that a defect is put in, and what their schema says of them.
LEMMA DefectFields ==
    ASSUME NEW dataset \in DOMAIN Schema
    PROVE  /\ PrimaryId[dataset] \in DOMAIN Schema[dataset]
           /\ Schema[dataset][PrimaryId[dataset]] = Identifier
           /\ EnumField[dataset] \in DOMAIN Schema[dataset]
           /\ ~Conforms(TextValue("invalid-synthetic-enum"), Schema[dataset][EnumField[dataset]])
           /\ NumericField[dataset] \in DOMAIN Schema[dataset]
           /\ Schema[dataset][NumericField[dataset]].type = "int"
           /\ ~Conforms(IntValue(OutOfRangeValue[dataset]), Schema[dataset][NumericField[dataset]])
<1> DEFINE s == Schema[dataset]
<1>1. dataset \in {"grants", "finance", "milestones", "documents", "licenses", "stream_events"}
  BY SMT DEF Schema
<1>2. PrimaryId[dataset] \in DOMAIN s /\ s[PrimaryId[dataset]] = Identifier
  BY <1>1, SMT DEF Schema, PrimaryId
<1>3. EnumField[dataset] \in DOMAIN s /\ NumericField[dataset] \in DOMAIN s
  BY <1>1, SMT DEF Schema, EnumField, NumericField
<1> DEFINE v == OutOfRangeValue[dataset]
           ranged == s[NumericField[dataset]]
<1>0. \/ ranged = Amounts /\ v = -1
      \/ ranged = Ints(2019, 2027) /\ v = 1900
      \/ ranged = Ints(0, 100) /\ v = 101
      \/ ranged = Ints(1, 25000000) /\ v = 0
      \/ ranged = Ints(1, 500) /\ v = 0
  BY <1>1, SMT DEF Schema, NumericField, OutOfRangeValue
<1> HIDE DEF v, ranged
<1>4. v \in Int /\ ranged.type = "int" /\ ~Conforms(IntValue(v), ranged)
  <2>1. CASE ranged = Amounts /\ v = -1
    BY <2>1, SMT DEF Amounts, Conforms, IntValue
  <2>2. CASE \E low, high \in Int : /\ ranged = Ints(low, high) /\ v \in Int
                                    /\ (v < low \/ high < v)
    BY <2>2, OutOfRange, SMT
  <2> QED BY <1>0, <2>1, <2>2, SMT
<1>5. "invalid-synthetic-enum" \notin s[EnumField[dataset]].allowed
  <2>1. /\ "invalid-synthetic-enum" \notin Members(Postings)
        /\ "invalid-synthetic-enum" \notin Members(RiskLevels)
        /\ "invalid-synthetic-enum" \notin Members(DocumentTypes)
        /\ "invalid-synthetic-enum" \notin Members(EventTypes)
    <3>1. "invalid-synthetic-enum" \notin Members(Postings)
      BY SMT DEF Members, Postings
    <3>2. "invalid-synthetic-enum" \notin Members(RiskLevels)
      BY SMT DEF Members, RiskLevels
    <3>3. "invalid-synthetic-enum" \notin Members(DocumentTypes)
      BY SMT DEF Members, DocumentTypes
    <3>4. "invalid-synthetic-enum" \notin Members(EventTypes)
      BY SMT DEF Members, EventTypes
    <3> QED BY <3>1, <3>2, <3>3, <3>4
  <2> QED BY <1>1, <2>1, SMT DEF Schema, EnumField, Texts
<1>6. ~Conforms(TextValue("invalid-synthetic-enum"), s[EnumField[dataset]])
  <2> HIDE DEF s
  <2> QED BY <1>5, SMT DEF Conforms, TextValue
<1> QED BY <1>2, <1>3, <1>4, <1>6 DEF s, v, ranged

\* validate_record finds each defect that inject_defect puts into a record of the dataset's
\* fields: the expected number of rejected records counts no defect that passes.
THEOREM DefectIsFound ==
    ASSUME NEW dataset \in DOMAIN Schema, NEW record, NEW kind \in DefectKinds,
           DOMAIN record = DOMAIN Schema[dataset]
    PROVE  Issues(dataset, Damage(dataset, record, kind)) # {}
<1> DEFINE s == Schema[dataset]
           d == Damage(dataset, record, kind)
           id == PrimaryId[dataset]
           number == NumericField[dataset]
           enum == EnumField[dataset]
<1>1. FieldIssues(s, d) # {}
  <2>1. CASE kind = "missing_required"
    <3>1. d = [f \in DOMAIN record \ {id} |-> record[f]]
      BY <2>1, SMT DEF Damage
    <3>2. id \in DOMAIN s /\ id \notin DOMAIN d
      BY <3>1, DefectFields
    <3> HIDE DEF s, d, id
    <3> QED BY <3>2, FaultIsAnIssue
  <2>2. CASE kind = "invalid_type"
    <3>1. d = [record EXCEPT ![number] = TextValue("not-an-integer")]
      BY <2>2, SMT DEF Damage
    <3>2. number \in DOMAIN s /\ s[number].type = "int"
      BY DefectFields
    <3>3. d[number] = TextValue("not-an-integer")
      BY <3>1, <3>2
    <3> HIDE DEF s, d, number
    <3>4. ~Conforms(d[number], s[number])
      BY <3>2, <3>3, SMT DEF Conforms, TextValue
    <3> QED BY <3>2, <3>4, FaultIsAnIssue
  <2>3. CASE kind = "invalid_enum"
    <3>1. d = [record EXCEPT ![enum] = TextValue("invalid-synthetic-enum")]
      BY <2>3, SMT DEF Damage
    <3>2. enum \in DOMAIN s /\ ~Conforms(TextValue("invalid-synthetic-enum"), s[enum])
      BY DefectFields
    <3>3. d[enum] = TextValue("invalid-synthetic-enum")
      BY <3>1, <3>2
    <3> HIDE DEF s, d, enum
    <3> QED BY <3>2, <3>3, FaultIsAnIssue
  <2>4. CASE kind = "invalid_format"
    <3>1. d = [record EXCEPT ![id] = TextValue("invalid-synthetic-id")]
      BY <2>4, SMT DEF Damage
    <3>2. id \in DOMAIN s /\ s[id] = Identifier
      BY DefectFields
    <3>3. d[id] = TextValue("invalid-synthetic-id")
      BY <3>1, <3>2
    <3> HIDE DEF s, d, id
    <3>4. ~Conforms(d[id], s[id])
      BY <3>2, <3>3, SMT DEF Conforms, TextValue, Identifier, Texts
    <3> QED BY <3>2, <3>4, FaultIsAnIssue
  <2>5. CASE kind = "out_of_range"
    <3>1. d = [record EXCEPT ![number] = IntValue(OutOfRangeValue[dataset])]
      BY <2>5, SMT DEF Damage
    <3>2. /\ number \in DOMAIN s
          /\ ~Conforms(IntValue(OutOfRangeValue[dataset]), s[number])
      BY DefectFields
    <3>3. d[number] = IntValue(OutOfRangeValue[dataset])
      BY <3>1, <3>2
    <3> HIDE DEF s, d, number
    <3> QED BY <3>2, <3>3, FaultIsAnIssue
  <2> QED BY <2>1, <2>2, <2>3, <2>4, <2>5 DEF DefectKinds
<1>2. FieldIssues(s, d) \subseteq Issues(dataset, d)
  BY DEF Issues
<1> QED BY <1>1, <1>2

\* iter_record_results finds an issue in a record if and only if the policy's draw selected it
\* for a defect: what a shard rejects is what was injected, and its receipt's status is never
\* "fail".
THEOREM IssuesAreInjected ==
    ASSUME NEW dataset \in DOMAIN Schema, NEW index \in Nat,
           NEW draw \in Draws, NEW reference \in Draws, NEW rate \in Nat,
           NEW kinds \in Seq(DefectKinds), kinds # << >>
    PROVE  Issues(dataset, Observed(dataset, index, draw, reference, rate, kinds)) # {}
             <=> Selected(draw, rate)
<1> DEFINE record == Generate(dataset, index, draw, reference)
           kind == Choice(kinds, draw["defect_kind"])
<1>1. Issues(dataset, record) = {}
  BY GeneratedIsValid
<1>2. kind \in DefectKinds
  <2>1. draw["defect_kind"] \in Nat /\ Len(kinds) \in Nat \ {0}
    BY SMT DEF Slots, Draws
  <2>2. kind \in Members(kinds)
    BY <2>1, ChosenFrom
  <2> QED BY <2>2, SMT DEF Members
<1> HIDE DEF record, kind
<1>3. DOMAIN record = DOMAIN Schema[dataset]
  <2>1. FieldIssues(Schema[dataset], record) = {}
    BY <1>1 DEF Issues
  <2> QED BY <2>1, WithoutIssueSameFields
<1>4. Issues(dataset, Damage(dataset, record, kind)) # {}
  BY <1>2, <1>3, DefectIsFound
<1>5. Observed(dataset, index, draw, reference, rate, kinds)
        = IF Selected(draw, rate) THEN Damage(dataset, record, kind) ELSE record
  BY DEF Observed, record, kind
<1> QED BY <1>1, <1>4, <1>5

-----------------------------------------------------------------------------
(* What the helpers of the model return and preserve.                      *)

LEMMA PlanSize == Cardinality(Partitions) \in Nat
BY ScaleRunAssumption, FS_CardinalityType DEF ScaleRunAssumption

LEMMA DlqCountType == ASSUME QueueType PROVE DlqCount \in Nat
<1> DEFINE D == {p \in Partitions : msgs[p] = "dlq"}
<1>1. IsFiniteSet(D)
  BY ScaleRunAssumption, FS_Subset DEF ScaleRunAssumption
<1>2. Cardinality(D) \in Nat
  BY <1>1, FS_CardinalityType
<1>3. QED
  BY <1>2 DEF QueueType, DlqCount

LEMMA IdleType == Idle \in CallRecord
BY DEF Idle, CallRecord, CallPcs

LEMMA OnErrorType == OnError \in Tasks \cup Ends
BY DEF OnError, Tasks, Ends

LEMMA SetStatusType ==
    ASSUME TypeOK, NEW s \in Statuses, SetStatus(s) PROVE (run \in RunRecord)'
BY DEF TypeOK, SetStatus, RunRecord

LEMMA CommitRecord ==
    ASSUME NEW r \in RunRecord, NEW c \in Nat, NEW g \in Nat, NEW v \in Nat, NEW q \in Nat
    PROVE  [r EXCEPT !.completed = c, !.generated = g, !.curated = v, !.quarantined = q]
             \in RunRecord
BY DEF RunRecord

\* What the steps of an invocation do to the control variables.
LEMMA GotoType ==
    ASSUME TypeOK, NEW pc \in CallPcs, Goto(pc), UNCHANGED creator
    PROVE  (call \in CallRecord)' /\ ControlType'
BY DEF TypeOK, Goto, CallRecord, ControlType

LEMMA ReturnType ==
    ASSUME TypeOK, wf \in Tasks, NEW next \in Tasks \cup Ends, Return(next), UNCHANGED creator
    PROVE  (call \in CallRecord)' /\ ControlType' /\ faults' \in Nat
BY IdleType, OnErrorType DEF TypeOK, Return, ControlType, EnvType, Fault

LEMMA RaiseType ==
    ASSUME TypeOK, Raise, UNCHANGED creator
    PROVE  (call \in CallRecord)' /\ ControlType' /\ faults' \in Nat
BY IdleType, OnErrorType DEF TypeOK, Raise, ControlType, EnvType

LEMMA ReleaseType ==
    ASSUME TypeOK, ReleaseLock PROVE lock' \in BOOLEAN /\ faults' \in Nat
<1>1. CASE lock' = FALSE /\ UNCHANGED faults
  BY <1>1 DEF TypeOK, EnvType
<1>2. CASE Fault /\ UNCHANGED lock
  BY <1>2 DEF TypeOK, ObjectsType, EnvType, Fault
<1>3. QED
  BY <1>1, <1>2 DEF ReleaseLock

\* What the steps of a worker do to it and to its message.
MsgsType == msgs \in [Partitions -> {"unsent", "visible", "inflight", "deleted", "dlq"}]

LEMMA AckType ==
    ASSUME TypeOK, NEW w \in Workers, Ack(w), workers[w].pc # "idle"
    PROVE  WorkersType' /\ MsgsType'
BY DEF TypeOK, WorkersType, WorkerRecord, Ack, IdleWorker, QueueType, MsgsType

LEMMA GiveUpType ==
    ASSUME TypeOK, NEW w \in Workers, GiveUp(w) PROVE WorkersType' /\ MsgsType'
BY DEF TypeOK, WorkersType, WorkerRecord, GiveUp, IdleWorker, QueueType, MsgsType

LEMMA AdvanceType ==
    ASSUME TypeOK, NEW w \in Workers, NEW pc \in {"admitted", "running", "written", "failing"},
           Advance(w, pc), workers[w].pc # "idle"
    PROVE  WorkersType' /\ MsgsType'
BY DEF TypeOK, WorkersType, WorkerRecord, Advance, QueueType, MsgsType

LEMMA HandlerErrorType ==
    ASSUME TypeOK, NEW w \in Workers, HandlerError(w), workers[w].pc # "idle"
    PROVE  WorkersType' /\ MsgsType'
BY AdvanceType, GiveUpType DEF HandlerError

LEMMA DeliverType ==
    ASSUME TypeOK, NEW w \in Workers, NEW p \in Partitions, Deliver(w, p)
    PROVE  WorkersType' /\ receives' \in [Partitions -> Nat]
BY DEF TypeOK, WorkersType, WorkerRecord, Deliver, QueueType

-----------------------------------------------------------------------------
(* Type correctness, one lemma per program.                                *)

LEMMA InitType == Init => TypeOK
<1> SUFFICES ASSUME Init PROVE TypeOK
  OBVIOUS
<1>1. run \in RunRecord /\ parts \in [Partitions -> RowRecord]
  BY DEF Init, RunRecord, RowRecord, Statuses, Accepting, NoBaseline
<1>2. WorkersType
  BY DEF Init, WorkersType, WorkerRecord, IdleWorker
<1>3. call \in CallRecord
  BY IdleType DEF Init
<1>4. QueueType
  BY ScaleRunAssumption DEF Init, QueueType, ScaleRunAssumption
<1>5. ObjectsType
  BY DEF Init, ObjectsType
<1>6. ControlType
  BY DEF Init, ControlType
<1>7. EnvType
  BY DEF Init, EnvType
<1>8. QED
  BY <1>1, <1>2, <1>3, <1>4, <1>5, <1>6, <1>7 DEF TypeOK

LEMMA CreatorType == ASSUME TypeOK, CreatorStep \/ StartFails \/ CreatorDies PROVE TypeOK'
<1> USE DEF WorkersType, QueueType, ObjectsType, ControlType, EnvType, ledger, objects, queue
<1>1. CASE StartExecution
  BY <1>1 DEF TypeOK, StartExecution, Tasks
<1>2. CASE RecordStart
  BY <1>2 DEF TypeOK, RecordStart
<1>3. CASE RecordStartFailure
  <2>1. (run \in RunRecord)'
    BY <1>3, SetStatusType DEF RecordStartFailure, Statuses, Terminal
  <2>2. QED
    BY <1>3, <2>1 DEF TypeOK, RecordStartFailure
<1>4. CASE CreatorReleases
  BY <1>4, ReleaseType DEF TypeOK, CreatorReleases
<1>5. CASE StartFails
  BY <1>5 DEF TypeOK, StartFails, Fault
<1>6. CASE CreatorDies
  BY <1>6 DEF TypeOK, CreatorDies, Fault
<1>7. QED
  BY <1>1, <1>2, <1>3, <1>4, <1>5, <1>6 DEF CreatorStep

LEMMA DispatchType == ASSUME TypeOK, DispatchStep PROVE TypeOK'
<1> USE DEF WorkersType, QueueType, ObjectsType, ControlType, EnvType, ledger, objects, queue
<1>t. "CheckPartitions" \in Tasks \cup Ends /\ "DispatchPartitions" \in Tasks
  BY DEF Tasks
<1>p. \A pc \in {"init", "ledger", "mark", "send", "ack", "announce"} : pc \in CallPcs
  BY DEF CallPcs
<1>1. CASE DispatchRead
  <2>1. CASE Return("CheckPartitions")
    BY <1>1, <1>t, <2>1, ReturnType DEF TypeOK, DispatchRead, At
  <2>2. CASE /\ call' = [Idle EXCEPT !.pc = "init", !.dlq = DlqCount] \/ call' = [Idle EXCEPT !.pc = "init"]
             /\ UNCHANGED faults \/ Fault
             /\ UNCHANGED wf
    <3>1. [Idle EXCEPT !.pc = "init", !.dlq = DlqCount] \in CallRecord
      BY DlqCountType DEF Idle, CallRecord, CallPcs, TypeOK
    <3>2. [Idle EXCEPT !.pc = "init"] \in CallRecord
      BY DEF Idle, CallRecord, CallPcs
    <3>3. QED
      BY <1>1, <2>2, <3>1, <3>2 DEF TypeOK, DispatchRead, Fault
  <2>3. QED
    BY <1>1, <2>1, <2>2 DEF DispatchRead
<1>2. CASE DispatchInit
  <2>1. (run \in RunRecord)'
    BY <1>2, PlanSize DEF TypeOK, DispatchInit, RunRecord, CallRecord
  <2>2. (call \in CallRecord)' /\ ControlType' /\ faults' \in Nat
    BY <1>2, <1>t, <1>p, GotoType, ReturnType DEF TypeOK, DispatchInit, At
  <2>3. QED
    BY <1>2, <2>1, <2>2 DEF TypeOK, DispatchInit
<1>3. CASE DispatchLedger
  <2>1. (parts \in [Partitions -> RowRecord])'
    BY <1>3 DEF TypeOK, DispatchLedger, RowRecord
  <2>2. CASE Raise
    BY <1>3, <2>1, <2>2, RaiseType DEF TypeOK, DispatchLedger
  <2>3. CASE ~Raise
    <3>1. PICK P \in SUBSET Partitions, pc \in {"mark", "announce"} :
            call' = [call EXCEPT !.todo = P, !.pc = pc]
      BY <1>3, <2>3 DEF DispatchLedger
    <3>2. (call \in CallRecord)'
      BY <3>1, <1>p DEF TypeOK, CallRecord
    <3>3. QED
      BY <1>3, <2>1, <2>3, <3>2 DEF TypeOK, DispatchLedger
  <2>4. QED
    BY <2>2, <2>3
<1>4. CASE DispatchMark
  <2>1. (parts \in [Partitions -> RowRecord])'
    BY <1>4 DEF TypeOK, DispatchMark, Marked, RowRecord
  <2>2. CASE Raise
    BY <1>4, <2>1, <2>2, RaiseType DEF TypeOK, DispatchMark
  <2>3. CASE ~Raise
    <3>1. PICK batch \in SUBSET call.todo :
              call' = [call EXCEPT !.pc = "send", !.batch = batch, !.todo = @ \ batch]
      BY <1>4, <2>3 DEF DispatchMark
    <3>2. (call \in CallRecord)'
      BY <3>1 DEF TypeOK, CallRecord, CallPcs
    <3>3. QED
      BY <1>4, <2>1, <2>3, <3>2 DEF TypeOK, DispatchMark
  <2>4. QED
    BY <2>2, <2>3
<1>5. CASE DispatchSend
  <2>1. PICK sent \in SUBSET call.batch :
          /\ IF sent = call.batch THEN UNCHANGED faults ELSE Fault
          /\ msgs'  = [p \in Partitions |-> IF p \in sent THEN "visible" ELSE msgs[p]]
          /\ sends' = [p \in Partitions |-> IF p \in sent THEN sends[p] + 1 ELSE sends[p]]
          /\ call'  = [call EXCEPT !.pc = "ack", !.sent = sent,
                                       !.rejected = (sent # call.batch)]
    BY <1>5 DEF DispatchSend
  <2>2. (call \in CallRecord)'
    BY <2>1 DEF TypeOK, CallRecord, CallPcs
  <2>3. QED
    BY <1>5, <2>1, <2>2 DEF TypeOK, DispatchSend, Fault
<1>6. CASE DispatchAck
  <2>1. PICK p \in call.batch :
          /\ parts' = [parts EXCEPT ![p].dispatch =
                         IF p \in call.sent THEN "acknowledged" ELSE "queued"]
          /\ call' = [call EXCEPT !.batch = @ \ {p}]
    BY <1>6 DEF DispatchAck
  <2>2. p \in Partitions
    BY DEF TypeOK, CallRecord
  <2>3. (parts \in [Partitions -> RowRecord])'
    <3>1. parts \in [Partitions -> RowRecord]
      BY DEF TypeOK
    <3>2. \A row \in RowRecord : \A state \in {"acknowledged", "queued"} :
            [row EXCEPT !.dispatch = state] \in RowRecord
      BY DEF RowRecord
    <3>3. QED
      BY <2>1, <2>2, <3>1, <3>2
  <2>4. (call \in CallRecord)'
    BY <2>1 DEF TypeOK, CallRecord
  <2>5. QED
    BY <1>6, <2>3, <2>4 DEF TypeOK, DispatchAck
<1>7. CASE DispatchNext
  <2>1. CASE Raise
    BY <1>7, <2>1, RaiseType DEF TypeOK, DispatchNext
  <2>2. CASE ~Raise
    <3>1. \A pc \in CallPcs : [call EXCEPT !.sent = {}, !.pc = pc] \in CallRecord
      BY DEF TypeOK, CallRecord
    <3>2. QED
      BY <1>7, <1>p, <2>2, <3>1 DEF TypeOK, DispatchNext
  <2>3. QED
    BY <2>1, <2>2
<1>8. CASE DispatchAnnounce
  <2>1. (run \in RunRecord)'
    BY <1>8, SetStatusType DEF TypeOK, DispatchAnnounce, Statuses, Accepting
  <2>2. QED
    BY <1>8, <1>t, <2>1, ReturnType DEF TypeOK, DispatchAnnounce, At
<1>9. QED
  BY <1>1, <1>2, <1>3, <1>4, <1>5, <1>6, <1>7, <1>8 DEF DispatchStep

LEMMA WorkflowType == ASSUME TypeOK, WorkflowStep PROVE TypeOK'
<1> USE DEF WorkersType, QueueType, ObjectsType, ControlType, EnvType, ledger, objects, queue
<1>t. /\ \A t \in {"DispatchPartitions", "CheckPartitions", "StartAthenaConversion",
                     "CheckAthena", "FinalizeRun", "RecordWorkflowFailure"} : t \in Tasks
      /\ \A e \in {"RunCompleted", "RunCanceled", "WorkflowFailed", "TimedOut"} : e \in Ends
      /\ EndFor(run.status) \in Ends /\ AthenaEnd \in Ends
  BY DEF Tasks, Ends, EndFor, AthenaEnd
<1>p. \A pc \in {"cancel", "fail", "aggregate", "store", "publish", "proof",
                  "release_cancel", "release_fail", "release_done"} : pc \in CallPcs
  BY DEF CallPcs
<1>s. \A s \in {"aggregating", "canceled", "failed"} \cup Done : s \in Statuses
  BY DEF Statuses, Terminal
<1>l. ASSUME NEW t \in {"CheckAthena"} \cup Ends, wf \in Tasks, LeftAggregation(t),
             UNCHANGED creator
      PROVE  (call \in CallRecord)' /\ ControlType' /\ faults' \in Nat
  BY <1>l, <1>p, <1>t, GotoType, ReturnType, RaiseType DEF TypeOK, LeftAggregation
<1>1. CASE DispatchStep
  BY <1>1, DispatchType
<1>2. CASE CheckRead
  <2>1. (call \in CallRecord)' /\ ControlType' /\ faults' \in Nat
    BY <1>2, <1>p, <1>t, GotoType, ReturnType DEF TypeOK, CheckRead, At, Fault
  <2>2. QED
    BY <1>2, <2>1 DEF TypeOK, CheckRead
<1>3. CASE CheckAggregate
  <2>1. (call \in CallRecord)' /\ ControlType' /\ faults' \in Nat
    BY <1>3, <1>t, ReturnType DEF CheckAggregate, At
  <2>2. QED
    BY <1>3, <1>s, <2>1, SetStatusType DEF TypeOK, CheckAggregate
<1>4. CASE AthenaStart
  <2>1. (call \in CallRecord)' /\ ControlType' /\ faults' \in Nat
    BY <1>4, <1>p, <1>t, GotoType, ReturnType DEF TypeOK, AthenaStart, At
  <2>2. athena' \in {"none", "running", "succeeded", "failed"}
    BY <1>4 DEF TypeOK, AthenaStart
  <2>3. QED
    BY <1>4, <2>1, <2>2 DEF TypeOK, AthenaStart
<1>5. CASE AthenaStore
  <2>1. (run \in RunRecord)'
    BY <1>5 DEF TypeOK, AthenaStore, RunRecord
  <2>2. (call \in CallRecord)' /\ ControlType' /\ faults' \in Nat
    BY <1>5, <1>l, <1>t, ReturnType DEF AthenaStore, At
  <2>3. athena' \in {"none", "running", "succeeded", "failed"}
    BY <1>5 DEF TypeOK, AthenaStore, StopQueries
  <2>4. QED
    BY <1>5, <2>1, <2>2, <2>3 DEF TypeOK, AthenaStore
<1>6. CASE AthenaCheck
  <2>1. (call \in CallRecord)' /\ ControlType' /\ faults' \in Nat
    BY <1>6, <1>p, <1>t, GotoType, ReturnType, RaiseType DEF TypeOK, AthenaCheck, At
  <2>2. athena' \in {"none", "running", "succeeded", "failed"}
    BY <1>6 DEF TypeOK, AthenaCheck, StopQueries
  <2>3. QED
    BY <1>6, <2>1, <2>2 DEF TypeOK, AthenaCheck
<1>7. CASE FinalizeEvidence
  <2>1. (call \in CallRecord)' /\ ControlType' /\ faults' \in Nat
    BY <1>7, <1>p, <1>t, GotoType, ReturnType, RaiseType DEF TypeOK, FinalizeEvidence, At
  <2>2. manifest' \in [Partitions -> Nat]
    BY <1>7 DEF TypeOK, FinalizeEvidence, ManifestEntry, RowRecord
  <2>3. QED
    BY <1>7, <2>1, <2>2 DEF TypeOK, FinalizeEvidence
<1>8. CASE FinalizePublish
  <2>1. (run \in RunRecord)'
    BY <1>8, <1>s, SetStatusType DEF TypeOK, FinalizePublish, Done
  <2>2. (call \in CallRecord)' /\ ControlType' /\ faults' \in Nat
    BY <1>8, <1>l, <1>p, <1>t, GotoType DEF TypeOK, FinalizePublish, At
  <2>3. QED
    BY <1>8, <2>1, <2>2 DEF TypeOK, FinalizePublish
<1>9. CASE FinalizeProof
  BY <1>9, <1>t, ReturnType DEF TypeOK, FinalizeProof, At
<1>10. CASE RecordCancel
  BY <1>10, <1>s, <1>p, SetStatusType, GotoType DEF TypeOK, RecordCancel
<1>11. CASE RecordFailure
  BY <1>11, <1>s, <1>p, SetStatusType, GotoType DEF TypeOK, RecordFailure
<1>12. CASE CallReleases
  <2>1. (call \in CallRecord)' /\ ControlType'
    BY <1>12, <1>p, <1>t, GotoType, IdleType DEF TypeOK, CallReleases, AfterRelease
  <2>2. QED
    BY <1>12, <2>1, ReleaseType DEF TypeOK, CallReleases
<1>13. QED
  BY <1>1, <1>2, <1>3, <1>4, <1>5, <1>6, <1>7, <1>8, <1>9, <1>10, <1>11, <1>12 DEF WorkflowStep

\* Every worker step leaves the control variables alone: what is left to show is the
\* type of what the step writes.
LEMMA WorkerOnlyType ==
    ASSUME TypeOK, WorkerOnly, WorkersType', MsgsType', (run \in RunRecord)',
           (parts \in [Partitions -> RowRecord])', receipts' \in [Partitions -> Nat],
           receives' \in [Partitions -> Nat], faults' \in Nat, duplicates' \in Nat
    PROVE  TypeOK'
BY DEF TypeOK, WorkerOnly, QueueType, ObjectsType, ControlType, EnvType, MsgsType, control

LEMMA WorkerType ==
    ASSUME TypeOK, NEW w \in Workers, WorkerStep(w) \/ WorkerRaises(w) \/ WorkerDies(w)
    PROVE  TypeOK'
<1> DEFINE p == workers[w].part
<1>t. /\ run \in RunRecord /\ parts \in [Partitions -> RowRecord]
      /\ receipts \in [Partitions -> Nat] /\ receives \in [Partitions -> Nat]
      /\ faults \in Nat /\ duplicates \in Nat
  BY DEF TypeOK, ObjectsType, QueueType, EnvType
<1>w. workers[w].pc # "idle" => p \in Partitions /\ workers[w].rc \in Nat
  BY DEF TypeOK, WorkersType, WorkerRecord
<1>1. CASE ReadRun(w)
  BY <1>1, <1>t, AckType, AdvanceType, WorkerOnlyType DEF ReadRun
<1>2. CASE MarkRunning(w)
  <2>1. [parts[p] EXCEPT !.status = "running"] \in RowRecord
    BY <1>2, <1>t, <1>w DEF MarkRunning, RowRecord
  <2>2. (parts \in [Partitions -> RowRecord])'
    BY <1>2, <1>t, <2>1 DEF MarkRunning
  <2>3. QED
    BY <1>2, <1>t, <2>2, AckType, AdvanceType, WorkerOnlyType DEF MarkRunning
<1>3. CASE WritePartitionFiles(w)
  <2>1. receipts' \in [Partitions -> Nat]
    BY <1>3, <1>t, <1>w DEF WritePartitionFiles
  <2>2. QED
    BY <1>3, <1>t, <2>1, AdvanceType, WorkerOnlyType DEF WritePartitionFiles
<1>4. CASE Commit(w)
  <2>1. p \in Partitions /\ workers[w].rc \in Nat
    BY <1>4, <1>w DEF Commit
  <2>2. (run \in RunRecord)'
    <3>1. Rows[p] \in Nat /\ Bad[p] \in Nat /\ Valid(p) \in Nat
      BY <2>1, ScaleRunAssumption DEF ScaleRunAssumption, Valid
    <3>2. /\ run.completed + 1 \in Nat /\ run.generated + Rows[p] \in Nat
          /\ run.curated + Valid(p) \in Nat /\ run.quarantined + Bad[p] \in Nat
      BY <1>t, <3>1 DEF RunRecord
    <3>3. CASE run' = [run EXCEPT !.completed = @ + 1, !.generated = @ + Rows[p],
                                  !.curated = @ + Valid(p), !.quarantined = @ + Bad[p]]
      BY <1>t, <3>2, <3>3, CommitRecord
    <3>4. CASE UNCHANGED run
      BY <1>t, <3>4
    <3>5. QED
      BY <1>4, <3>3, <3>4 DEF Commit
  <2>3. (parts \in [Partitions -> RowRecord])'
    <3>1. [parts[p] EXCEPT !.status = "completed", !.sha = workers[w].rc] \in RowRecord
      BY <1>t, <2>1 DEF RowRecord, FinishedPart
    <3>2. CASE parts' = [parts EXCEPT ![p] = [@ EXCEPT !.status = "completed",
                                                       !.sha = workers[w].rc]]
      BY <1>t, <3>1, <3>2
    <3>3. CASE UNCHANGED parts
      BY <1>t, <3>3
    <3>4. QED
      BY <1>4, <3>2, <3>3 DEF Commit
  <2>4. WorkersType' /\ MsgsType'
    BY <1>4, AckType, HandlerErrorType DEF Commit
  <2>5. QED
    BY <1>4, <1>t, <2>2, <2>3, <2>4, WorkerOnlyType DEF Commit
<1>5. CASE MarkFailed(w)
  <2>1. p \in Partitions
    BY <1>5, <1>w DEF MarkFailed
  <2>2. (run \in RunRecord)'
    BY <1>5, <1>t DEF MarkFailed, RunRecord
  <2>3. [parts[p] EXCEPT !.status = "failed"] \in RowRecord
    BY <1>t, <2>1 DEF RowRecord, FinishedPart
  <2>4. (parts \in [Partitions -> RowRecord])'
    BY <1>5, <1>t, <2>3 DEF MarkFailed
  <2>5. WorkersType' /\ MsgsType'
    BY <1>5, AckType, GiveUpType DEF MarkFailed
  <2>6. QED
    BY <1>5, <1>t, <2>2, <2>4, <2>5, WorkerOnlyType DEF MarkFailed
<1>6. CASE WorkerRaises(w)
  BY <1>6, <1>t, HandlerErrorType, WorkerOnlyType DEF WorkerRaises, Fault
<1>7. CASE WorkerDies(w)
  BY <1>7, <1>t, GiveUpType, WorkerOnlyType DEF WorkerDies, Fault
<1>8. QED
  BY <1>1, <1>2, <1>3, <1>4, <1>5, <1>6, <1>7 DEF WorkerStep

LEMMA QueueStepType ==
    ASSUME TypeOK, NEW p \in Partitions,
           Redeliver(p) \/ \E w \in Workers : Receive(w, p) \/ ReceiveDuplicate(w, p)
    PROVE  TypeOK'
<1>t. /\ run \in RunRecord /\ parts \in [Partitions -> RowRecord]
      /\ receipts \in [Partitions -> Nat] /\ receives \in [Partitions -> Nat]
      /\ faults \in Nat /\ duplicates \in Nat /\ WorkersType /\ MsgsType
  BY DEF TypeOK, ObjectsType, QueueType, EnvType, MsgsType
<1>1. CASE Redeliver(p)
  <2>1. WorkersType' /\ MsgsType'
    BY <1>1, <1>t DEF Redeliver, WorkersType, MsgsType
  <2>2. QED
    BY <1>1, <1>t, <2>1, WorkerOnlyType DEF Redeliver
<1>2. ASSUME NEW w \in Workers, Receive(w, p) PROVE TypeOK'
  <2>1. MsgsType'
    BY <1>2, <1>t DEF Receive, MsgsType
  <2>2. QED
    BY <1>2, <1>t, <2>1, DeliverType, WorkerOnlyType DEF Receive
<1>3. ASSUME NEW w \in Workers, ReceiveDuplicate(w, p) PROVE TypeOK'
  <2>1. MsgsType'
    BY <1>3, <1>t DEF ReceiveDuplicate, MsgsType
  <2>2. QED
    BY <1>3, <1>t, <2>1, DeliverType, WorkerOnlyType DEF ReceiveDuplicate
<1>4. QED
  BY <1>1, <1>2, <1>3

LEMMA EnvironmentType ==
    ASSUME TypeOK, InvocationFails \/ ExecutionTimesOut \/ Cancel \/ DeadlinePasses
                   \/ AthenaSucceeds \/ AthenaFails \/ ForeignPoison
    PROVE  TypeOK'
<1> USE DEF WorkersType, QueueType, ObjectsType, ControlType, EnvType, ledger, objects, queue
<1>1. CASE InvocationFails
  BY <1>1, IdleType, OnErrorType DEF TypeOK, InvocationFails, Fault
<1>2. CASE ExecutionTimesOut
  BY <1>2, IdleType DEF TypeOK, ExecutionTimesOut, Ends
<1>3. CASE Cancel
  <2>1. (run \in RunRecord)'
    BY <1>3, SetStatusType DEF Cancel, Statuses
  <2>2. QED
    BY <1>3, <2>1 DEF TypeOK, Cancel, control
<1>4. CASE DeadlinePasses
  BY <1>4 DEF TypeOK, DeadlinePasses, control
<1>5. CASE AthenaSucceeds
  BY <1>5 DEF TypeOK, AthenaSucceeds, control
<1>6. CASE AthenaFails
  BY <1>6 DEF TypeOK, AthenaFails, Fault, control
<1>7. CASE ForeignPoison
  BY <1>7 DEF TypeOK, ForeignPoison, control
<1>8. QED
  BY <1>1, <1>2, <1>3, <1>4, <1>5, <1>6, <1>7

LEMMA StutterType == ASSUME TypeOK, UNCHANGED vars PROVE TypeOK'
BY DEF TypeOK, WorkersType, QueueType, ObjectsType, ControlType, EnvType, vars, ledger,
       objects, queue, control

LEMMA TypeStep == ASSUME TypeOK, [Next]_vars PROVE TypeOK'
BY CreatorType, WorkflowType, WorkerType, QueueStepType, EnvironmentType, StutterType DEF Next

\* Every variable of a run keeps its shape, whatever crashes, retries, duplicates and
\* cancellations happen.
THEOREM TypeCorrect == Spec => []TypeOK
BY InitType, TypeStep, PTL DEF Spec

-----------------------------------------------------------------------------
(* The ledger: only a commit or a recorded failure finishes a row or moves *)
(* a counter, and only while the row and the run are open.                 *)

SameCounts ==
    /\ run'.completed = run.completed /\ run'.failed = run.failed
    /\ run'.generated = run.generated /\ run'.curated = run.curated
    /\ run'.quarantined = run.quarantined

SameFinished ==
    \A p \in Partitions :
        /\ parts'[p].status = "completed" <=> parts[p].status = "completed"
        /\ parts'[p].status = "failed" <=> parts[p].status = "failed"
        /\ parts'[p].sha = parts[p].sha

Completes(w) == Commit(w) /\ PartOpen(workers[w].part) /\ RunOpen
Fails(w)     == MarkFailed(w) /\ PartOpen(workers[w].part) /\ RunOpen

LEMMA KeptCounts == ASSUME UNCHANGED run PROVE SameCounts
BY DEF SameCounts

LEMMA KeptRows == ASSUME UNCHANGED parts PROVE SameFinished
BY DEF SameFinished

LEMMA StatusCounts == ASSUME TypeOK, NEW s, SetStatus(s) PROVE SameCounts
BY DEF TypeOK, RunRecord, SetStatus, SameCounts

LEMMA DispatchLedgerStep == ASSUME TypeOK, DispatchStep PROVE SameCounts /\ SameFinished
<1> USE KeptCounts, KeptRows, StatusCounts DEF ledger
<1>1. CASE DispatchRead
  BY <1>1 DEF DispatchRead
<1>2. CASE DispatchInit
  BY <1>2 DEF DispatchInit, TypeOK, RunRecord, SameCounts
<1>3. CASE DispatchLedger
  BY <1>3 DEF DispatchLedger, TypeOK, RowRecord, SameFinished
<1>4. CASE DispatchMark
  BY <1>4 DEF DispatchMark, Marked, TypeOK, RowRecord, SameFinished
<1>5. CASE DispatchSend
  BY <1>5 DEF DispatchSend
<1>6. CASE DispatchAck
  BY <1>6 DEF DispatchAck, TypeOK, RowRecord, SameFinished
<1>7. CASE DispatchNext
  BY <1>7 DEF DispatchNext
<1>8. CASE DispatchAnnounce
  BY <1>8 DEF DispatchAnnounce
<1>9. QED
  BY <1>1, <1>2, <1>3, <1>4, <1>5, <1>6, <1>7, <1>8 DEF DispatchStep

LEMMA WorkflowLedgerStep == ASSUME TypeOK, WorkflowStep PROVE SameCounts /\ SameFinished
<1> USE KeptCounts, KeptRows, StatusCounts DEF ledger
<1>1. CASE DispatchStep
  BY <1>1, DispatchLedgerStep
<1>2. CASE CheckRead \/ CheckAggregate
  BY <1>2 DEF CheckRead, CheckAggregate
<1>3. CASE AthenaStart \/ AthenaCheck
  BY <1>3 DEF AthenaStart, AthenaCheck
<1>4. CASE AthenaStore
  BY <1>4 DEF AthenaStore, TypeOK, RunRecord, SameCounts
<1>5. CASE FinalizeEvidence \/ FinalizePublish \/ FinalizeProof
  BY <1>5 DEF FinalizeEvidence, FinalizePublish, FinalizeProof
<1>6. CASE RecordCancel \/ RecordFailure \/ CallReleases
  BY <1>6 DEF RecordCancel, RecordFailure, CallReleases
<1>7. QED
  BY <1>1, <1>2, <1>3, <1>4, <1>5, <1>6 DEF WorkflowStep

LEMMA WorkerLedgerStep ==
    ASSUME TypeOK, NEW w \in Workers, WorkerStep(w) \/ WorkerRaises(w) \/ WorkerDies(w)
    PROVE  (SameCounts /\ SameFinished) \/ Completes(w) \/ Fails(w)
<1> USE KeptCounts, KeptRows
<1>1. CASE ReadRun(w) \/ WritePartitionFiles(w)
  BY <1>1 DEF ReadRun, WritePartitionFiles
<1>2. CASE MarkRunning(w)
  BY <1>2 DEF MarkRunning, TypeOK, WorkersType, RowRecord, FinishedPart, SameFinished
<1>3. CASE Commit(w)
  BY <1>3 DEF Commit, Completes
<1>4. CASE MarkFailed(w)
  BY <1>4 DEF MarkFailed, Fails
<1>5. CASE WorkerRaises(w) \/ WorkerDies(w)
  BY <1>5 DEF WorkerRaises, WorkerDies
<1>6. QED
  BY <1>1, <1>2, <1>3, <1>4, <1>5 DEF WorkerStep

LEMMA LedgerStep ==
    ASSUME TypeOK, [Next]_vars
    PROVE  (SameCounts /\ SameFinished) \/ \E w \in Workers : Completes(w) \/ Fails(w)
<1> USE KeptCounts, KeptRows, StatusCounts DEF ledger
<1>1. CASE CreatorStep \/ StartFails \/ CreatorDies
  BY <1>1 DEF CreatorStep, StartExecution, RecordStart, RecordStartFailure,
              CreatorReleases, StartFails, CreatorDies
<1>2. CASE InvocationFails \/ ExecutionTimesOut \/ Cancel \/ DeadlinePasses
           \/ AthenaSucceeds \/ AthenaFails \/ ForeignPoison
  BY <1>2 DEF InvocationFails, ExecutionTimesOut, Cancel, DeadlinePasses,
              AthenaSucceeds, AthenaFails, ForeignPoison
<1>3. ASSUME NEW p \in Partitions,
             Redeliver(p) \/ \E w \in Workers : Receive(w, p) \/ ReceiveDuplicate(w, p)
      PROVE  SameCounts /\ SameFinished
  BY <1>3 DEF Redeliver, Receive, ReceiveDuplicate
<1>4. CASE UNCHANGED vars
  BY <1>4 DEF vars
<1>5. QED
  BY <1>1, <1>2, <1>3, <1>4, WorkflowLedgerStep, WorkerLedgerStep DEF Next

\* What a commit and a recorded failure do to the ledger, field by field.
LEMMA CompletesEffect ==
    ASSUME TypeOK, NEW w \in Workers, Completes(w)
    PROVE  /\ workers[w].part \in Partitions /\ PartOpen(workers[w].part) /\ RunOpen
           /\ \A q \in Partitions :
                parts'[q] = IF q = workers[w].part
                            THEN [parts[q] EXCEPT !.status = "completed", !.sha = workers[w].rc]
                            ELSE parts[q]
           /\ parts'[workers[w].part].status = "completed"
           /\ run'.completed = run.completed + 1 /\ run'.failed = run.failed
           /\ run'.generated = run.generated + Rows[workers[w].part]
           /\ run'.curated = run.curated + Valid(workers[w].part)
           /\ run'.quarantined = run.quarantined + Bad[workers[w].part]
<1> DEFINE p == workers[w].part
<1>1. /\ p \in Partitions /\ PartOpen(p) /\ RunOpen
      /\ parts' = [parts EXCEPT ![p] = [@ EXCEPT !.status = "completed", !.sha = workers[w].rc]]
      /\ run' = [run EXCEPT !.completed = @ + 1, !.generated = @ + Rows[p],
                            !.curated = @ + Valid(p), !.quarantined = @ + Bad[p]]
  BY DEF Completes, Commit, TypeOK, WorkersType
<1>2. \A q \in Partitions :
        parts'[q] = IF q = p
                    THEN [parts[q] EXCEPT !.status = "completed", !.sha = workers[w].rc]
                    ELSE parts[q]
  BY <1>1 DEF TypeOK
<1>3. parts[p] \in RowRecord
  BY <1>1 DEF TypeOK
<1>4. [parts[p] EXCEPT !.status = "completed", !.sha = workers[w].rc].status = "completed"
  BY <1>3 DEF RowRecord
<1>5. parts'[p].status = "completed"
  BY <1>1, <1>2, <1>4
<1>6. /\ run'.completed = run.completed + 1 /\ run'.failed = run.failed
      /\ run'.generated = run.generated + Rows[p]
      /\ run'.curated = run.curated + Valid(p)
      /\ run'.quarantined = run.quarantined + Bad[p]
  BY <1>1 DEF TypeOK, RunRecord
<1>7. QED
  BY <1>1, <1>2, <1>5, <1>6

LEMMA FailsEffect ==
    ASSUME TypeOK, NEW w \in Workers, Fails(w)
    PROVE  /\ workers[w].part \in Partitions /\ PartOpen(workers[w].part) /\ RunOpen
           /\ \A q \in Partitions \ {workers[w].part} : parts'[q] = parts[q]
           /\ parts'[workers[w].part].status = "failed"
           /\ run'.completed = run.completed /\ run'.failed = run.failed + 1
           /\ run'.generated = run.generated /\ run'.curated = run.curated
           /\ run'.quarantined = run.quarantined
<1> DEFINE p == workers[w].part
<1>1. /\ p \in Partitions /\ PartOpen(p) /\ RunOpen
      /\ parts' = [parts EXCEPT ![p].status = "failed"]
      /\ run' = [run EXCEPT !.failed = @ + 1]
  BY DEF Fails, MarkFailed, TypeOK, WorkersType
<1>2. \A q \in Partitions \ {p} : parts'[q] = parts[q]
  BY <1>1 DEF TypeOK
<1>3. parts'[p].status = "failed"
  BY <1>1 DEF TypeOK, RowRecord
<1>4. /\ run'.completed = run.completed /\ run'.failed = run.failed + 1
      /\ run'.generated = run.generated /\ run'.curated = run.curated
      /\ run'.quarantined = run.quarantined
  BY <1>1 DEF TypeOK, RunRecord
<1>5. QED
  BY <1>1, <1>2, <1>3, <1>4

LEMMA FinishedSets ==
    IsFiniteSet(CompletedSet) /\ IsFiniteSet(FailedSet)
BY ScaleRunAssumption, FS_Subset DEF ScaleRunAssumption, CompletedSet, FailedSet

LEMMA CountersStep ==
    ASSUME TypeOK, CountersMatchLedger, [Next]_vars PROVE CountersMatchLedger'
<1>1. CASE SameCounts /\ SameFinished
  <2>1. CompletedSet' = CompletedSet /\ FailedSet' = FailedSet
    BY <1>1 DEF SameFinished, CompletedSet, FailedSet
  <2>2. QED
    BY <1>1, <2>1 DEF CountersMatchLedger, SameCounts
<1>2. ASSUME NEW w \in Workers, Completes(w) PROVE CountersMatchLedger'
  <2> DEFINE p == workers[w].part
  <2>1. p \in Partitions \ CompletedSet /\ p \notin FailedSet
    BY <1>2, CompletesEffect DEF PartOpen, CompletedSet, FailedSet, FinishedPart
  <2>2. CompletedSet' = CompletedSet \cup {p} /\ FailedSet' = FailedSet
    <3>1. (\A q \in Partitions \ {p} : parts'[q] = parts[q]) /\ parts'[p].status = "completed"
      BY <1>2, CompletesEffect
    <3>2. QED
      BY <2>1, <3>1 DEF CompletedSet, FailedSet
  <2>3. run'.completed = run.completed + 1 /\ run'.failed = run.failed
    BY <1>2, CompletesEffect
  <2>4. Cardinality(CompletedSet \cup {p}) = Cardinality(CompletedSet) + 1
    BY <2>1, FinishedSets, FS_AddElement
  <2>5. QED
    BY <2>2, <2>3, <2>4 DEF CountersMatchLedger
<1>3. ASSUME NEW w \in Workers, Fails(w) PROVE CountersMatchLedger'
  <2> DEFINE p == workers[w].part
  <2>1. p \in Partitions \ CompletedSet /\ p \notin FailedSet
    BY <1>3, FailsEffect DEF PartOpen, CompletedSet, FailedSet, FinishedPart
  <2>2. CompletedSet' = CompletedSet /\ FailedSet' = FailedSet \cup {p}
    BY <1>3, <2>1, FailsEffect DEF CompletedSet, FailedSet
  <2>3. run'.completed = run.completed /\ run'.failed = run.failed + 1
    BY <1>3, FailsEffect
  <2>4. Cardinality(FailedSet \cup {p}) = Cardinality(FailedSet) + 1
    BY <2>1, FinishedSets, FS_AddElement
  <2>5. QED
    BY <2>2, <2>3, <2>4 DEF CountersMatchLedger
<1>4. QED
  BY <1>1, <1>2, <1>3, LedgerStep

\* Whatever the number of deliveries, crashes and retries, the counters of the run item
\* count its completed and failed partition rows (_commit, _mark_partition_failed).
THEOREM CountersCorrect == Spec => []CountersMatchLedger
<1>1. Init => CountersMatchLedger
  <2> SUFFICES ASSUME Init PROVE CountersMatchLedger
    OBVIOUS
  <2>1. CompletedSet = {} /\ FailedSet = {}
    BY DEF Init, CompletedSet, FailedSet
  <2>2. QED
    BY <2>1, FS_EmptySet DEF Init, CountersMatchLedger
<1>2. QED
  BY <1>1, CountersStep, TypeCorrect, PTL DEF Spec

\* Records never go missing between generation, curation and quarantine.
THEOREM RecordsBalanced == Spec => []RecordsBalance
<1>1. Init => RecordsBalance
  BY DEF Init, RecordsBalance
<1>2. ASSUME TypeOK, RecordsBalance, [Next]_vars PROVE RecordsBalance'
  <2>1. CASE SameCounts /\ SameFinished
    BY <1>2, <2>1 DEF SameCounts, RecordsBalance
  <2>2. ASSUME NEW w \in Workers, Completes(w) PROVE RecordsBalance'
    <3> DEFINE p == workers[w].part
    <3>1. /\ run'.generated = run.generated + Rows[p]
          /\ run'.curated = run.curated + Valid(p)
          /\ run'.quarantined = run.quarantined + Bad[p]
      BY <1>2, <2>2, CompletesEffect
    <3>2. Rows[p] \in Nat /\ Bad[p] \in Nat
      BY <1>2, <2>2, CompletesEffect, ScaleRunAssumption DEF ScaleRunAssumption
    <3>3. run.generated \in Nat /\ run.curated \in Nat /\ run.quarantined \in Nat
      BY <1>2 DEF TypeOK, RunRecord
    <3>4. QED
      BY <1>2, <3>1, <3>2, <3>3 DEF RecordsBalance, Valid
  <2>3. ASSUME NEW w \in Workers, Fails(w) PROVE RecordsBalance'
    BY <1>2, <2>3, FailsEffect DEF RecordsBalance
  <2>4. QED
    BY <1>2, <2>1, <2>2, <2>3, LedgerStep
<1>3. QED
  BY <1>1, <1>2, TypeCorrect, PTL DEF Spec

\* A finished row keeps its status and its receipt hash for ever.
THEOREM CompletedFinal == Spec => CompletedIsFinal
<1> DEFINE Kept == \A p \in Partitions : parts[p].status \in FinishedPart =>
                      parts'[p].status = parts[p].status /\ parts'[p].sha = parts[p].sha
<1>1. ASSUME TypeOK, [Next]_vars PROVE Kept
  <2>1. CASE SameFinished
    BY <2>1 DEF SameFinished, FinishedPart
  <2>2. ASSUME NEW w \in Workers, Completes(w) PROVE Kept
    BY <1>1, <2>2, CompletesEffect DEF PartOpen
  <2>3. ASSUME NEW w \in Workers, Fails(w) PROVE Kept
    BY <1>1, <2>3, FailsEffect DEF PartOpen
  <2>4. QED
    BY <1>1, <2>1, <2>2, <2>3, LedgerStep
<1>2. TypeOK /\ [Next]_vars => [Kept]_parts
  BY <1>1
<1>3. QED
  BY <1>2, TypeCorrect, PTL DEF Spec, CompletedIsFinal

\* No late worker adds to the totals of a run that stopped accepting work.
THEOREM ClosedRunFrozen == Spec => ClosedRunIsFrozen
<1>1. ASSUME TypeOK, [Next]_vars, run.status \notin Accepting PROVE SameCounts
  BY <1>1, LedgerStep DEF Completes, Fails, RunOpen
<1>2. TypeOK /\ [Next]_vars => [run.status \notin Accepting => SameCounts]_run
  BY <1>1
<1>3. QED
  BY <1>2, TypeCorrect, PTL DEF Spec, ClosedRunIsFrozen, SameCounts

-----------------------------------------------------------------------------
(* Dispatch: a row is sent only if no message of it was accepted before.   *)

SendInv ==
    /\ \A p \in Partitions : sends[p] <= 1
    /\ \A p \in Partitions : sends[p] > 0 =>
         /\ parts[p].status # "absent"
         /\ parts[p].status = "queued" => parts[p].dispatch # "queued"
    /\ \A p \in call.todo \cup (call.batch \ call.sent) : sends[p] = 0
    /\ \A p \in call.todo \cup call.batch : parts[p].status # "absent"
    /\ \A p \in call.batch : parts[p].dispatch = "dispatching"
    /\ call.todo \cap call.batch = {}
    /\ call.pc # "ack" => call.sent = {}
    /\ call.pc \notin {"send", "ack"} => call.batch = {}

\* What a step outside _dispatch does to what dispatch goes by.
RowsGoOn ==
    \A p \in Partitions :
        /\ parts'[p].dispatch = parts[p].dispatch
        /\ parts'[p].status \in {"absent", "queued"} => parts'[p].status = parts[p].status

CallMoves ==
    \/ call' = Idle \/ UNCHANGED call
    \/ /\ call.pc \notin {"send", "ack"}
       /\ \E pc \in CallPcs : call' = [call EXCEPT !.pc = pc]

LEMMA KeptDispatch == ASSUME UNCHANGED parts PROVE RowsGoOn
BY DEF RowsGoOn

LEMMA MovesByGoto ==
    ASSUME NEW pc \in CallPcs, Goto(pc), call.pc \notin {"send", "ack"} PROVE CallMoves
BY DEF Goto, CallMoves

LEMMA MovesByAnswer ==
    ASSUME (\E next \in Tasks \cup Ends : Return(next)) \/ Raise PROVE CallMoves
BY DEF Return, Raise, CallMoves

LEMMA WorkflowDispatchFrame ==
    ASSUME TypeOK, WorkflowStep, ~DispatchStep
    PROVE  UNCHANGED sends /\ RowsGoOn /\ CallMoves
<1> USE KeptDispatch DEF queue, ledger
<1>t. /\ {"StartAthenaConversion", "CheckAthena", "FinalizeRun", "RunCompleted"} \subseteq Tasks \cup Ends
      /\ EndFor(run.status) \in Tasks \cup Ends /\ AthenaEnd \in Tasks \cup Ends
  BY DEF Tasks, Ends, EndFor, AthenaEnd
<1>p. {"cancel", "fail", "aggregate", "store", "publish", "proof",
       "release_cancel", "release_fail", "release_done"} \subseteq CallPcs
  BY DEF CallPcs
<1>l. ASSUME NEW t \in Tasks \cup Ends, LeftAggregation(t), call.pc \notin {"send", "ack"}
      PROVE  CallMoves
  BY <1>l, <1>p, MovesByGoto, MovesByAnswer DEF LeftAggregation
<1>1. CASE CheckRead
  <2>1. CallMoves
    BY <1>1, <1>t, <1>p, MovesByGoto, MovesByAnswer DEF CheckRead, At, CallMoves
  <2> QED BY <1>1, <2>1 DEF CheckRead
<1>2. CASE CheckAggregate
  BY <1>2, <1>t, MovesByAnswer DEF CheckAggregate
<1>3. CASE AthenaStart
  <2>1. CallMoves
    BY <1>3, <1>t, <1>p, MovesByGoto, MovesByAnswer DEF AthenaStart, At
  <2> QED BY <1>3, <2>1 DEF AthenaStart
<1>4. CASE AthenaStore
  <2>1. CallMoves
    BY <1>4, <1>t, <1>l, MovesByAnswer DEF AthenaStore, At
  <2> QED BY <1>4, <2>1 DEF AthenaStore
<1>5. CASE AthenaCheck
  <2>1. CallMoves
    BY <1>5, <1>t, <1>p, MovesByGoto, MovesByAnswer DEF AthenaCheck, At, CallMoves
  <2> QED BY <1>5, <2>1 DEF AthenaCheck
<1>6. CASE FinalizeEvidence
  <2>1. CallMoves
    BY <1>6, <1>t, <1>p, MovesByGoto, MovesByAnswer DEF FinalizeEvidence, At
  <2> QED BY <1>6, <2>1 DEF FinalizeEvidence
<1>7. CASE FinalizePublish
  <2>1. CallMoves
    BY <1>7, <1>t, <1>p, <1>l, MovesByGoto DEF FinalizePublish, At
  <2> QED BY <1>7, <2>1 DEF FinalizePublish
<1>8. CASE FinalizeProof
  BY <1>8, <1>t, MovesByAnswer DEF FinalizeProof
<1>9. CASE RecordCancel \/ RecordFailure
  BY <1>9, <1>p, MovesByGoto DEF RecordCancel, RecordFailure, At
<1>10. CASE CallReleases
  <2>1. CallMoves
    BY <1>10, <1>p, MovesByGoto DEF CallReleases, CallMoves
  <2> QED BY <1>10, <2>1 DEF CallReleases
<1> QED BY <1>1, <1>2, <1>3, <1>4, <1>5, <1>6, <1>7, <1>8, <1>9, <1>10 DEF WorkflowStep

LEMMA WorkerDispatchFrame ==
    ASSUME TypeOK, NEW w \in Workers, WorkerStep(w) \/ WorkerRaises(w) \/ WorkerDies(w)
    PROVE  UNCHANGED <<sends, call>> /\ RowsGoOn
<1> USE KeptDispatch DEF WorkerOnly, control
<1>1. CASE ReadRun(w) \/ WritePartitionFiles(w) \/ WorkerRaises(w) \/ WorkerDies(w)
  BY <1>1 DEF ReadRun, WritePartitionFiles, WorkerRaises, WorkerDies
<1>2. CASE MarkRunning(w)
  BY <1>2 DEF MarkRunning, TypeOK, WorkersType, RowRecord, RowsGoOn
<1>3. CASE Commit(w)
  <2>1. RowsGoOn
    <3>1. CASE Completes(w)
      <4>1. \A q \in Partitions \ {workers[w].part} : parts'[q] = parts[q]
        BY <3>1, CompletesEffect
      <4>2. /\ workers[w].part \in Partitions
            /\ parts'[workers[w].part].status = "completed"
            /\ parts'[workers[w].part] = [parts[workers[w].part] EXCEPT
                                            !.status = "completed", !.sha = workers[w].rc]
        BY <3>1, CompletesEffect
      <4>3. parts'[workers[w].part].dispatch = parts[workers[w].part].dispatch
        BY <4>2 DEF TypeOK, RowRecord
      <4> QED BY <4>1, <4>2, <4>3 DEF RowsGoOn
    <3>2. CASE ~Completes(w)
      <4>1. ~(PartOpen(workers[w].part) /\ RunOpen)
        BY <1>3, <3>2 DEF Completes
      <4>2. UNCHANGED parts
        BY <1>3, <4>1 DEF Commit
      <4> QED BY <4>2, KeptDispatch
    <3> QED BY <3>1, <3>2
  <2> QED BY <1>3, <2>1 DEF Commit
<1>4. CASE MarkFailed(w)
  BY <1>4 DEF MarkFailed, TypeOK, WorkersType, RowRecord, RowsGoOn
<1> QED BY <1>1, <1>2, <1>3, <1>4 DEF WorkerStep

LEMMA DispatchFrame ==
    ASSUME TypeOK, [Next]_vars, ~DispatchStep
    PROVE  UNCHANGED sends /\ RowsGoOn /\ CallMoves
<1> USE KeptDispatch DEF queue, ledger, control
<1>1. CASE CreatorStep \/ StartFails \/ CreatorDies
  BY <1>1 DEF CreatorStep, StartExecution, RecordStart, RecordStartFailure,
              CreatorReleases, StartFails, CreatorDies, CallMoves
<1>2. CASE InvocationFails \/ ExecutionTimesOut \/ Cancel \/ DeadlinePasses
           \/ AthenaSucceeds \/ AthenaFails \/ ForeignPoison
  BY <1>2 DEF InvocationFails, ExecutionTimesOut, Cancel, DeadlinePasses,
              AthenaSucceeds, AthenaFails, ForeignPoison, CallMoves
<1>3. ASSUME NEW p \in Partitions,
             Redeliver(p) \/ \E w \in Workers : Receive(w, p) \/ ReceiveDuplicate(w, p)
      PROVE  UNCHANGED sends /\ RowsGoOn /\ CallMoves
  BY <1>3 DEF Redeliver, Receive, ReceiveDuplicate, WorkerOnly, CallMoves
<1>4. CASE UNCHANGED vars
  BY <1>4 DEF vars, CallMoves
<1>5. ASSUME NEW w \in Workers, WorkerStep(w) \/ WorkerRaises(w) \/ WorkerDies(w)
      PROVE  UNCHANGED sends /\ RowsGoOn /\ CallMoves
  BY <1>5, WorkerDispatchFrame DEF CallMoves
<1> QED BY <1>1, <1>2, <1>3, <1>4, <1>5, WorkflowDispatchFrame DEF Next

LEMMA SendKept ==
    ASSUME TypeOK, SendInv, UNCHANGED sends, RowsGoOn, CallMoves PROVE SendInv'
<1>1. CASE call' = Idle
  <2>1. /\ call'.todo = {} /\ call'.batch = {} /\ call'.sent = {}
    BY <1>1 DEF Idle
  <2> QED BY <2>1 DEF SendInv, RowsGoOn
<1>2. CASE UNCHANGED call
  <2>1. call.todo \subseteq Partitions /\ call.batch \subseteq Partitions
    BY DEF TypeOK, CallRecord
  <2> QED BY <1>2, <2>1 DEF SendInv, RowsGoOn
<1>3. ASSUME call.pc \notin {"send", "ack"}, NEW pc \in CallPcs, call' = [call EXCEPT !.pc = pc]
      PROVE  SendInv'
  <2>1. /\ call'.todo = call.todo /\ call'.batch = {} /\ call'.sent = {}
        /\ call.batch = {} /\ call.sent = {}
    BY <1>3 DEF SendInv, TypeOK, CallRecord
  <2>2. call.todo \subseteq Partitions
    BY DEF TypeOK, CallRecord
  <2> QED BY <2>1, <2>2 DEF SendInv, RowsGoOn
<1> QED BY <1>1, <1>2, <1>3 DEF CallMoves

\* A batch is marked and sent when every row passes the condition of the mark.
Marks(batch) ==
    /\ parts' = [p \in Partitions |->
                   IF p \in batch /\ Unsent(p) THEN [parts[p] EXCEPT !.dispatch = "dispatching"]
                                               ELSE parts[p]]
    /\ IF \A p \in batch : Unsent(p)
       THEN /\ call' = [call EXCEPT !.pc = "send", !.batch = batch, !.todo = @ \ batch]
            /\ UNCHANGED <<wf, faults>>
       ELSE Raise

LEMMA MarkSteps == ASSUME DispatchMark PROVE \E batch \in SUBSET call.todo : Marks(batch)
BY DEF DispatchMark, Marked, Marks

LEMMA SendDispatch == ASSUME TypeOK, SendInv, DispatchStep PROVE SendInv'
<1> USE KeptDispatch DEF queue, ledger
<1>t. "CheckPartitions" \in Tasks \cup Ends
  BY DEF Tasks
<1>p. {"init", "ledger", "mark", "send", "ack", "announce"} \subseteq CallPcs
  BY DEF CallPcs
<1>c. call \in CallRecord /\ call.todo \subseteq Partitions /\ call.batch \subseteq Partitions
  BY DEF TypeOK, CallRecord
<1>1. CASE DispatchRead
  <2>1. CASE Return("CheckPartitions")
    BY <1>1, <2>1, <1>t, MovesByAnswer, SendKept DEF DispatchRead
  <2>2. ASSUME NEW dlq, call' = [Idle EXCEPT !.pc = "init", !.dlq = dlq] PROVE SendInv'
    <3>1. /\ call'.todo = {} /\ call'.batch = {} /\ call'.sent = {} /\ call'.pc = "init"
      BY <2>2 DEF Idle
    <3>2. UNCHANGED <<sends, parts>>
      BY <1>1 DEF DispatchRead
    <3> QED BY <3>1, <3>2 DEF SendInv
  <2>3. CASE call' = [Idle EXCEPT !.pc = "init"]
    <3>1. /\ call'.todo = {} /\ call'.batch = {} /\ call'.sent = {} /\ call'.pc = "init"
      BY <2>3 DEF Idle
    <3>2. UNCHANGED <<sends, parts>>
      BY <1>1 DEF DispatchRead
    <3> QED BY <3>1, <3>2 DEF SendInv
  <2> QED BY <1>1, <2>1, <2>2, <2>3 DEF DispatchRead
<1>2. CASE DispatchInit
  <2>1. CallMoves
    BY <1>2, <1>t, <1>p, MovesByGoto, MovesByAnswer DEF DispatchInit, At
  <2> QED BY <1>2, <2>1, SendKept DEF DispatchInit
<1>3. CASE DispatchLedger
  <2>0. UNCHANGED sends /\ call.pc = "ledger"
    BY <1>3 DEF DispatchLedger, At
  <2>1. \A p \in Partitions : /\ parts'[p].dispatch = parts[p].dispatch
                              /\ parts'[p].status # "absent"
                              /\ parts[p].status # "absent" => parts'[p].status = parts[p].status
    BY <1>3 DEF DispatchLedger, TypeOK, RowRecord
  <2>2. call.batch = {} /\ call.sent = {}
    BY <2>0 DEF SendInv
  <2>3. CASE Raise
    <3>1. call'.todo = {} /\ call'.batch = {} /\ call'.sent = {}
      BY <2>3 DEF Raise, Idle
    <3> QED BY <2>0, <2>1, <3>1 DEF SendInv
  <2>4. CASE ~Raise
    <3> DEFINE todo == {p \in Partitions : Pending(p)}
    <3>1. /\ ~\E p \in Partitions : Uncertain(p)
          /\ call' = [call EXCEPT !.todo = todo, !.pc = IF todo = {} THEN "announce" ELSE "mark"]
      BY <1>3, <2>4 DEF DispatchLedger
    <3>2. /\ call'.todo = todo /\ call'.batch = {} /\ call'.sent = {}
      BY <1>c, <2>2, <3>1 DEF CallRecord
    <3>3. ASSUME NEW p \in todo PROVE sends[p] = 0
      <4>1. p \in Partitions /\ ~Uncertain(p) /\ Pending(p)
        BY <3>1
      <4>2. ~(sends[p] > 0)
        BY <4>1 DEF SendInv, Pending, Uncertain, TypeOK, RowRecord
      <4> QED BY <4>1, <4>2 DEF TypeOK, QueueType
    <3> QED BY <2>0, <2>1, <3>2, <3>3 DEF SendInv
  <2> QED BY <2>3, <2>4
<1>4. CASE DispatchMark
  <2>1. PICK batch \in SUBSET call.todo : Marks(batch)
    BY <1>4, MarkSteps
  <2>2. \A p \in Partitions :
           /\ parts'[p].status = parts[p].status
           /\ parts'[p].dispatch = IF p \in batch /\ Unsent(p) THEN "dispatching"
                                                             ELSE parts[p].dispatch
    BY <2>1 DEF Marks, TypeOK, RowRecord
  <2>3. UNCHANGED sends
    BY <1>4 DEF DispatchMark
  <2>4. CASE Raise
    <3>1. call'.todo = {} /\ call'.batch = {} /\ call'.sent = {}
      BY <2>4 DEF Raise, Idle
    <3> QED BY <2>2, <2>3, <3>1 DEF SendInv
  <2>5. CASE ~Raise
    <3>1. /\ call' = [call EXCEPT !.pc = "send", !.batch = batch, !.todo = @ \ batch]
          /\ \A p \in batch : Unsent(p)
      BY <2>1, <2>5 DEF Marks
    <3>2. call.sent = {}
      BY <1>4 DEF DispatchMark, At, SendInv
    <3>3. /\ call'.todo = call.todo \ batch /\ call'.batch = batch /\ call'.sent = {}
          /\ call'.pc = "send"
      BY <1>c, <3>1, <3>2 DEF CallRecord
    <3> QED BY <1>c, <2>2, <2>3, <3>1, <3>3 DEF SendInv
  <2> QED BY <2>4, <2>5
<1>5. CASE DispatchSend
  <2>1. PICK sent \in SUBSET call.batch :
          /\ sends' = [p \in Partitions |-> IF p \in sent THEN sends[p] + 1 ELSE sends[p]]
          /\ call'  = [call EXCEPT !.pc = "ack", !.sent = sent,
                                       !.rejected = (sent # call.batch)]
    BY <1>5 DEF DispatchSend
  <2>2. /\ call'.todo = call.todo /\ call'.batch = call.batch /\ call'.sent = sent
        /\ call'.pc = "ack" /\ call.sent = {}
    BY <1>5, <1>c, <2>1 DEF CallRecord, DispatchSend, At, SendInv
  <2>3. UNCHANGED parts
    BY <1>5 DEF DispatchSend
  <2>4. \A p \in sent : sends[p] = 0 /\ sends'[p] = 1
    BY <1>c, <2>1, <2>2 DEF SendInv
  <2>5. \A p \in Partitions \ sent : sends'[p] = sends[p]
    BY <2>1
  <2> QED BY <1>c, <2>2, <2>3, <2>4, <2>5 DEF SendInv
<1>6. CASE DispatchAck
  <2>1. PICK p \in call.batch :
          /\ parts' = [parts EXCEPT ![p].dispatch =
                         IF p \in call.sent THEN "acknowledged" ELSE "queued"]
          /\ call' = [call EXCEPT !.batch = @ \ {p}]
    BY <1>6 DEF DispatchAck
  <2>2. /\ call'.todo = call.todo /\ call'.batch = call.batch \ {p} /\ call'.sent = call.sent
        /\ call'.pc = "ack" /\ call.pc = "ack"
    BY <1>6, <1>c, <2>1 DEF CallRecord, DispatchAck, At
  <2>3. /\ \A q \in Partitions : parts'[q].status = parts[q].status
        /\ \A q \in Partitions \ {p} : parts'[q].dispatch = parts[q].dispatch
        /\ p \in call.sent => parts'[p].dispatch = "acknowledged"
    BY <1>c, <2>1 DEF TypeOK, RowRecord
  <2>4. UNCHANGED sends
    BY <1>6 DEF DispatchAck
  <2>5. p \notin call.sent => sends[p] = 0
    BY DEF SendInv
  <2>6. \A q \in Partitions : sends[q] > 0 =>
           /\ parts'[q].status # "absent"
           /\ parts'[q].status = "queued" => parts'[q].dispatch # "queued"
    BY <2>3, <2>5 DEF SendInv
  <2>7. \A q \in call'.batch : parts'[q].dispatch = "dispatching"
    BY <1>c, <2>2, <2>3 DEF SendInv
  <2> QED BY <1>c, <2>2, <2>3, <2>4, <2>6, <2>7 DEF SendInv
<1>7. CASE DispatchNext
  <2>0. UNCHANGED <<sends, parts>> /\ call.batch = {}
    BY <1>7 DEF DispatchNext
  <2>1. CASE Raise
    BY <2>0, <2>1, MovesByAnswer, SendKept
  <2>2. CASE ~Raise
    <3>1. call'.todo = call.todo /\ call'.batch = {} /\ call'.sent = {}
      BY <1>7, <1>c, <2>0, <2>2 DEF DispatchNext, CallRecord
    <3> QED BY <2>0, <3>1 DEF SendInv
  <2> QED BY <2>1, <2>2
<1>8. CASE DispatchAnnounce
  BY <1>8, <1>t, MovesByAnswer, SendKept DEF DispatchAnnounce
<1> QED BY <1>1, <1>2, <1>3, <1>4, <1>5, <1>6, <1>7, <1>8 DEF DispatchStep

LEMMA SendStep == ASSUME TypeOK, SendInv, [Next]_vars PROVE SendInv'
BY SendDispatch, DispatchFrame, SendKept

LEMMA SendInvariant == Spec => []SendInv
<1>1. Init => SendInv
  BY DEF Init, SendInv, Idle
<1> QED BY <1>1, SendStep, TypeCorrect, PTL DEF Spec

\* However often _dispatch dies and is invoked again, and whatever was lost or rejected on
\* the way, SQS accepts at most one message for each partition.
THEOREM SentOnce == Spec => []SentAtMostOnce
<1>1. SendInv => SentAtMostOnce
  BY DEF SendInv, SentAtMostOnce
<1> QED BY <1>1, SendInvariant, PTL

-----------------------------------------------------------------------------
(* The capacity proof: what _finalize read still holds when it is left.    *)

Backed == CompletedSet = Partitions /\ \A p \in Partitions : manifest[p] = parts[p].sha

ProofInv ==
    /\ creator = "starting" => wf = "NotStarted" /\ call.pc = "idle"
    /\ call.pc \in {"publish", "release_done", "proof"} => Backed /\ wf = "FinalizeRun"
    /\ call.pc \in {"release_done", "proof"} => run.status \in Done \cup {"failed"}
    /\ proof => /\ Backed /\ run.status \in Done \cup {"failed"}
                /\ wf \in {"FinalizeRun", "RecordWorkflowFailure"} \cup Ends
                /\ call.pc \notin {"cancel", "aggregate"}

\* Where the steps of an invocation leave it.
LEMMA GotoPc ==
    ASSUME TypeOK, NEW pc \in CallPcs, Goto(pc) PROVE call'.pc = pc /\ UNCHANGED wf
BY DEF TypeOK, Goto, CallRecord

LEMMA AnswerPc ==
    ASSUME NEW next, Return(next) PROVE call'.pc = "idle" /\ wf' \in {next, wf, OnError}
BY DEF Return, Idle

LEMMA RaisePc ==
    ASSUME Raise PROVE call'.pc = "idle" /\ wf' = OnError
BY DEF Raise, Idle

LEMMA DispatchPcs ==
    ASSUME TypeOK, DispatchStep
    PROVE  /\ wf = "DispatchPartitions"
           /\ call'.pc \in {"idle", "init", "ledger", "mark", "send", "ack", "announce"}
           /\ wf' \in {"DispatchPartitions", "CheckPartitions", "RecordWorkflowFailure"}
           /\ UNCHANGED <<proof, manifest, creator, athena, late>>
<1> USE DEF At, OnError, objects, ledger
<1>c. call \in CallRecord
  BY DEF TypeOK
<1>p. {"init", "ledger", "mark", "send", "ack", "announce"} \subseteq CallPcs
  BY DEF CallPcs
<1>1. CASE DispatchRead
  BY <1>1, AnswerPc DEF DispatchRead, Idle
<1>2. CASE DispatchInit
  BY <1>2, <1>p, GotoPc, AnswerPc DEF DispatchInit
<1>3. CASE DispatchLedger
  BY <1>3, <1>c, RaisePc DEF DispatchLedger, CallRecord
<1>4. CASE DispatchMark
  BY <1>4, <1>c, RaisePc DEF DispatchMark, CallRecord
<1>5. CASE DispatchSend
  BY <1>5, <1>c DEF DispatchSend, CallRecord
<1>6. CASE DispatchAck
  BY <1>6, <1>c DEF DispatchAck, CallRecord
<1>7. CASE DispatchNext
  BY <1>7, <1>c, RaisePc DEF DispatchNext, CallRecord
<1>8. CASE DispatchAnnounce
  BY <1>8, AnswerPc DEF DispatchAnnounce
<1> QED BY <1>1, <1>2, <1>3, <1>4, <1>5, <1>6, <1>7, <1>8 DEF DispatchStep

LEMMA BackedStays ==
    ASSUME TypeOK, [Next]_vars, Backed, UNCHANGED manifest PROVE Backed'
<1>1. CASE SameFinished
  BY <1>1 DEF SameFinished, Backed, CompletedSet
<1>2. ASSUME NEW w \in Workers, Completes(w) \/ Fails(w) PROVE FALSE
  <2>1. workers[w].part \in Partitions /\ PartOpen(workers[w].part)
    BY <1>2, CompletesEffect, FailsEffect
  <2> QED BY <2>1 DEF Backed, CompletedSet, PartOpen, FinishedPart
<1> QED BY <1>1, <1>2, LedgerStep

\* A step that sets no status, or one that only writes "failed", of a program that neither
\* leaves a proof nor moves the invocation.
LEMMA ProofKept ==
    ASSUME TypeOK, [Next]_vars, ProofInv, UNCHANGED <<proof, manifest, call, wf>>,
           run'.status \in {run.status, "failed"}, creator' = "starting" => creator = "starting"
    PROVE  ProofInv'
BY BackedStays DEF ProofInv

LEMMA CommitStatus ==
    ASSUME TypeOK, NEW w \in Workers, Commit(w) PROVE run'.status = run.status
<1> DEFINE p == workers[w].part
<1>1. CASE PartOpen(p) /\ RunOpen
  <2>1. run' = [run EXCEPT !.completed = @ + 1, !.generated = @ + Rows[p],
                           !.curated = @ + Valid(p), !.quarantined = @ + Bad[p]]
    BY <1>1 DEF Commit
  <2> HIDE DEF p
  <2> QED BY <2>1 DEF TypeOK, RunRecord
<1>2. CASE ~(PartOpen(p) /\ RunOpen)
  BY <1>2 DEF Commit
<1> QED BY <1>1, <1>2

LEMMA WorkerProofFrame ==
    ASSUME TypeOK, NEW w \in Workers, WorkerStep(w) \/ WorkerRaises(w) \/ WorkerDies(w)
    PROVE  UNCHANGED <<proof, manifest, call, wf, creator, athena, late>> /\ run'.status = run.status
<1> USE DEF WorkerOnly, control
<1>1. CASE ReadRun(w) \/ MarkRunning(w) \/ WritePartitionFiles(w) \/ WorkerRaises(w) \/ WorkerDies(w)
  BY <1>1 DEF ReadRun, MarkRunning, WritePartitionFiles, WorkerRaises, WorkerDies
<1>2. CASE Commit(w)
  BY <1>2, CommitStatus DEF Commit
<1>3. CASE MarkFailed(w)
  BY <1>3 DEF MarkFailed, TypeOK, RunRecord
<1> QED BY <1>1, <1>2, <1>3 DEF WorkerStep

LEMMA WorkflowProofStep == ASSUME TypeOK, ProofInv, [Next]_vars, WorkflowStep PROVE ProofInv'
<1> USE DEF At, ledger, objects
<1>t. /\ EndFor(run.status) \in Ends /\ AthenaEnd \in Ends /\ "RunCompleted" \in Ends
      /\ wf \in {"FinalizeRun", "RecordWorkflowFailure"} \cup Ends =>
           OnError \in {"FinalizeRun", "RecordWorkflowFailure"} \cup Ends
  BY DEF EndFor, AthenaEnd, Ends, OnError
<1>p. {"cancel", "fail", "aggregate", "store", "publish", "proof",
       "release_cancel", "release_fail", "release_done"} \subseteq CallPcs
  BY DEF CallPcs
<1>r. run \in RunRecord /\ call \in CallRecord
  BY DEF TypeOK
<1>s. \A s : SetStatus(s) => run'.status = s
  BY <1>r DEF SetStatus, RunRecord
<1>d. Done \cap (Accepting \cup {"aggregating", "canceling"}) = {} /\ Done \subseteq Terminal
      /\ "failed" \in Terminal /\ "canceling" \notin Terminal /\ "failed" \notin Accepting
  BY DEF Done, Accepting, Terminal
<1>c. UNCHANGED creator
  <2>1. CASE DispatchStep
    BY <2>1, DispatchPcs
  <2>2. CASE ~DispatchStep
    BY <2>2 DEF WorkflowStep, CheckRead, CheckAggregate, AthenaStart, AthenaStore, AthenaCheck,
                FinalizeEvidence, FinalizePublish, FinalizeProof, RecordCancel, RecordFailure,
                CallReleases
  <2> QED BY <2>1, <2>2
<1>b. creator # "starting"
  BY DEF ProofInv, WorkflowStep, DispatchStep, DispatchRead, DispatchInit, DispatchLedger,
         DispatchMark, DispatchSend, DispatchAck, DispatchNext, DispatchAnnounce, CheckRead,
         CheckAggregate, AthenaStart, AthenaStore, AthenaCheck, FinalizeEvidence,
         FinalizePublish, FinalizeProof, RecordCancel, RecordFailure, CallReleases
<1> SUFFICES /\ call'.pc \in {"publish", "release_done", "proof"} => Backed' /\ wf' = "FinalizeRun"
             /\ call'.pc \in {"release_done", "proof"} => run'.status \in Done \cup {"failed"}
             /\ proof' => /\ Backed' /\ run'.status \in Done \cup {"failed"}
                          /\ wf' \in {"FinalizeRun", "RecordWorkflowFailure"} \cup Ends
                          /\ call'.pc \notin {"cancel", "aggregate"}
  BY <1>b, <1>c DEF ProofInv
<1>1. CASE DispatchStep
  BY <1>1, DispatchPcs DEF ProofInv, Ends
<1>2. CASE CheckRead \/ CheckAggregate
  <2>1. ~proof /\ UNCHANGED proof
    BY <1>2 DEF CheckRead, CheckAggregate, ProofInv, Ends
  <2>2. call'.pc \in {"idle", "cancel", "fail", "aggregate"}
    BY <1>2, <1>p, GotoPc, AnswerPc DEF CheckRead, CheckAggregate
  <2> QED BY <2>1, <2>2
<1>3. CASE AthenaStart \/ AthenaStore \/ AthenaCheck
  <2>1. ~proof /\ UNCHANGED proof
    BY <1>3 DEF AthenaStart, AthenaStore, AthenaCheck, ProofInv, Ends
  <2>2. call'.pc \in {"idle", "cancel", "fail", "store"}
    BY <1>3, <1>p, GotoPc, AnswerPc, RaisePc
       DEF AthenaStart, AthenaStore, AthenaCheck, LeftAggregation
  <2> QED BY <2>1, <2>2
<1>4. CASE FinalizeEvidence
  <2>0. UNCHANGED <<run, parts, proof>> /\ wf = "FinalizeRun"
    BY <1>4 DEF FinalizeEvidence
  <2>1. CASE run.status \in Terminal
    <3>1. Return(EndFor(run.status)) /\ UNCHANGED manifest
      BY <1>4, <1>d, <2>1 DEF FinalizeEvidence
    <3> QED BY <3>1, <2>0, <1>t, AnswerPc, BackedStays DEF ProofInv
  <2>2. CASE run.status = "canceling"
    BY <1>4, <1>p, <1>d, <2>0, <2>2, GotoPc DEF FinalizeEvidence, ProofInv
  <2>3. CASE run.status \notin Terminal \cup {"canceling"}
    <3>1. ~proof
      BY <2>3, <1>d DEF ProofInv
    <3>2. CASE Raise
      BY <3>1, <3>2, <2>0, RaisePc
    <3>3. CASE ~Raise
      <4>1. /\ \A p \in Partitions : parts[p].status = "completed"
            /\ manifest' = [p \in Partitions |-> ManifestEntry(p)]
            /\ Goto("publish") \/ Goto("fail")
        BY <1>4, <2>3, <3>3 DEF FinalizeEvidence
      <4>2. Backed'
        BY <2>0, <4>1 DEF Backed, CompletedSet, ManifestEntry
      <4> QED BY <4>1, <4>2, <2>0, <3>1, <1>p, GotoPc
    <3> QED BY <3>2, <3>3
  <2> QED BY <2>1, <2>2, <2>3
<1>5. CASE FinalizePublish
  <2>0. Backed /\ wf = "FinalizeRun" /\ UNCHANGED <<proof, manifest>>
    BY <1>5 DEF FinalizePublish, ProofInv
  <2>1. Backed'
    BY <2>0, BackedStays
  <2>2. CASE run.status = "aggregating"
    <3>1. run'.status \in Done /\ Goto("release_done") /\ ~proof
      BY <1>5, <1>s, <1>d, <2>2 DEF FinalizePublish, ProofInv, Done
    <3> QED BY <3>1, <2>0, <2>1, <1>p, GotoPc
  <2>3. CASE run.status # "aggregating"
    <3>1. UNCHANGED run /\ call'.pc \in {"idle", "cancel"}
      BY <1>5, <1>p, <2>3, GotoPc, AnswerPc, RaisePc DEF FinalizePublish, LeftAggregation
    <3>2. proof => LeftAggregation(EndFor(run.status)) /\ run.status \in Terminal /\ run.status # "canceling"
      BY <1>5, <1>d, <2>3 DEF FinalizePublish, ProofInv
    <3>3. proof => Return(EndFor(run.status))
      BY <3>2 DEF LeftAggregation
    <3> QED BY <3>1, <3>3, <2>0, <2>1, <1>t, AnswerPc DEF ProofInv
  <2> QED BY <2>2, <2>3
<1>6. CASE FinalizeProof
  <2>0. Backed /\ run.status \in Done \cup {"failed"} /\ UNCHANGED <<run, manifest>>
    BY <1>6 DEF FinalizeProof, ProofInv
  <2> QED BY <1>6, <2>0, <1>t, AnswerPc, BackedStays DEF FinalizeProof
<1>7. CASE RecordCancel
  BY <1>7, <1>p, GotoPc DEF RecordCancel, ProofInv
<1>8. CASE RecordFailure
  BY <1>8, <1>p, <1>s, GotoPc, BackedStays DEF RecordFailure, ProofInv
<1>9. CASE CallReleases
  <2>0. UNCHANGED <<run, manifest, proof>>
    BY <1>9 DEF CallReleases
  <2>1. CASE call.pc = "release_done"
    BY <1>9, <2>0, <2>1, <1>p, GotoPc, BackedStays DEF CallReleases, ProofInv
  <2>2. CASE call.pc # "release_done"
    <3>1. call'.pc = "idle" /\ wf' = AfterRelease
      BY <1>9, <2>2 DEF CallReleases, Idle
    <3>2. wf # "StartAthenaConversion" => wf' \in Ends
      BY <3>1 DEF AfterRelease, Ends
    <3> QED BY <2>0, <3>1, <3>2, BackedStays DEF ProofInv, Ends
  <2> QED BY <2>1, <2>2
<1> QED BY <1>1, <1>2, <1>3, <1>4, <1>5, <1>6, <1>7, <1>8, <1>9 DEF WorkflowStep

LEMMA ProofStep == ASSUME TypeOK, ProofInv, [Next]_vars PROVE ProofInv'
<1> USE DEF ledger, objects, control
<1>s. \A s : SetStatus(s) => run'.status = s
  BY DEF SetStatus, TypeOK, RunRecord
<1>1. CASE StartExecution
  BY <1>1, BackedStays DEF StartExecution, ProofInv, Ends
<1>2. CASE RecordStart \/ CreatorReleases \/ StartFails \/ CreatorDies
  BY <1>2, ProofKept DEF RecordStart, CreatorReleases, StartFails, CreatorDies
<1>3. CASE RecordStartFailure
  BY <1>3, <1>s, ProofKept DEF RecordStartFailure
<1>4. CASE InvocationFails
  <2>1. /\ call'.pc = "idle" /\ wf' \in {wf, OnError} /\ wf \in Tasks
        /\ UNCHANGED <<run, proof, manifest, creator>>
    BY <1>4 DEF InvocationFails, Idle
  <2>2. wf \in {"FinalizeRun", "RecordWorkflowFailure"} \cup Ends =>
           OnError \in {"FinalizeRun", "RecordWorkflowFailure"} \cup Ends
    BY DEF OnError, Ends
  <2>3. wf # "NotStarted"
    BY <2>1 DEF Tasks
  <2> QED BY <2>1, <2>2, <2>3, BackedStays DEF ProofInv
<1>5. CASE ExecutionTimesOut
  BY <1>5, BackedStays DEF ExecutionTimesOut, ProofInv, Ends, Idle
<1>6. CASE Cancel
  <2>1. ~proof /\ call.pc \notin {"release_done", "proof"}
    BY <1>6 DEF Cancel, ProofInv, Terminal
  <2> QED BY <1>6, <2>1, BackedStays DEF Cancel, ProofInv
<1>7. CASE DeadlinePasses \/ AthenaSucceeds \/ AthenaFails \/ ForeignPoison
  BY <1>7, ProofKept DEF DeadlinePasses, AthenaSucceeds, AthenaFails, ForeignPoison
<1>8. ASSUME NEW w \in Workers, WorkerStep(w) \/ WorkerRaises(w) \/ WorkerDies(w)
      PROVE  ProofInv'
  BY <1>8, WorkerProofFrame, ProofKept
<1>9. ASSUME NEW p \in Partitions,
             Redeliver(p) \/ \E w \in Workers : Receive(w, p) \/ ReceiveDuplicate(w, p)
      PROVE  ProofInv'
  BY <1>9, ProofKept DEF Redeliver, Receive, ReceiveDuplicate, WorkerOnly
<1>10. CASE UNCHANGED vars
  BY <1>10, ProofKept DEF vars
<1> QED BY <1>1, <1>2, <1>3, <1>4, <1>5, <1>6, <1>7, <1>8, <1>9, <1>10, WorkflowProofStep
        DEF Next, CreatorStep

LEMMA ProofInvariant == Spec => []ProofInv
<1>1. Init => ProofInv
  BY DEF Init, ProofInv, Idle
<1> QED BY <1>1, ProofStep, TypeCorrect, PTL DEF Spec

\* A capacity proof, which unlocks the larger profile, is left by a run that committed every
\* partition and whose manifest names what it committed, and the run is never canceled after it.
THEOREM ProofBacked == Spec => []ProofIsBacked
<1>1. ProofInv => ProofIsBacked
  BY DEF ProofInv, ProofIsBacked, Backed
<1> QED BY <1>1, ProofInvariant, PTL

-----------------------------------------------------------------------------
(* What makes a run fail: nothing that an older run left in the queue.     *)

Closing == Terminal \cup {"canceling"}

\* A message whose send was not accepted is nowhere, and the one that a worker holds has not
\* been redriven.
QueueInv ==
    /\ \A p \in Partitions : sends[p] = 0 => msgs[p] = "unsent"
    /\ \A w \in Workers : workers[w].pc # "idle" =>
          msgs[workers[w].part] \notin {"unsent", "dlq"}

\* How far the run is when the workflow gets to a state.
StageInv ==
    /\ run.total \in {0, Cardinality(Partitions)}
    /\ call.pc = "aggregate" \/ run.status = "aggregating" =>
          run.total = Cardinality(Partitions) /\ CompletedSet = Partitions
    /\ wf \in {"StartAthenaConversion", "CheckAthena", "FinalizeRun"} => run.status \notin Accepting
    /\ wf = "CheckAthena" => run.queries \/ run.status \in Closing
    /\ wf \in {"NotStarted", "DispatchPartitions", "CheckPartitions"} => athena = "none"
    /\ athena = "failed" => faults > 0 \/ run.status \in Closing
    /\ faults = 0 /\ wf \in {"NotStarted", "DispatchPartitions"}
         /\ call.pc \in {"idle", "init", "ledger"} =>
          \A p \in Partitions : parts[p].dispatch # "dispatching"
    /\ call.pc \in {"release_cancel", "release_fail"} => run.status \in Terminal

\* The baseline that dispatch recorded covers what older runs had left by then.
HasBaseline == run.baseline # NoBaseline

BaselineInv ==
    /\ faults = 0 /\ call.pc = "init" => call.dlq >= foreign - arrivals
    /\ faults = 0 /\ HasBaseline => run.baseline >= foreign - arrivals
    /\ \/ call.pc \in {"ledger", "mark", "send", "ack", "announce", "aggregate"}
       \/ run.status = "aggregating"
       => HasBaseline
    /\ wf = "CheckPartitions" => HasBaseline \/ run.status \in Closing

OwnCause == \/ late \/ faults > 0
            \/ \E p \in Partitions : parts[p].status = "failed" \/ msgs[p] = "dlq"
Cause    == OwnCause \/ arrivals > 0

CauseInv ==
    /\ run.status = "failed" => Cause
    /\ creator \in {"failing", "releasing"} => faults > 0
    /\ call.pc = "fail" \/ wf = "RecordWorkflowFailure" => Cause
    /\ call.rejected => faults > 0

\* No step takes back a fault, the deadline or the arrival of a message.
Grows == /\ faults' \in {faults, faults + 1} /\ (late => late')
         /\ arrivals' \in {arrivals, arrivals + 1}

LEMMA AnswerFaults == ASSUME NEW next, Return(next) PROVE faults' \in {faults, faults + 1}
BY DEF Return, Fault

LEMMA LeftFaults == ASSUME NEW next, LeftAggregation(next) PROVE faults' \in {faults, faults + 1}
BY AnswerFaults DEF LeftAggregation, Raise

LEMMA MarksGrow == ASSUME DispatchMark \/ DispatchAck \/ DispatchLedger \/ DispatchNext PROVE Grows
<1>1. CASE DispatchMark
  BY <1>1 DEF DispatchMark, Raise, queue, Grows
<1>2. CASE DispatchAck
  BY <1>2 DEF DispatchAck, queue, Grows
<1>3. CASE DispatchLedger
  BY <1>3 DEF DispatchLedger, Raise, queue, Grows
<1>4. CASE DispatchNext
  BY <1>4 DEF DispatchNext, Raise, queue, Grows
<1> QED BY <1>1, <1>2, <1>3, <1>4

LEMMA WorkflowGrows == ASSUME WorkflowStep PROVE Grows
<1> USE AnswerFaults, LeftFaults DEF queue, Grows
<1>1. CASE DispatchRead \/ DispatchInit
  BY <1>1 DEF DispatchRead, DispatchInit, Fault
<1>2. CASE DispatchMark \/ DispatchAck \/ DispatchLedger \/ DispatchNext
  BY <1>2, MarksGrow
<1>3. CASE DispatchSend
  BY <1>3 DEF DispatchSend, Fault
<1>4. CASE DispatchAnnounce
  BY <1>4 DEF DispatchAnnounce
<1>5. CASE CheckRead
  BY <1>5 DEF CheckRead, Fault
<1>6. CASE CheckAggregate \/ AthenaStart \/ AthenaStore
  BY <1>6 DEF CheckAggregate, AthenaStart, AthenaStore
<1>7. CASE AthenaCheck \/ FinalizeEvidence
  BY <1>7 DEF AthenaCheck, FinalizeEvidence, Raise
<1>8. CASE FinalizePublish \/ FinalizeProof
  BY <1>8 DEF FinalizePublish, FinalizeProof
<1>9. CASE RecordCancel \/ RecordFailure
  BY <1>9 DEF RecordCancel, RecordFailure
<1>10. CASE CallReleases
  BY <1>10 DEF CallReleases, ReleaseLock, Fault
<1> QED BY <1>1, <1>2, <1>3, <1>4, <1>5, <1>6, <1>7, <1>8, <1>9, <1>10
        DEF WorkflowStep, DispatchStep

LEMMA WorldGrows == ASSUME [Next]_vars PROVE Grows
<1> USE DEF queue, control, Grows, Fault
<1>1. CASE StartExecution \/ RecordStart \/ RecordStartFailure \/ StartFails \/ CreatorDies
  BY <1>1 DEF StartExecution, RecordStart, RecordStartFailure, StartFails, CreatorDies
<1>2. CASE CreatorReleases
  BY <1>2 DEF CreatorReleases, ReleaseLock
<1>3. CASE InvocationFails \/ ExecutionTimesOut \/ Cancel \/ DeadlinePasses
           \/ AthenaSucceeds \/ AthenaFails \/ ForeignPoison
  BY <1>3 DEF InvocationFails, ExecutionTimesOut, Cancel, DeadlinePasses,
              AthenaSucceeds, AthenaFails, ForeignPoison
<1>4. ASSUME NEW w \in Workers, WorkerStep(w) \/ WorkerRaises(w) \/ WorkerDies(w) PROVE Grows
  BY <1>4 DEF WorkerStep, ReadRun, MarkRunning, WritePartitionFiles, Commit, MarkFailed,
              WorkerRaises, WorkerDies, WorkerOnly
<1>5. ASSUME NEW p \in Partitions,
             Redeliver(p) \/ \E w \in Workers : Receive(w, p) \/ ReceiveDuplicate(w, p)
      PROVE  Grows
  BY <1>5 DEF Redeliver, Receive, ReceiveDuplicate, WorkerOnly
<1>6. CASE UNCHANGED vars
  BY <1>6 DEF vars
<1> QED BY <1>1, <1>2, <1>3, <1>4, <1>5, <1>6, WorkflowGrows DEF Next, CreatorStep

\* What the steps do to the messages.
LEMMA QueueKept ==
    ASSUME QueueInv, UNCHANGED <<msgs, sends, workers>>
    PROVE  QueueInv' /\ \A p \in Partitions : msgs[p] = "dlq" => msgs'[p] = "dlq"
BY DEF QueueInv

LEMMA AckQueue ==
    ASSUME TypeOK, QueueInv, NEW w \in Workers, workers[w].pc # "idle",
           Ack(w) \/ GiveUp(w) \/ \E pc \in {"admitted", "running", "written", "failing"} : Advance(w, pc),
           UNCHANGED sends
    PROVE  QueueInv' /\ \A p \in Partitions : msgs[p] = "dlq" => msgs'[p] = "dlq"
<1> DEFINE p == workers[w].part
<1>0. /\ p \in Partitions /\ msgs[p] \notin {"unsent", "dlq"}
      /\ workers \in [Workers -> WorkerRecord] /\ MsgsType
      /\ \A v \in Workers : workers[v].pc # "idle" => workers[v].part \in Partitions
  BY DEF TypeOK, WorkersType, QueueInv, QueueType, MsgsType
<1>1. /\ \A v \in Workers \ {w} : workers'[v] = workers[v]
      /\ workers'[w].pc # "idle" => workers'[w].part = p
  BY <1>0 DEF Ack, GiveUp, Advance, IdleWorker, WorkerRecord
<1>2. msgs' = msgs \/ msgs' = [msgs EXCEPT ![p] = "deleted"]
  BY DEF Ack, GiveUp, Advance
<1>3. \A q \in Partitions : msgs'[q] = msgs[q] \/ (q = p /\ msgs'[q] = "deleted")
  BY <1>0, <1>2 DEF MsgsType
<1> HIDE DEF p
<1> QED BY <1>0, <1>1, <1>3 DEF QueueInv

LEMMA WorkerQueue ==
    ASSUME TypeOK, QueueInv, NEW w \in Workers, WorkerStep(w) \/ WorkerRaises(w) \/ WorkerDies(w)
    PROVE  QueueInv' /\ \A p \in Partitions : msgs[p] = "dlq" => msgs'[p] = "dlq"
<1>1. UNCHANGED sends /\ workers[w].pc # "idle"
  BY DEF WorkerStep, ReadRun, MarkRunning, WritePartitionFiles, Commit, MarkFailed,
         WorkerRaises, WorkerDies, WorkerOnly
<1>2. Ack(w) \/ GiveUp(w) \/ \E pc \in {"admitted", "running", "written", "failing"} : Advance(w, pc)
  BY DEF WorkerStep, ReadRun, MarkRunning, WritePartitionFiles, Commit, MarkFailed,
         WorkerRaises, WorkerDies, HandlerError
<1> QED BY <1>1, <1>2, AckQueue

LEMMA QueueMoves ==
    ASSUME TypeOK, SendInv, QueueInv, [Next]_vars
    PROVE  QueueInv' /\ \A p \in Partitions : msgs[p] = "dlq" => msgs'[p] = "dlq"
<1> USE DEF queue, control, ledger, objects
<1>t. MsgsType /\ workers \in [Workers -> WorkerRecord] /\ sends \in [Partitions -> Nat]
  BY DEF TypeOK, WorkersType, QueueType, MsgsType
<1>1. CASE CreatorStep \/ StartFails \/ CreatorDies
  BY <1>1, QueueKept DEF CreatorStep, StartExecution, RecordStart, RecordStartFailure,
              CreatorReleases, StartFails, CreatorDies
<1>2. CASE InvocationFails \/ ExecutionTimesOut \/ Cancel \/ DeadlinePasses
           \/ AthenaSucceeds \/ AthenaFails \/ ForeignPoison
  BY <1>2, QueueKept DEF InvocationFails, ExecutionTimesOut, Cancel, DeadlinePasses,
              AthenaSucceeds, AthenaFails, ForeignPoison
<1>3. CASE WorkflowStep /\ ~DispatchSend
  BY <1>3, QueueKept DEF WorkflowStep, DispatchStep, DispatchRead, DispatchInit, DispatchLedger,
         DispatchMark, DispatchAck, DispatchNext, DispatchAnnounce, CheckRead,
         CheckAggregate, AthenaStart, AthenaStore, AthenaCheck, FinalizeEvidence,
         FinalizePublish, FinalizeProof, RecordCancel, RecordFailure, CallReleases
<1>4. CASE DispatchSend
  <2>1. PICK sent \in SUBSET call.batch :
          /\ msgs'  = [p \in Partitions |-> IF p \in sent THEN "visible" ELSE msgs[p]]
          /\ sends' = [p \in Partitions |-> IF p \in sent THEN sends[p] + 1 ELSE sends[p]]
    BY <1>4 DEF DispatchSend
  <2>2. UNCHANGED workers /\ call.sent = {} /\ call.batch \subseteq Partitions
    BY <1>4 DEF DispatchSend, At, SendInv, TypeOK, CallRecord
  <2>3. \A p \in sent : msgs[p] = "unsent" /\ msgs'[p] = "visible" /\ sends'[p] > 0
    BY <1>t, <2>1, <2>2 DEF SendInv, QueueInv
  <2>4. \A p \in Partitions \ sent : msgs'[p] = msgs[p] /\ sends'[p] = sends[p]
    BY <2>1
  <2>5. \A w \in Workers : workers[w].pc # "idle" => workers[w].part \in Partitions
    BY DEF TypeOK, WorkersType
  <2> QED BY <2>2, <2>3, <2>4, <2>5 DEF QueueInv
<1>5. ASSUME NEW w \in Workers, WorkerStep(w) \/ WorkerRaises(w) \/ WorkerDies(w)
      PROVE  QueueInv' /\ \A p \in Partitions : msgs[p] = "dlq" => msgs'[p] = "dlq"
  BY <1>5, WorkerQueue
<1>6. ASSUME NEW p \in Partitions, NEW w \in Workers, Receive(w, p) \/ ReceiveDuplicate(w, p)
      PROVE  QueueInv' /\ \A q \in Partitions : msgs[q] = "dlq" => msgs'[q] = "dlq"
  <2>1. /\ msgs[p] \in {"visible", "inflight", "deleted"}
        /\ msgs' = msgs \/ (msgs' = [msgs EXCEPT ![p] = "inflight"])
        /\ workers' = [workers EXCEPT ![w] = [pc |-> "received", part |-> p, rc |-> receives[p] + 1]]
        /\ UNCHANGED sends
    BY <1>6 DEF Receive, ReceiveDuplicate, Deliver, WorkerOnly
  <2>2. \A v \in Workers \ {w} : workers'[v] = workers[v]
    BY <1>t, <2>1
  <2>3. workers'[w].part = p
    BY <1>t, <2>1
  <2>4. \A q \in Partitions : msgs'[q] = msgs[q] \/ (q = p /\ msgs'[q] = "inflight")
    BY <1>t, <2>1 DEF MsgsType
  <2>5. \A v \in Workers : workers[v].pc # "idle" => workers[v].part \in Partitions
    BY DEF TypeOK, WorkersType
  <2> QED BY <2>1, <2>2, <2>3, <2>4, <2>5 DEF QueueInv
<1>7. ASSUME NEW p \in Partitions, Redeliver(p)
      PROVE  QueueInv' /\ \A q \in Partitions : msgs[q] = "dlq" => msgs'[q] = "dlq"
  <2>1. /\ msgs[p] = "inflight" /\ \A w \in Workers : workers[w].part # p
        /\ msgs' = [msgs EXCEPT ![p] = IF receives[p] >= MaxReceive THEN "dlq" ELSE "visible"]
        /\ UNCHANGED <<sends, workers>>
    BY <1>7 DEF Redeliver, WorkerOnly
  <2>2. \A q \in Partitions : msgs'[q] = msgs[q] \/ (q = p /\ msgs'[q] \in {"dlq", "visible"})
    BY <1>t, <2>1 DEF MsgsType
  <2>3. \A v \in Workers : workers[v].pc # "idle" => workers[v].part \in Partitions
    BY DEF TypeOK, WorkersType
  <2> QED BY <2>1, <2>2, <2>3 DEF QueueInv
<1>8. CASE UNCHANGED vars
  BY <1>8, QueueKept DEF vars
<1> QED BY <1>1, <1>2, <1>3, <1>4, <1>5, <1>6, <1>7, <1>8 DEF Next

LEMMA FailedStays ==
    ASSUME TypeOK, [Next]_vars, NEW p \in Partitions, parts[p].status = "failed"
    PROVE  parts'[p].status = "failed"
<1>1. CASE SameFinished
  BY <1>1 DEF SameFinished
<1>2. ASSUME NEW w \in Workers, Completes(w) \/ Fails(w) PROVE parts'[p].status = "failed"
  <2>1. PartOpen(workers[w].part)
    BY <1>2, CompletesEffect, FailsEffect
  <2>2. p # workers[w].part
    BY <2>1 DEF PartOpen, FinishedPart
  <2> QED BY <1>2, <2>2, CompletesEffect, FailsEffect
<1> QED BY <1>1, <1>2, LedgerStep

LEMMA CauseStays ==
    ASSUME TypeOK, SendInv, QueueInv, [Next]_vars, Cause PROVE Cause'
<1>1. faults \in Nat /\ arrivals \in Nat
  BY DEF TypeOK, EnvType, QueueType
<1>2. late => late'
  BY WorldGrows DEF Grows
<1>3. faults > 0 => faults' > 0
  BY <1>1, WorldGrows DEF Grows
<1>4. arrivals > 0 => arrivals' > 0
  BY <1>1, WorldGrows DEF Grows
<1>5. \A p \in Partitions : parts[p].status = "failed" => parts'[p].status = "failed"
  BY FailedStays
<1>6. \A p \in Partitions : msgs[p] = "dlq" => msgs'[p] = "dlq"
  BY QueueMoves
<1> QED BY <1>2, <1>3, <1>4, <1>5, <1>6 DEF Cause, OwnCause

\* What the steps of the workflow do, field by field.
SameMeta     == /\ run'.status = run.status /\ run'.total = run.total
                /\ run'.baseline = run.baseline /\ run'.queries = run.queries
SameDispatch == \A p \in Partitions : parts'[p].dispatch = parts[p].dispatch
SameForeign  == UNCHANGED <<foreign, arrivals>>

Moves(pc)     == /\ call'.pc = pc /\ call'.dlq = call.dlq /\ call'.rejected = call.rejected
                 /\ wf' = wf /\ faults' = faults
Answers(next) == /\ call'.pc = "idle" /\ ~call'.rejected
                 /\ \/ wf' = next /\ faults' = faults
                    \/ faults' > 0 /\ wf' \in {wf, OnError}
Raises        == call'.pc = "idle" /\ ~call'.rejected /\ wf' = OnError /\ faults' = faults

LEMMA MovesEffect ==
    ASSUME TypeOK, NEW pc \in CallPcs, Goto(pc), UNCHANGED faults PROVE Moves(pc)
BY DEF TypeOK, Goto, CallRecord, Moves

LEMMA AnswersEffect == ASSUME TypeOK, NEW next, Return(next) PROVE Answers(next)
BY DEF TypeOK, EnvType, Return, Fault, Idle, Answers

LEMMA RaisesEffect == ASSUME Raise PROVE Raises
BY DEF Raise, Idle, Raises

LEMMA SetStatusEffect ==
    ASSUME TypeOK, NEW s, SetStatus(s)
    PROVE  /\ run'.status = s /\ run'.total = run.total
           /\ run'.baseline = run.baseline /\ run'.queries = run.queries
BY DEF TypeOK, SetStatus, RunRecord

LEMMA DispatchReadEffect ==
    ASSUME TypeOK, DispatchRead
    PROVE  /\ wf = "DispatchPartitions" /\ call.pc = "idle"
           /\ SameMeta /\ SameDispatch /\ SameForeign /\ UNCHANGED <<athena, creator>>
           /\ \/ run.status \in Closing /\ Answers("CheckPartitions")
              \/ /\ run.status \notin Closing
                 /\ call'.pc = "init" /\ ~call'.rejected /\ wf' = wf
                 /\ (call'.dlq = DlqCount /\ faults' = faults) \/ faults' > 0
<1>1. CASE Return("CheckPartitions") /\ run.status \in Terminal \cup {"canceling"}
  BY <1>1, AnswersEffect
     DEF DispatchRead, At, ledger, queue, SameMeta, SameDispatch, SameForeign, Closing
<1>2. CASE call' = [Idle EXCEPT !.pc = "init", !.dlq = DlqCount] /\ UNCHANGED <<wf, faults>>
            /\ run.status \notin Terminal \cup {"canceling"}
  <2>1. call'.pc = "init" /\ ~call'.rejected /\ call'.dlq = DlqCount
    BY <1>2 DEF Idle
  <2> QED BY <1>2, <2>1
          DEF DispatchRead, At, ledger, queue, SameMeta, SameDispatch, SameForeign, Closing
<1>3. CASE call' = [Idle EXCEPT !.pc = "init"] /\ Fault /\ UNCHANGED wf
            /\ run.status \notin Terminal \cup {"canceling"}
  <2>1. call'.pc = "init" /\ ~call'.rejected
    BY <1>3 DEF Idle
  <2>2. faults' > 0
    BY <1>3 DEF Fault, TypeOK, EnvType
  <2> QED BY <1>3, <2>1, <2>2
          DEF DispatchRead, At, ledger, queue, SameMeta, SameDispatch, SameForeign, Closing
<1> QED BY <1>1, <1>2, <1>3 DEF DispatchRead

LEMMA DispatchInitEffect ==
    ASSUME TypeOK, DispatchInit
    PROVE  /\ wf = "DispatchPartitions" /\ call.pc = "init"
           /\ SameDispatch /\ SameForeign /\ UNCHANGED <<athena, creator>>
           /\ run'.status = run.status
           /\ \/ /\ run.status \in Accepting
                 /\ run'.total = Cardinality(Partitions)
                 /\ run'.baseline = IF HasBaseline THEN run.baseline ELSE call.dlq
                 /\ run'.queries = run.queries
                 /\ Moves("ledger")
              \/ run.status \notin Accepting /\ SameMeta /\ Answers("CheckPartitions")
<1>0. "ledger" \in CallPcs
  BY DEF CallPcs
<1>1. CASE run.status \in Accepting
  <2>1. /\ run' = [run EXCEPT !.total = Cardinality(Partitions),
                              !.baseline = IF @ = NoBaseline THEN call.dlq ELSE @]
        /\ Goto("ledger") /\ UNCHANGED faults
    BY <1>1 DEF DispatchInit
  <2>2. /\ run'.total = Cardinality(Partitions) /\ run'.status = run.status
        /\ run'.baseline = IF HasBaseline THEN run.baseline ELSE call.dlq
        /\ run'.queries = run.queries
    BY <2>1 DEF TypeOK, RunRecord, HasBaseline
  <2> QED BY <1>0, <1>1, <2>1, <2>2, MovesEffect
          DEF DispatchInit, At, queue, SameDispatch, SameForeign
<1>2. CASE run.status \notin Accepting
  BY <1>2, AnswersEffect
     DEF DispatchInit, At, queue, SameMeta, SameDispatch, SameForeign
<1> QED BY <1>1, <1>2

LEMMA DispatchLedgerEffect ==
    ASSUME TypeOK, DispatchLedger
    PROVE  /\ wf = "DispatchPartitions" /\ call.pc = "ledger"
           /\ SameMeta /\ SameDispatch /\ SameForeign /\ UNCHANGED <<athena, creator>>
           /\ \/ Raises /\ \E p \in Partitions : parts[p].dispatch = "dispatching"
              \/ Moves("mark") \/ Moves("announce")
<1> DEFINE todo == {p \in Partitions : Pending(p)}
<1>1. /\ wf = "DispatchPartitions" /\ call.pc = "ledger"
      /\ SameMeta /\ SameForeign /\ UNCHANGED <<athena, creator>>
  BY DEF DispatchLedger, At, queue, SameMeta, SameForeign
<1>2. SameDispatch
  BY DEF DispatchLedger, TypeOK, RowRecord, SameDispatch
<1>3. CASE \E p \in Partitions : Uncertain(p)
  <2>1. Raise
    BY <1>3 DEF DispatchLedger
  <2> QED BY <1>1, <1>2, <1>3, <2>1, RaisesEffect DEF Uncertain
<1>4. CASE ~\E p \in Partitions : Uncertain(p)
  <2>1. /\ call' = [call EXCEPT !.todo = todo, !.pc = IF todo = {} THEN "announce" ELSE "mark"]
        /\ UNCHANGED <<wf, faults>>
    BY <1>4 DEF DispatchLedger
  <2> HIDE DEF todo
  <2>2. Moves(IF todo = {} THEN "announce" ELSE "mark")
    BY <2>1 DEF TypeOK, CallRecord, Moves
  <2> QED BY <1>1, <1>2, <2>2
<1> QED BY <1>3, <1>4

LEMMA DispatchMarkEffect ==
    ASSUME TypeOK, DispatchMark \/ DispatchAck
    PROVE  /\ wf = "DispatchPartitions" /\ call.pc \in {"mark", "ack"}
           /\ SameMeta /\ SameForeign /\ UNCHANGED <<athena, creator>>
           /\ \/ Moves("send") \/ Moves("ack")
              \/ Raises /\ \E p \in call.todo : ~Unsent(p)
<1>1. CASE DispatchMark
  <2>1. PICK batch \in SUBSET call.todo : Marks(batch)
    BY <1>1, MarkSteps
  <2>2. ASSUME \A p \in batch : Unsent(p) PROVE Moves("send")
    <3>1. /\ call' = [call EXCEPT !.pc = "send", !.batch = batch, !.todo = @ \ batch]
          /\ UNCHANGED <<wf, faults>>
      BY <2>1, <2>2 DEF Marks
    <3> QED BY <3>1 DEF TypeOK, CallRecord, Moves
  <2>3. ASSUME \E p \in batch : ~Unsent(p)
        PROVE  Raises /\ \E p \in call.todo : ~Unsent(p)
    BY <2>1, <2>3, RaisesEffect DEF Marks
  <2> QED BY <1>1, <2>2, <2>3 DEF DispatchMark, At, queue, SameMeta, SameForeign
<1>2. CASE DispatchAck
  <2>1. PICK p \in call.batch : call' = [call EXCEPT !.batch = @ \ {p}]
    BY <1>2 DEF DispatchAck
  <2>2. UNCHANGED <<wf, faults>> /\ call.pc = "ack"
    BY <1>2 DEF DispatchAck, At
  <2>3. Moves("ack")
    BY <2>1, <2>2 DEF TypeOK, CallRecord, Moves
  <2> QED BY <1>2, <2>3 DEF DispatchAck, At, queue, SameMeta, SameForeign
<1> QED BY <1>1, <1>2

LEMMA DispatchSendEffect ==
    ASSUME TypeOK, DispatchSend
    PROVE  /\ wf = "DispatchPartitions" /\ call.pc = "send"
           /\ SameMeta /\ SameForeign /\ UNCHANGED <<athena, creator>>
           /\ call'.pc = "ack" /\ wf' = wf
           /\ call'.rejected => faults' > 0
<1>1. PICK sent \in SUBSET call.batch :
          /\ IF sent = call.batch THEN UNCHANGED faults ELSE Fault
          /\ call'  = [call EXCEPT !.pc = "ack", !.sent = sent, !.rejected = (sent # call.batch)]
  BY DEF DispatchSend
<1>2. call'.pc = "ack" /\ (call'.rejected <=> sent # call.batch)
  BY <1>1 DEF TypeOK, CallRecord
<1>3. sent # call.batch => faults' > 0
  BY <1>1 DEF Fault, TypeOK, EnvType
<1> QED BY <1>2, <1>3 DEF DispatchSend, At, ledger, SameMeta, SameForeign

LEMMA DispatchNextEffect ==
    ASSUME TypeOK, DispatchNext
    PROVE  /\ wf = "DispatchPartitions" /\ call.pc = "ack"
           /\ SameMeta /\ SameForeign /\ UNCHANGED <<athena, creator>>
           /\ \/ Raises /\ call.rejected
              \/ Moves("mark") \/ Moves("announce")
<1>1. CASE call.rejected
  BY <1>1, RaisesEffect DEF DispatchNext, At, ledger, queue, SameMeta, SameForeign
<1>2. CASE ~call.rejected
  <2>1. /\ call' = [call EXCEPT !.sent = {}, !.pc = IF call.todo = {} THEN "announce" ELSE "mark"]
        /\ UNCHANGED <<wf, faults>>
    BY <1>2 DEF DispatchNext
  <2>2. Moves(IF call.todo = {} THEN "announce" ELSE "mark")
    BY <2>1 DEF TypeOK, CallRecord, Moves
  <2> QED BY <2>2 DEF DispatchNext, At, ledger, queue, SameMeta, SameForeign
<1> QED BY <1>1, <1>2

LEMMA DispatchAnnounceEffect ==
    ASSUME TypeOK, DispatchAnnounce
    PROVE  /\ wf = "DispatchPartitions" /\ call.pc = "announce"
           /\ SameForeign /\ UNCHANGED <<athena, creator>>
           /\ run'.total = run.total /\ run'.baseline = run.baseline /\ run'.queries = run.queries
           /\ \/ run.status \in Accepting /\ run'.status = "partitioning"
              \/ run.status \notin Accepting /\ run'.status = run.status
           /\ Answers("CheckPartitions")
BY AnswersEffect, SetStatusEffect DEF DispatchAnnounce, At, queue, SameForeign

LEMMA CheckReadEffect ==
    ASSUME TypeOK, CheckRead
    PROVE  /\ wf = "CheckPartitions" /\ call.pc = "idle"
           /\ SameMeta /\ SameDispatch /\ SameForeign /\ UNCHANGED <<athena, creator, parts, msgs, late>>
           /\ \/ Moves("cancel")
              \/ run.status \in Terminal /\ Answers(EndFor(run.status))
              \/ late /\ Moves("fail")
              \/ /\ run.status \notin Closing
                 /\ PoisonSeen(DlqCount) \/ faults' > 0
                 /\ call'.pc = "fail" /\ call'.rejected = call.rejected /\ wf' = wf
              \/ /\ run.status \notin Closing /\ AllCounted
                 /\ call'.pc = "aggregate" /\ call'.rejected = call.rejected /\ wf' = wf
              \/ UNCHANGED <<call, wf>>
<1> DEFINE pcs == {"cancel", "fail", "aggregate"}
<1>0. pcs \subseteq CallPcs
  BY DEF CallPcs
<1>1. /\ wf = "CheckPartitions" /\ call.pc = "idle"
      /\ SameMeta /\ SameDispatch /\ SameForeign /\ UNCHANGED <<athena, creator, parts, msgs, late>>
  BY DEF CheckRead, At, ledger, queue, SameMeta, SameDispatch, SameForeign
<1>g. ASSUME NEW pc \in pcs, Goto(pc)
      PROVE  call'.pc = pc /\ call'.rejected = call.rejected /\ wf' = wf /\ call'.dlq = call.dlq
  BY <1>g DEF Goto, TypeOK, CallRecord
<1>f. Fault => faults' > 0
  BY DEF Fault, TypeOK, EnvType
<1>2. CASE run.status = "canceling" /\ Goto("cancel") /\ UNCHANGED faults
  BY <1>0, <1>1, <1>2, MovesEffect
<1>3. CASE run.status \in Terminal /\ Return(EndFor(run.status))
  BY <1>1, <1>3, AnswersEffect
<1>4. CASE late /\ Goto("fail") /\ UNCHANGED faults
  BY <1>0, <1>1, <1>4, MovesEffect
<1>5. CASE run.status \notin Terminal \cup {"canceling"} /\ ~late
            /\ \E dlq \in {0, DlqCount} :
                 /\ IF dlq = DlqCount THEN UNCHANGED faults ELSE Fault
                 /\ IF PoisonSeen(dlq) THEN Goto("fail")
                    ELSE IF AllCounted THEN Goto("aggregate") ELSE UNCHANGED <<call, wf>>
  <2>1. run.status \notin Closing
    BY <1>5 DEF Closing
  <2>2. PICK dlq \in {0, DlqCount} :
                 /\ IF dlq = DlqCount THEN UNCHANGED faults ELSE Fault
                 /\ IF PoisonSeen(dlq) THEN Goto("fail")
                    ELSE IF AllCounted THEN Goto("aggregate") ELSE UNCHANGED <<call, wf>>
    BY <1>5
  <2>3. CASE PoisonSeen(dlq)
    <3>1. PoisonSeen(DlqCount) \/ faults' > 0
      BY <2>2, <2>3, <1>f
    <3> QED BY <1>1, <1>g, <2>1, <2>2, <2>3, <3>1
  <2>4. CASE ~PoisonSeen(dlq) /\ AllCounted
    BY <1>1, <1>g, <2>1, <2>2, <2>4
  <2>5. CASE ~PoisonSeen(dlq) /\ ~AllCounted
    BY <1>1, <2>2, <2>5
  <2> QED BY <2>3, <2>4, <2>5
<1> HIDE DEF pcs
<1> QED BY <1>2, <1>3, <1>4, <1>5 DEF CheckRead

LEMMA CheckAggregateEffect ==
    ASSUME TypeOK, CheckAggregate
    PROVE  /\ wf = "CheckPartitions" /\ call.pc = "aggregate"
           /\ SameDispatch /\ SameForeign /\ UNCHANGED <<athena, creator>>
           /\ run'.status = "aggregating" /\ run'.total = run.total
           /\ run'.baseline = run.baseline /\ run'.queries = run.queries
           /\ Answers("StartAthenaConversion")
BY AnswersEffect, SetStatusEffect DEF CheckAggregate, At, queue, SameDispatch, SameForeign

\* A step of the conversion or of _finalize leaves rows, baseline and messages alone.
Stays == /\ SameDispatch /\ SameForeign /\ UNCHANGED <<creator, parts, msgs>>
         /\ run'.status = run.status /\ run'.total = run.total /\ run'.baseline = run.baseline

\* What LeftAggregation does.
Leaves(next) == \/ Moves("cancel")
                \/ run.status \in Terminal /\ Answers(next)
                \/ run.status \in Accepting \cup {"aggregating"} /\ Raises

LEMMA LeavesEffect ==
    ASSUME TypeOK, NEW next, LeftAggregation(next) PROVE Leaves(next)
<1>1. "cancel" \in CallPcs
  BY DEF CallPcs
<1>2. run.status \in Statuses
  BY DEF TypeOK, RunRecord
<1> QED BY <1>1, <1>2, MovesEffect, AnswersEffect, RaisesEffect
        DEF LeftAggregation, Leaves, Statuses, Raise

LEMMA AthenaStartEffect ==
    ASSUME TypeOK, AthenaStart
    PROVE  /\ wf = "StartAthenaConversion" /\ call.pc = "idle" /\ Stays
           /\ run'.queries = run.queries
           /\ \/ Moves("cancel") /\ UNCHANGED athena
              \/ (run.status \in Terminal \/ run.queries) /\ Answers("CheckAthena") /\ UNCHANGED athena
              \/ Moves("store") /\ athena' \in {"running", athena}
<1>1. "cancel" \in CallPcs /\ "store" \in CallPcs
  BY DEF CallPcs
<1> QED BY <1>1, MovesEffect, AnswersEffect
        DEF AthenaStart, At, ledger, queue, Stays, SameDispatch, SameForeign

LEMMA AthenaStoreEffect ==
    ASSUME TypeOK, AthenaStore
    PROVE  /\ wf = "StartAthenaConversion" /\ call.pc = "store" /\ Stays
           /\ \/ /\ run.status = "aggregating" /\ run'.queries
                 /\ Answers("CheckAthena") /\ UNCHANGED athena
              \/ /\ run.status # "aggregating" /\ run'.queries = run.queries
                 /\ Leaves("CheckAthena") /\ athena' \in {"failed", athena}
<1>0. wf = "StartAthenaConversion" /\ call.pc = "store" /\ UNCHANGED <<creator, parts, foreign, arrivals, msgs>>
  BY DEF AthenaStore, At, queue
<1>1. CASE run.status = "aggregating"
  <2>1. run' = [run EXCEPT !.queries = TRUE] /\ Return("CheckAthena") /\ UNCHANGED athena
    BY <1>1 DEF AthenaStore
  <2>2. /\ run'.queries /\ run'.status = run.status /\ run'.total = run.total
        /\ run'.baseline = run.baseline
    BY <2>1 DEF TypeOK, RunRecord
  <2> QED BY <1>0, <1>1, <2>1, <2>2, AnswersEffect DEF Stays, SameDispatch, SameForeign
<1>2. CASE run.status # "aggregating"
  BY <1>0, <1>2, LeavesEffect
     DEF AthenaStore, StopQueries, Stays, SameDispatch, SameForeign
<1> QED BY <1>1, <1>2

LEMMA AthenaCheckEffect ==
    ASSUME TypeOK, AthenaCheck
    PROVE  /\ wf = "CheckAthena" /\ call.pc = "idle" /\ Stays
           /\ run'.queries = run.queries
           /\ \/ run.status = "canceling" /\ Moves("cancel") /\ athena' \in {"failed", athena}
              \/ /\ UNCHANGED athena
                 /\ \/ run.status \in Terminal /\ Answers(AthenaEnd)
                    \/ run.status \notin Closing /\ ~run.queries /\ Raises
                    \/ run.status \notin Closing /\ athena = "failed" /\ Moves("fail")
                    \/ Answers("FinalizeRun")
                    \/ UNCHANGED <<call, wf, faults>>
<1>1. "cancel" \in CallPcs /\ "fail" \in CallPcs
  BY DEF CallPcs
<1>2. wf = "CheckAthena" /\ call.pc = "idle" /\ Stays /\ run'.queries = run.queries
  BY DEF AthenaCheck, At, ledger, queue, Stays, SameDispatch, SameForeign
<1>3. CASE run.status \in {"canceling"} \cup Terminal
  <2>1. CASE run.status = "canceling" /\ Goto("cancel") /\ UNCHANGED faults
             /\ IF run.queries THEN StopQueries ELSE UNCHANGED athena
    BY <1>1, <1>2, <2>1, MovesEffect DEF StopQueries
  <2>2. CASE run.status \in Terminal /\ Return(AthenaEnd) /\ UNCHANGED athena
    BY <1>2, <2>2, AnswersEffect
  <2> QED BY <1>3, <2>1, <2>2 DEF AthenaCheck
<1>4. CASE run.status \notin Terminal \cup {"canceling"}
  <2>1. /\ UNCHANGED athena
        /\ IF ~run.queries THEN Raise
           ELSE IF athena = "failed" THEN Goto("fail") /\ UNCHANGED faults
           ELSE IF athena = "succeeded" THEN Return("FinalizeRun")
           ELSE UNCHANGED <<call, wf, faults>>
    BY <1>4 DEF AthenaCheck
  <2>2. run.status \notin Closing
    BY <1>4 DEF Closing
  <2> QED BY <1>1, <1>2, <2>1, <2>2, MovesEffect, AnswersEffect, RaisesEffect
<1> QED BY <1>3, <1>4

LEMMA FinalizeEvidenceEffect ==
    ASSUME TypeOK, RecordsBalance, FinalizeEvidence
    PROVE  /\ wf = "FinalizeRun" /\ call.pc = "idle" /\ Stays
           /\ run'.queries = run.queries /\ UNCHANGED athena
           /\ \/ Moves("cancel")
              \/ run.status \in Terminal /\ Answers(EndFor(run.status))
              \/ Moves("publish")
              \/ /\ run.status \notin Closing /\ Raises
                 /\ ~(CompletedSet = Partitions /\ run.total = Cardinality(Partitions))
<1>1. "cancel" \in CallPcs /\ "publish" \in CallPcs
  BY DEF CallPcs
<1>2. /\ wf = "FinalizeRun" /\ call.pc = "idle" /\ Stays
      /\ run'.queries = run.queries /\ UNCHANGED athena
  BY DEF FinalizeEvidence, At, ledger, queue, Stays, SameDispatch, SameForeign
<1>3. CASE run.status \in {"canceling"} \cup Terminal
  <2>1. CASE Goto("cancel") /\ UNCHANGED faults
    BY <1>1, <1>2, <2>1, MovesEffect
  <2>2. CASE run.status \in Terminal /\ Return(EndFor(run.status))
    BY <1>2, <2>2, AnswersEffect
  <2> QED BY <1>3, <2>1, <2>2 DEF FinalizeEvidence
<1>4. CASE run.status \notin Terminal \cup {"canceling"}
  <2>1. IF /\ \A p \in Partitions : parts[p].status = "completed"
           /\ run.total = Cardinality(Partitions)
        THEN Goto("publish") /\ UNCHANGED faults
        ELSE Raise
    BY <1>4 DEF FinalizeEvidence, RecordsBalance
  <2>2. run.status \notin Closing
    BY <1>4 DEF Closing
  <2>3. (\A p \in Partitions : parts[p].status = "completed") <=> CompletedSet = Partitions
    BY DEF CompletedSet
  <2> QED BY <1>1, <1>2, <2>1, <2>2, <2>3, MovesEffect, RaisesEffect
<1> QED BY <1>3, <1>4

LEMMA FinalizePublishEffect ==
    ASSUME TypeOK, FinalizePublish
    PROVE  /\ wf = "FinalizeRun" /\ call.pc = "publish"
           /\ SameDispatch /\ SameForeign /\ UNCHANGED <<creator, athena>>
           /\ run'.total = run.total /\ run'.baseline = run.baseline /\ run'.queries = run.queries
           /\ \/ run.status = "aggregating" /\ run'.status \in Done /\ Moves("release_done")
              \/ /\ run.status # "aggregating" /\ run'.status = run.status
                 /\ Leaves(EndFor(run.status))
<1>1. "release_done" \in CallPcs
  BY DEF CallPcs
<1>2. /\ wf = "FinalizeRun" /\ call.pc = "publish"
      /\ SameDispatch /\ SameForeign /\ UNCHANGED <<creator, athena>>
  BY DEF FinalizePublish, At, queue, SameDispatch, SameForeign
<1>3. CASE run.status = "aggregating"
  <2>1. /\ SetStatus(IF run.quarantined > 0 THEN "completed_with_quarantine" ELSE "completed")
        /\ Moves("release_done")
    BY <1>1, <1>3, MovesEffect DEF FinalizePublish
  <2> QED BY <1>2, <1>3, <2>1, SetStatusEffect DEF Done
<1>4. CASE run.status # "aggregating"
  BY <1>2, <1>4, LeavesEffect DEF FinalizePublish
<1> QED BY <1>3, <1>4

LEMMA FinalizeProofEffect ==
    ASSUME TypeOK, FinalizeProof
    PROVE  /\ wf = "FinalizeRun" /\ call.pc = "proof" /\ Stays
           /\ run'.queries = run.queries /\ UNCHANGED athena /\ Answers("RunCompleted")
BY AnswersEffect DEF FinalizeProof, At, queue, Stays, SameDispatch, SameForeign

LEMMA RecordEffect ==
    ASSUME TypeOK, RecordCancel \/ RecordFailure
    PROVE  /\ SameDispatch /\ SameForeign /\ UNCHANGED <<creator, athena>>
           /\ run'.total = run.total /\ run'.baseline = run.baseline /\ run'.queries = run.queries
           /\ \/ call.pc = "cancel" /\ run'.status = "canceled" /\ Moves("release_cancel")
              \/ /\ call.pc = "fail" \/ (wf = "RecordWorkflowFailure" /\ call.pc = "idle")
                 /\ run'.status = "failed" /\ Moves("release_fail")
<1>1. "release_cancel" \in CallPcs /\ "release_fail" \in CallPcs
  BY DEF CallPcs
<1>2. CASE RecordCancel
  BY <1>1, <1>2, MovesEffect, SetStatusEffect
     DEF RecordCancel, At, queue, SameDispatch, SameForeign
<1>3. CASE RecordFailure
  BY <1>1, <1>3, MovesEffect, SetStatusEffect
     DEF RecordFailure, At, queue, SameDispatch, SameForeign
<1> QED BY <1>2, <1>3

LEMMA CallReleasesEffect ==
    ASSUME TypeOK, CallReleases
    PROVE  /\ call.pc \in {"release_cancel", "release_fail", "release_done"} /\ Stays
           /\ run'.queries = run.queries /\ UNCHANGED athena
           /\ \/ call'.pc = "proof" /\ call'.rejected = call.rejected /\ wf' = wf
              \/ /\ call.pc # "release_done" /\ call'.pc = "idle" /\ ~call'.rejected
                 /\ wf' \in {"RunCanceled", "WorkflowFailed"}
                    \/ (wf = "StartAthenaConversion" /\ wf' = "CheckAthena")
<1>1. /\ call.pc \in {"release_cancel", "release_fail", "release_done"} /\ Stays
      /\ run'.queries = run.queries /\ UNCHANGED athena
  BY DEF CallReleases, queue, Stays, SameDispatch, SameForeign
<1>2. CASE call.pc = "release_done"
  <2>1. Goto("proof")
    BY <1>2 DEF CallReleases
  <2> QED BY <1>1, <2>1 DEF Goto, TypeOK, CallRecord
<1>3. CASE call.pc # "release_done"
  BY <1>1, <1>3 DEF CallReleases, AfterRelease, Idle
<1> QED BY <1>2, <1>3

\* A step that neither the workflow nor the analyst takes changes none of this.
Quiet == /\ SameMeta /\ SameDispatch /\ foreign' - arrivals' = foreign - arrivals
         /\ UNCHANGED <<call, wf>>
         /\ \/ athena' = athena
            \/ athena = "running" /\ athena' = "succeeded"
            \/ athena = "running" /\ athena' = "failed" /\ faults' > 0
         /\ creator' \in {"failing", "releasing"} =>
               creator \in {"failing", "releasing"} \/ faults' > 0

LEMMA FaultEffect == ASSUME TypeOK, Fault PROVE faults' > 0
BY DEF TypeOK, EnvType, Fault

LEMMA CommitMeta == ASSUME TypeOK, NEW w \in Workers, Commit(w) \/ MarkFailed(w) PROVE SameMeta
<1> DEFINE p == workers[w].part
<1>1. CASE PartOpen(p) /\ RunOpen /\ Commit(w)
  <2>1. run' = [run EXCEPT !.completed = @ + 1, !.generated = @ + Rows[p],
                           !.curated = @ + Valid(p), !.quarantined = @ + Bad[p]]
    BY <1>1 DEF Commit
  <2> HIDE DEF p
  <2> QED BY <2>1 DEF TypeOK, RunRecord, SameMeta
<1>2. CASE PartOpen(p) /\ RunOpen /\ MarkFailed(w)
  BY <1>2 DEF MarkFailed, TypeOK, RunRecord, SameMeta
<1>3. CASE ~(PartOpen(p) /\ RunOpen)
  BY <1>3 DEF Commit, MarkFailed, SameMeta
<1> QED BY <1>1, <1>2, <1>3

LEMMA WorkerQuiet ==
    ASSUME TypeOK, NEW w \in Workers, WorkerStep(w) \/ WorkerRaises(w) \/ WorkerDies(w) PROVE Quiet
<1>1. SameMeta
  BY CommitMeta DEF WorkerStep, ReadRun, MarkRunning, WritePartitionFiles, WorkerRaises,
                    WorkerDies, SameMeta
<1>2. SameDispatch
  BY WorkerDispatchFrame DEF RowsGoOn, SameDispatch
<1>3. UNCHANGED <<foreign, arrivals>>
  BY DEF WorkerStep, ReadRun, MarkRunning, WritePartitionFiles, Commit, MarkFailed,
         WorkerRaises, WorkerDies, WorkerOnly
<1> QED BY <1>1, <1>2, <1>3, WorkerProofFrame DEF Quiet

Disturbs == \/ StartExecution \/ RecordStartFailure \/ InvocationFails \/ ExecutionTimesOut
            \/ Cancel \/ WorkflowStep

LEMMA QuietSteps == ASSUME TypeOK, [Next]_vars, ~Disturbs PROVE Quiet
<1> USE DEF ledger, queue, control, SameMeta, SameDispatch, Quiet
<1>1. CASE RecordStart \/ CreatorReleases
  BY <1>1 DEF RecordStart, CreatorReleases
<1>2. CASE StartFails \/ CreatorDies
  BY <1>2, FaultEffect DEF StartFails, CreatorDies
<1>3. CASE DeadlinePasses \/ AthenaSucceeds \/ AthenaFails
  BY <1>3, FaultEffect DEF DeadlinePasses, AthenaSucceeds, AthenaFails
<1>4. CASE ForeignPoison
  BY <1>4 DEF ForeignPoison, TypeOK, QueueType
<1>5. ASSUME NEW w \in Workers, WorkerStep(w) \/ WorkerRaises(w) \/ WorkerDies(w) PROVE Quiet
  BY <1>5, WorkerQuiet
<1>6. ASSUME NEW p \in Partitions,
             Redeliver(p) \/ \E w \in Workers : Receive(w, p) \/ ReceiveDuplicate(w, p)
      PROVE  Quiet
  BY <1>6 DEF Redeliver, Receive, ReceiveDuplicate, WorkerOnly
<1>7. CASE UNCHANGED vars
  BY <1>7 DEF vars
<1> QED BY <1>1, <1>2, <1>3, <1>4, <1>5, <1>6, <1>7 DEF Next, CreatorStep, Disturbs

LEMMA DoneByRow == CompletedSet = Partitions <=> \A p \in Partitions : parts[p].status = "completed"
BY DEF CompletedSet

LEMMA AllDoneStays ==
    ASSUME TypeOK, [Next]_vars, CompletedSet = Partitions PROVE CompletedSet' = Partitions
<1>0. \A p \in Partitions : parts[p].status = "completed"
  BY DoneByRow
<1>1. CASE SameFinished
  <2>1. \A p \in Partitions : parts'[p].status = "completed"
    BY <1>0, <1>1 DEF SameFinished
  <2> QED BY <2>1 DEF CompletedSet
<1>2. ASSUME NEW w \in Workers, Completes(w) \/ Fails(w) PROVE FALSE
  <2>1. workers[w].part \in Partitions /\ PartOpen(workers[w].part)
    BY <1>2, CompletesEffect, FailsEffect
  <2> QED BY <1>0, <2>1 DEF PartOpen, FinishedPart
<1> QED BY <1>1, <1>2, LedgerStep

\* The workflow counts a plan as done only when every partition is.
LEMMA CountedIsDone ==
    ASSUME TypeOK, CountersMatchLedger, AllCounted, run.total \in {0, Cardinality(Partitions)}
    PROVE  run.total = Cardinality(Partitions) /\ CompletedSet = Partitions
<1>1. CompletedSet \in SUBSET Partitions /\ IsFiniteSet(Partitions)
  BY ScaleRunAssumption DEF CompletedSet
<1>2. Cardinality(CompletedSet) \in Nat /\ Cardinality(Partitions) \in Nat
  BY <1>1, FS_Subset, FS_CardinalityType
<1>3. run.total = Cardinality(Partitions)
  BY <1>2 DEF AllCounted
<1>4. Cardinality(CompletedSet) >= Cardinality(Partitions)
  BY <1>2, <1>3 DEF AllCounted, CountersMatchLedger
<1>5. Cardinality(CompletedSet) <= Cardinality(Partitions)
  BY <1>1, FS_Subset
<1>6. Cardinality(Partitions) = Cardinality(CompletedSet)
  BY <1>2, <1>4, <1>5
<1> QED BY <1>1, <1>3, <1>6, FS_Subset

LEMMA StatusSets ==
    /\ run.status \in Statuses => (run.status \notin Closing <=> run.status \in Accepting \cup {"aggregating"})
    /\ Accepting \cap Closing = {} /\ "aggregating" \notin Closing \cup Accepting
    /\ "failed" \in Terminal /\ "canceled" \in Terminal /\ "canceling" \in Closing
    /\ "canceling" \notin Terminal /\ Terminal \subseteq Closing /\ Done \subseteq Terminal
    /\ Accepting \cap Terminal = {} /\ "partitioning" \in Accepting
BY DEF Statuses, Accepting, Terminal, Done, Closing

\* What no step takes back.
LEMMA Onward ==
    ASSUME TypeOK, [Next]_vars
    PROVE  /\ faults \in Nat /\ (faults' = 0 => faults = 0) /\ (faults > 0 => faults' > 0)
           /\ CompletedSet = Partitions => CompletedSet' = Partitions
           /\ run.status \in Statuses
BY AllDoneStays, WorldGrows DEF TypeOK, EnvType, RunRecord, Grows

LEMMA QuietStage == ASSUME TypeOK, StageInv, Quiet, [Next]_vars PROVE StageInv'
BY Onward DEF StageInv, Quiet, SameMeta, SameDispatch

LEMMA StageDispatch == ASSUME TypeOK, StageInv, [Next]_vars, DispatchStep PROVE StageInv'
<1> USE Onward, StatusSets DEF StageInv, SameMeta, SameDispatch, Answers, Moves, Raises, OnError
<1>1. CASE DispatchRead
  BY <1>1, DispatchReadEffect
<1>2. CASE DispatchInit
  BY <1>2, DispatchInitEffect
<1>3. CASE DispatchLedger
  BY <1>3, DispatchLedgerEffect
<1>4. CASE DispatchMark \/ DispatchAck
  BY <1>4, DispatchMarkEffect
<1>5. CASE DispatchSend
  BY <1>5, DispatchSendEffect
<1>6. CASE DispatchNext
  BY <1>6, DispatchNextEffect
<1>7. CASE DispatchAnnounce
  BY <1>7, DispatchAnnounceEffect
<1> QED BY <1>1, <1>2, <1>3, <1>4, <1>5, <1>6, <1>7 DEF DispatchStep

LEMMA StageWorkflow ==
    ASSUME TypeOK, CountersMatchLedger, RecordsBalance, StageInv, [Next]_vars,
           WorkflowStep, ~DispatchStep
    PROVE  StageInv'
<1> USE Onward, StatusSets DEF StageInv, SameMeta, SameDispatch, Stays, Answers, Moves, Raises,
        OnError, Leaves
<1>e. /\ EndFor(run.status) \in {"RunCompleted", "RunCanceled", "WorkflowFailed"}
      /\ AthenaEnd \in {"RunCanceled", "WorkflowFailed"}
  BY DEF EndFor, AthenaEnd
<1>1. CASE CheckRead
  BY <1>1, <1>e, CheckReadEffect, CountedIsDone
<1>2. CASE CheckAggregate
  BY <1>2, CheckAggregateEffect
<1>3. CASE AthenaStart
  BY <1>3, AthenaStartEffect
<1>4. CASE AthenaStore
  BY <1>4, AthenaStoreEffect
<1>5. CASE AthenaCheck
  BY <1>5, <1>e, AthenaCheckEffect
<1>6. CASE FinalizeEvidence
  BY <1>6, <1>e, FinalizeEvidenceEffect
<1>7. CASE FinalizePublish
  BY <1>7, <1>e, FinalizePublishEffect
<1>8. CASE FinalizeProof
  BY <1>8, FinalizeProofEffect
<1>9. CASE RecordCancel \/ RecordFailure
  BY <1>9, RecordEffect
<1>10. CASE CallReleases
  BY <1>10, CallReleasesEffect
<1> QED BY <1>1, <1>2, <1>3, <1>4, <1>5, <1>6, <1>7, <1>8, <1>9, <1>10 DEF WorkflowStep

\* What the requests and the clock do to the run and its workflow.
LEMMA StartEffect ==
    ASSUME TypeOK, ProofInv, StartExecution
    PROVE  /\ SameMeta /\ SameDispatch /\ SameForeign /\ UNCHANGED <<athena, call, faults>>
           /\ creator' = "recording" /\ wf = "NotStarted" /\ wf' = "DispatchPartitions"
           /\ call.pc = "idle"
BY DEF StartExecution, ledger, queue, SameMeta, SameDispatch, SameForeign, ProofInv

LEMMA StartFailureEffect ==
    ASSUME TypeOK, RecordStartFailure
    PROVE  /\ SameDispatch /\ SameForeign /\ UNCHANGED <<athena, call, wf, faults>>
           /\ creator = "failing" /\ creator' = "releasing"
           /\ run'.status = "failed" /\ run'.total = run.total
           /\ run'.baseline = run.baseline /\ run'.queries = run.queries
BY SetStatusEffect DEF RecordStartFailure, queue, SameDispatch, SameForeign

LEMMA InvocationFailsEffect ==
    ASSUME TypeOK, InvocationFails
    PROVE  /\ SameMeta /\ SameDispatch /\ SameForeign /\ UNCHANGED <<athena, creator>>
           /\ wf \in Tasks /\ wf' \in {wf, OnError} /\ call'.pc = "idle" /\ ~call'.rejected
           /\ faults' > 0
BY FaultEffect DEF InvocationFails, Idle, ledger, queue, SameMeta, SameDispatch, SameForeign

LEMMA TimeoutEffect ==
    ASSUME TypeOK, ExecutionTimesOut
    PROVE  /\ SameMeta /\ SameDispatch /\ SameForeign /\ UNCHANGED <<athena, creator>>
           /\ wf' = "TimedOut" /\ call'.pc = "idle" /\ ~call'.rejected
BY DEF ExecutionTimesOut, Idle, ledger, queue, SameMeta, SameDispatch, SameForeign

LEMMA CancelEffect ==
    ASSUME TypeOK, Cancel
    PROVE  /\ SameDispatch /\ SameForeign /\ UNCHANGED <<athena, call, wf, creator, faults>>
           /\ run.status \notin Closing /\ run'.status = "canceling" /\ run'.total = run.total
           /\ run'.baseline = run.baseline /\ run'.queries = run.queries
BY SetStatusEffect DEF Cancel, Closing, control, queue, SameDispatch, SameForeign

LEMMA StageStep ==
    ASSUME TypeOK, ProofInv, CountersMatchLedger, RecordsBalance, StageInv, [Next]_vars
    PROVE  StageInv'
<1> USE Onward, StatusSets DEF StageInv, SameMeta, SameDispatch
<1>1. CASE StartExecution
  BY <1>1, StartEffect
<1>2. CASE RecordStartFailure
  BY <1>2, StartFailureEffect
<1>3. CASE InvocationFails
  BY <1>3, InvocationFailsEffect DEF OnError, Tasks
<1>4. CASE ExecutionTimesOut
  BY <1>4, TimeoutEffect
<1>5. CASE Cancel
  BY <1>5, CancelEffect
<1>6. CASE WorkflowStep
  BY <1>6, StageDispatch, StageWorkflow
<1>7. CASE ~Disturbs
  BY <1>7, QuietSteps, QuietStage
<1> QED BY <1>1, <1>2, <1>3, <1>4, <1>5, <1>6, <1>7 DEF Disturbs

\* A read of the dead-letter queue counts at least what older runs had left in it.
LEMMA DlqBound ==
    ASSUME TypeOK
    PROVE  /\ DlqCount \in Nat /\ DlqCount >= foreign - arrivals
           /\ foreign \in Nat /\ arrivals \in Nat
           /\ run.baseline \in Nat \cup {NoBaseline} /\ call.dlq \in Nat /\ NoBaseline \notin Nat
<1> DEFINE dead == {p \in Partitions : msgs[p] = "dlq"}
<1>1. Cardinality(dead) \in Nat
  BY ScaleRunAssumption, FS_Subset, FS_CardinalityType
<1>2. foreign \in Nat /\ arrivals \in Nat
  BY DEF TypeOK, QueueType
<1>3. run.baseline \in Nat \cup {NoBaseline} /\ call.dlq \in Nat /\ NoBaseline \notin Nat
  BY DEF TypeOK, RunRecord, CallRecord, NoBaseline
<1>4. DlqCount = foreign + Cardinality(dead)
  BY DEF DlqCount
<1> HIDE DEF dead
<1> QED BY <1>1, <1>2, <1>3, <1>4

LEMMA BaselineQuiet ==
    ASSUME TypeOK, BaselineInv, [Next]_vars, Quiet PROVE BaselineInv'
BY Onward DEF BaselineInv, HasBaseline, Quiet, SameMeta

LEMMA BaselineDispatch ==
    ASSUME TypeOK, BaselineInv, [Next]_vars, DispatchStep PROVE BaselineInv'
<1> USE Onward, StatusSets, DlqBound
    DEF BaselineInv, HasBaseline, SameMeta, SameForeign, Answers, Moves, Raises, OnError
<1>1. CASE DispatchRead
  BY <1>1, DispatchReadEffect
<1>2. CASE DispatchInit
  BY <1>2, DispatchInitEffect
<1>3. CASE DispatchLedger
  BY <1>3, DispatchLedgerEffect
<1>4. CASE DispatchMark \/ DispatchAck
  BY <1>4, DispatchMarkEffect
<1>5. CASE DispatchSend
  BY <1>5, DispatchSendEffect
<1>6. CASE DispatchNext
  BY <1>6, DispatchNextEffect
<1>7. CASE DispatchAnnounce
  BY <1>7, DispatchAnnounceEffect
<1> QED BY <1>1, <1>2, <1>3, <1>4, <1>5, <1>6, <1>7 DEF DispatchStep

LEMMA BaselineWorkflow ==
    ASSUME TypeOK, RecordsBalance, BaselineInv, [Next]_vars, WorkflowStep, ~DispatchStep
    PROVE  BaselineInv'
<1> USE Onward, StatusSets
    DEF BaselineInv, HasBaseline, SameMeta, Stays, SameForeign, Answers, Moves, Raises, OnError,
        Leaves
<1>e. /\ EndFor(run.status) \in {"RunCompleted", "RunCanceled", "WorkflowFailed"}
      /\ AthenaEnd \in {"RunCanceled", "WorkflowFailed"}
  BY DEF EndFor, AthenaEnd
<1>1. CASE CheckRead
  BY <1>1, <1>e, CheckReadEffect
<1>2. CASE CheckAggregate
  BY <1>2, CheckAggregateEffect
<1>3. CASE AthenaStart
  BY <1>3, AthenaStartEffect
<1>4. CASE AthenaStore
  BY <1>4, AthenaStoreEffect
<1>5. CASE AthenaCheck
  BY <1>5, <1>e, AthenaCheckEffect
<1>6. CASE FinalizeEvidence
  BY <1>6, <1>e, FinalizeEvidenceEffect
<1>7. CASE FinalizePublish
  BY <1>7, <1>e, FinalizePublishEffect
<1>8. CASE FinalizeProof
  BY <1>8, FinalizeProofEffect
<1>9. CASE RecordCancel \/ RecordFailure
  BY <1>9, RecordEffect
<1>10. CASE CallReleases
  BY <1>10, CallReleasesEffect
<1> QED BY <1>1, <1>2, <1>3, <1>4, <1>5, <1>6, <1>7, <1>8, <1>9, <1>10 DEF WorkflowStep

LEMMA BaselineStep ==
    ASSUME TypeOK, ProofInv, RecordsBalance, BaselineInv, [Next]_vars
    PROVE  BaselineInv'
<1> USE Onward, StatusSets DEF BaselineInv, HasBaseline, SameMeta, SameForeign
<1>1. CASE StartExecution
  BY <1>1, StartEffect
<1>2. CASE RecordStartFailure
  BY <1>2, StartFailureEffect
<1>3. CASE InvocationFails
  BY <1>3, InvocationFailsEffect DEF OnError, Tasks
<1>4. CASE ExecutionTimesOut
  BY <1>4, TimeoutEffect
<1>5. CASE Cancel
  BY <1>5, CancelEffect
<1>6. CASE WorkflowStep
  BY <1>6, BaselineDispatch, BaselineWorkflow
<1>7. CASE ~Disturbs
  BY <1>7, QuietSteps, BaselineQuiet
<1> QED BY <1>1, <1>2, <1>3, <1>4, <1>5, <1>6, <1>7 DEF Disturbs

\* What the poison that _check sees says of the run.
LEMMA PoisonIsOwn ==
    ASSUME TypeOK, CountersMatchLedger, BaselineInv, HasBaseline, PoisonSeen(DlqCount)
    PROVE  Cause
<1>1. CASE run.failed > 0
  <2>1. Cardinality(FailedSet) > 0
    BY <1>1 DEF CountersMatchLedger
  <2>2. FailedSet # {}
    BY <2>1, FS_EmptySet
  <2> QED BY <2>2 DEF FailedSet, Cause, OwnCause
<1>2. CASE DlqCount > Baseline /\ faults = 0
  <2> DEFINE dead == {p \in Partitions : msgs[p] = "dlq"}
  <2>1. run.baseline >= foreign - arrivals /\ Baseline = run.baseline
    BY <1>2 DEF BaselineInv, HasBaseline, Baseline
  <2>2. DlqCount = foreign + Cardinality(dead)
    BY DEF DlqCount
  <2>3. Cardinality(dead) \in Nat
    BY ScaleRunAssumption, FS_Subset, FS_CardinalityType
  <2>4. dead = {} => Cardinality(dead) = 0
    BY FS_EmptySet
  <2> HIDE DEF dead
  <2>5. dead # {} \/ arrivals > 0
    BY <1>2, <2>1, <2>2, <2>3, <2>4, DlqBound DEF HasBaseline
  <2> QED BY <2>5 DEF dead, Cause, OwnCause
<1>3. CASE faults # 0
  BY <1>3 DEF TypeOK, EnvType, Cause, OwnCause
<1> QED BY <1>1, <1>2, <1>3 DEF PoisonSeen

\* The condition of the mark never fails: what _dispatch still has to send stays as it read it.
MarkInv == /\ \A p \in Partitions : parts[p].status = "absent" => parts[p].dispatch = "queued"
           /\ \A p \in call.todo : Unsent(p)

\* Outside _dispatch only the worker that holds a partition writes its row.
LEMMA RowsOfOthers ==
    ASSUME TypeOK, [Next]_vars, ~DispatchStep,
           NEW p \in Partitions, \A w \in Workers : workers[w].pc # "idle" => workers[w].part # p
    PROVE  parts'[p] = parts[p]
<1> USE DEF queue, ledger, control, objects
<1>1. CASE CreatorStep \/ StartFails \/ CreatorDies
  BY <1>1 DEF CreatorStep, StartExecution, RecordStart, RecordStartFailure,
              CreatorReleases, StartFails, CreatorDies
<1>2. CASE InvocationFails \/ ExecutionTimesOut \/ Cancel \/ DeadlinePasses
           \/ AthenaSucceeds \/ AthenaFails \/ ForeignPoison
  BY <1>2 DEF InvocationFails, ExecutionTimesOut, Cancel, DeadlinePasses,
              AthenaSucceeds, AthenaFails, ForeignPoison
<1>3. CASE WorkflowStep
  BY <1>3 DEF WorkflowStep, CheckRead, CheckAggregate, AthenaStart, AthenaStore, AthenaCheck,
         FinalizeEvidence, FinalizePublish, FinalizeProof, RecordCancel, RecordFailure, CallReleases
<1>4. ASSUME NEW q \in Partitions,
             Redeliver(q) \/ \E w \in Workers : Receive(w, q) \/ ReceiveDuplicate(w, q)
      PROVE  UNCHANGED parts
  BY <1>4 DEF Redeliver, Receive, ReceiveDuplicate, WorkerOnly
<1>5. CASE UNCHANGED vars
  BY <1>5 DEF vars
<1>6. ASSUME NEW w \in Workers, ReadRun(w) \/ WritePartitionFiles(w) \/ WorkerRaises(w) \/ WorkerDies(w)
      PROVE  UNCHANGED parts
  BY <1>6 DEF ReadRun, WritePartitionFiles, WorkerRaises, WorkerDies, WorkerOnly
<1>7. ASSUME NEW w \in Workers, MarkRunning(w) \/ Commit(w) \/ MarkFailed(w)
      PROVE  parts'[p] = parts[p]
  <2>1. workers[w].part # p
    BY <1>7 DEF MarkRunning, Commit, MarkFailed
  <2>2. parts \in [Partitions -> RowRecord]
    BY DEF TypeOK
  <2> QED BY <1>7, <2>1, <2>2 DEF MarkRunning, Commit, MarkFailed
<1> QED BY <1>1, <1>2, <1>3, <1>4, <1>5, <1>6, <1>7 DEF Next, WorkerStep

LEMMA MarkOutside ==
    ASSUME TypeOK, SendInv, QueueInv, MarkInv, [Next]_vars, ~DispatchStep PROVE MarkInv'
<1>1. RowsGoOn /\ CallMoves
  BY DispatchFrame
<1>2. call'.todo \subseteq call.todo /\ call.todo \subseteq Partitions
  BY <1>1 DEF CallMoves, Idle, TypeOK, CallRecord
<1>3. ASSUME NEW p \in call.todo PROVE parts'[p] = parts[p]
  <2>1. sends[p] = 0
    BY DEF SendInv
  <2>2. \A w \in Workers : workers[w].pc # "idle" => workers[w].part # p
    BY <1>2, <2>1 DEF QueueInv
  <2> QED BY <1>2, <2>2, RowsOfOthers
<1> QED BY <1>1, <1>2, <1>3 DEF MarkInv, Unsent, RowsGoOn

LEMMA MarkDispatch == ASSUME TypeOK, SendInv, MarkInv, DispatchStep PROVE MarkInv'
<1> USE DEF queue, ledger, MarkInv, Unsent
<1>c. call \in CallRecord /\ call.todo \subseteq Partitions /\ call.batch \subseteq Partitions
  BY DEF TypeOK, CallRecord
<1>i. Idle.todo = {} /\ \A dlq : [Idle EXCEPT !.pc = "init", !.dlq = dlq].todo = {}
      /\ [Idle EXCEPT !.pc = "init"].todo = {}
  BY DEF Idle
<1>r. (\E next : Return(next)) \/ Raise => call'.todo = {}
  BY <1>i DEF Return, Raise
<1>1. CASE DispatchRead
  <2>1. call'.todo = {} /\ UNCHANGED parts
    BY <1>1, <1>i, <1>r DEF DispatchRead
  <2> QED BY <2>1
<1>2. CASE DispatchInit
  <2>1. UNCHANGED parts /\ call'.todo \subseteq call.todo
    BY <1>2, <1>c, <1>r DEF DispatchInit, Goto, CallRecord
  <2> QED BY <2>1
<1>3. CASE DispatchLedger
  <2>1. \A p \in Partitions :
           /\ parts'[p].dispatch = parts[p].dispatch
           /\ parts'[p].status = IF parts[p].status = "absent" THEN "queued" ELSE parts[p].status
    BY <1>3 DEF DispatchLedger, TypeOK, RowRecord
  <2>2. CASE Raise
    BY <1>r, <2>1, <2>2
  <2>3. CASE ~Raise
    <3>1. ASSUME NEW p \in call'.todo
          PROVE  p \in Partitions /\ Pending(p) /\ ~Uncertain(p)
      BY <1>3, <1>c, <2>3 DEF DispatchLedger, CallRecord
    <3>2. ASSUME NEW p \in call'.todo
          PROVE  parts'[p].status = "queued" /\ parts'[p].dispatch = "queued"
      BY <2>1, <3>1 DEF Pending, Uncertain, TypeOK, RowRecord
    <3> QED BY <2>1, <3>2
  <2> QED BY <2>2, <2>3
<1>4. CASE DispatchMark
  <2>1. PICK batch \in SUBSET call.todo : Marks(batch)
    BY <1>4, MarkSteps
  <2>2. /\ \A p \in batch : parts[p].status # "absent"
        /\ \A p \in Partitions : parts'[p].status = parts[p].status
        /\ \A p \in Partitions \ batch : parts'[p] = parts[p]
    BY <1>c, <2>1 DEF Marks, TypeOK, RowRecord
  <2>3. call'.todo = {} \/ call'.todo = call.todo \ batch
    BY <1>c, <1>r, <2>1 DEF Marks, CallRecord
  <2> QED BY <1>c, <2>2, <2>3
<1>5. CASE DispatchSend
  <2>1. UNCHANGED parts /\ call'.todo = call.todo
    BY <1>5, <1>c DEF DispatchSend, CallRecord
  <2> QED BY <2>1
<1>6. CASE DispatchAck
  <2>1. PICK p \in call.batch :
          /\ parts' = [parts EXCEPT ![p].dispatch =
                         IF p \in call.sent THEN "acknowledged" ELSE "queued"]
          /\ call' = [call EXCEPT !.batch = @ \ {p}]
    BY <1>6 DEF DispatchAck
  <2>2. call'.todo = call.todo /\ p \notin call.todo /\ parts[p].status # "absent"
    BY <1>c, <2>1 DEF CallRecord, SendInv
  <2>3. /\ parts'[p].status = parts[p].status
        /\ \A q \in Partitions \ {p} : parts'[q] = parts[q]
    BY <1>c, <2>1 DEF TypeOK, RowRecord
  <2> QED BY <1>c, <2>2, <2>3
<1>7. CASE DispatchNext
  <2>1. UNCHANGED parts /\ call'.todo \subseteq call.todo
    BY <1>7, <1>c, <1>r DEF DispatchNext, CallRecord
  <2> QED BY <2>1
<1>8. CASE DispatchAnnounce
  BY <1>8, <1>r DEF DispatchAnnounce
<1> QED BY <1>1, <1>2, <1>3, <1>4, <1>5, <1>6, <1>7, <1>8 DEF DispatchStep

LEMMA MarkStep == ASSUME TypeOK, SendInv, QueueInv, MarkInv, [Next]_vars PROVE MarkInv'
BY MarkOutside, MarkDispatch

LEMMA CauseQuiet ==
    ASSUME TypeOK, CauseInv, Cause => Cause', [Next]_vars, Quiet PROVE CauseInv'
BY Onward DEF CauseInv, Quiet, SameMeta

LEMMA FaultIsCause == faults' > 0 => Cause'
BY DEF Cause, OwnCause

LEMMA CauseDispatch ==
    ASSUME TypeOK, MarkInv, StageInv, CauseInv, Cause => Cause', [Next]_vars, DispatchStep
    PROVE  CauseInv'
<1> USE Onward, StatusSets, FaultIsCause
    DEF CauseInv, SameMeta, Answers, Moves, Raises, OnError
<1>1. CASE DispatchRead
  BY <1>1, DispatchReadEffect
<1>2. CASE DispatchInit
  BY <1>2, DispatchInitEffect
<1>3. CASE DispatchLedger
  BY <1>3, DispatchLedgerEffect DEF StageInv, Cause, OwnCause
<1>4. CASE DispatchMark \/ DispatchAck
  BY <1>4, DispatchMarkEffect DEF MarkInv
<1>5. CASE DispatchSend
  BY <1>5, DispatchSendEffect
<1>6. CASE DispatchNext
  BY <1>6, DispatchNextEffect
<1>7. CASE DispatchAnnounce
  BY <1>7, DispatchAnnounceEffect
<1> QED BY <1>1, <1>2, <1>3, <1>4, <1>5, <1>6, <1>7 DEF DispatchStep

LEMMA CauseWorkflow ==
    ASSUME TypeOK, CountersMatchLedger, RecordsBalance, StageInv, BaselineInv, CauseInv,
           Cause => Cause', [Next]_vars, WorkflowStep, ~DispatchStep
    PROVE  CauseInv'
<1> USE Onward, StatusSets, FaultIsCause
    DEF CauseInv, SameMeta, Stays, Answers, Moves, Raises, OnError, Leaves
<1>e. /\ EndFor(run.status) \in {"RunCompleted", "RunCanceled", "WorkflowFailed"}
      /\ AthenaEnd \in {"RunCanceled", "WorkflowFailed"}
  BY DEF EndFor, AthenaEnd
<1>f. faults > 0 \/ late => Cause
  BY DEF Cause, OwnCause
<1>1. CASE CheckRead
  <2>1. run.status \notin Closing /\ PoisonSeen(DlqCount) => Cause
    BY <1>1, CheckReadEffect, PoisonIsOwn DEF BaselineInv
  <2> QED BY <1>1, <1>e, <1>f, <2>1, CheckReadEffect
<1>2. CASE CheckAggregate
  BY <1>2, CheckAggregateEffect
<1>3. CASE AthenaStart
  BY <1>3, AthenaStartEffect
<1>4. CASE AthenaStore
  BY <1>4, AthenaStoreEffect DEF StageInv
<1>5. CASE AthenaCheck
  BY <1>5, <1>e, <1>f, AthenaCheckEffect DEF StageInv
<1>6. CASE FinalizeEvidence
  BY <1>6, <1>e, FinalizeEvidenceEffect DEF StageInv
<1>7. CASE FinalizePublish
  BY <1>7, <1>e, FinalizePublishEffect DEF StageInv, Done
<1>8. CASE FinalizeProof
  BY <1>8, FinalizeProofEffect
<1>9. CASE RecordCancel \/ RecordFailure
  BY <1>9, RecordEffect
<1>10. CASE CallReleases
  BY <1>10, CallReleasesEffect
<1> QED BY <1>1, <1>2, <1>3, <1>4, <1>5, <1>6, <1>7, <1>8, <1>9, <1>10 DEF WorkflowStep

LEMMA CauseStep ==
    ASSUME TypeOK, SendInv, QueueInv, ProofInv, CountersMatchLedger, RecordsBalance,
           MarkInv, StageInv, BaselineInv, CauseInv, [Next]_vars
    PROVE  CauseInv'
<1> USE Onward, StatusSets, CauseStays, FaultIsCause DEF CauseInv, SameMeta
<1>f. faults > 0 => Cause
  BY DEF Cause, OwnCause
<1>1. CASE StartExecution
  BY <1>1, StartEffect
<1>2. CASE RecordStartFailure
  BY <1>2, <1>f, StartFailureEffect
<1>3. CASE InvocationFails
  BY <1>3, InvocationFailsEffect
<1>4. CASE ExecutionTimesOut
  BY <1>4, TimeoutEffect
<1>5. CASE Cancel
  BY <1>5, CancelEffect
<1>6. CASE WorkflowStep
  BY <1>6, CauseDispatch, CauseWorkflow
<1>7. CASE ~Disturbs
  BY <1>7, QuietSteps, CauseQuiet
<1> QED BY <1>1, <1>2, <1>3, <1>4, <1>5, <1>6, <1>7 DEF Disturbs

FailureInv == QueueInv /\ MarkInv /\ StageInv /\ BaselineInv /\ CauseInv

LEMMA InitFailure == Init => FailureInv
<1> SUFFICES ASSUME Init PROVE FailureInv
  OBVIOUS
<1>1. QueueInv
  BY DEF Init, QueueInv, IdleWorker
<1>5. MarkInv
  BY DEF Init, MarkInv, Idle
<1>2. StageInv
  BY DEF Init, StageInv, Idle, Accepting
<1>3. BaselineInv
  BY DEF Init, BaselineInv, HasBaseline, Idle
<1>4. CauseInv
  BY DEF Init, CauseInv, Idle
<1> QED BY <1>1, <1>2, <1>3, <1>4, <1>5 DEF FailureInv

LEMMA FailureStep ==
    ASSUME TypeOK, SendInv, ProofInv, CountersMatchLedger, RecordsBalance, FailureInv, [Next]_vars
    PROVE  FailureInv'
BY QueueMoves, MarkStep, StageStep, BaselineStep, CauseStep DEF FailureInv

LEMMA FailureInvariant == Spec => []FailureInv
BY InitFailure, FailureStep, TypeCorrect, SendInvariant, ProofInvariant, CountersCorrect,
   RecordsBalanced, PTL DEF Spec

\* A run fails for the deadline, a partition of its own, an error of its own, or a message
\* of an older run that reached the shared dead-letter queue after dispatch had counted it:
\* never for what was in that queue before, however large, and never for a retry.
THEOREM FailureCaused == Spec => [](run.status = "failed" => Cause)
<1>1. FailureInv => (run.status = "failed" => Cause)
  BY DEF FailureInv, CauseInv
<1> QED BY <1>1, FailureInvariant, PTL

FewArrivals == arrivals <= MaxForeign

LEMMA OnlyPoisonArrives == ASSUME TypeOK, [Next]_vars, ~ForeignPoison PROVE UNCHANGED arrivals
<1>1. CASE WorkflowStep
  BY <1>1, DispatchReadEffect, DispatchInitEffect, DispatchLedgerEffect, DispatchMarkEffect,
     DispatchSendEffect, DispatchNextEffect, DispatchAnnounceEffect, CheckReadEffect,
     CheckAggregateEffect, AthenaStartEffect, AthenaStoreEffect, AthenaCheckEffect
     DEF WorkflowStep, DispatchStep, SameForeign, Stays, queue, FinalizeEvidence,
         FinalizePublish, FinalizeProof, RecordCancel, RecordFailure, CallReleases
<1>2. CASE CreatorStep \/ StartFails \/ CreatorDies \/ InvocationFails \/ ExecutionTimesOut
           \/ Cancel \/ DeadlinePasses \/ AthenaSucceeds \/ AthenaFails
  BY <1>2 DEF CreatorStep, StartExecution, RecordStart, RecordStartFailure, CreatorReleases,
              StartFails, CreatorDies, InvocationFails, ExecutionTimesOut, Cancel,
              DeadlinePasses, AthenaSucceeds, AthenaFails, queue
<1>3. ASSUME NEW w \in Workers, WorkerStep(w) \/ WorkerRaises(w) \/ WorkerDies(w)
      PROVE  UNCHANGED arrivals
  BY <1>3 DEF WorkerStep, ReadRun, MarkRunning, WritePartitionFiles, Commit, MarkFailed,
              WorkerRaises, WorkerDies, WorkerOnly
<1>4. ASSUME NEW p \in Partitions,
             Redeliver(p) \/ \E w \in Workers : Receive(w, p) \/ ReceiveDuplicate(w, p)
      PROVE  UNCHANGED arrivals
  BY <1>4 DEF Redeliver, Receive, ReceiveDuplicate, WorkerOnly
<1>5. CASE UNCHANGED vars
  BY <1>5 DEF vars, queue
<1> QED BY <1>1, <1>2, <1>3, <1>4, <1>5 DEF Next

LEMMA ArrivalsAreBounded == Spec => []FewArrivals
<1>b. MaxForeign \in Nat
  BY ScaleRunAssumption
<1>1. Init => FewArrivals
  BY <1>b DEF Init, FewArrivals
<1>2. ASSUME TypeOK, FewArrivals, [Next]_vars PROVE FewArrivals'
  <2>1. CASE ForeignPoison
    <3>1. arrivals < MaxForeign /\ arrivals' = arrivals + 1 /\ arrivals \in Nat
      BY <1>2, <2>1 DEF ForeignPoison, TypeOK, QueueType
    <3> QED BY <1>b, <3>1 DEF FewArrivals
  <2>2. CASE ~ForeignPoison
    BY <1>2, <2>2, OnlyPoisonArrives DEF FewArrivals
  <2> QED BY <2>1, <2>2
<1> QED BY <1>1, <1>2, TypeCorrect, PTL DEF Spec

\* When no older run has work left, a run fails for a reason of its own only.
THEOREM FailureIsOwn == ASSUME MaxForeign = 0 PROVE Spec => []FailureHasOwnCause
<1>1. TypeOK /\ FailureInv /\ FewArrivals => FailureHasOwnCause
  BY DEF TypeOK, QueueType, FailureInv, CauseInv, Cause, OwnCause, FailureHasOwnCause, FewArrivals
<1> QED BY <1>1, TypeCorrect, FailureInvariant, ArrivalsAreBounded, PTL

-----------------------------------------------------------------------------
\* A run is published by _finalize only, with every partition completed, and the workflow
\* never goes back from there.
DoneInv == run.status \in Done =>
              CompletedSet = Partitions /\ wf \in {"FinalizeRun", "RecordWorkflowFailure"} \cup Ends

LEMMA DoneDispatch ==
    ASSUME TypeOK, DoneInv, [Next]_vars, DispatchStep PROVE DoneInv'
<1> USE StatusSets DEF DoneInv, SameMeta, Ends
<1>1. CASE DispatchRead
  BY <1>1, DispatchReadEffect
<1>2. CASE DispatchInit
  BY <1>2, DispatchInitEffect
<1>3. CASE DispatchLedger
  BY <1>3, DispatchLedgerEffect
<1>4. CASE DispatchMark \/ DispatchAck
  BY <1>4, DispatchMarkEffect
<1>5. CASE DispatchSend
  BY <1>5, DispatchSendEffect
<1>6. CASE DispatchNext
  BY <1>6, DispatchNextEffect
<1>7. CASE DispatchAnnounce
  BY <1>7, DispatchAnnounceEffect
<1> QED BY <1>1, <1>2, <1>3, <1>4, <1>5, <1>6, <1>7 DEF DispatchStep

LEMMA DoneWorkflow ==
    ASSUME TypeOK, ProofInv, RecordsBalance, DoneInv, [Next]_vars, WorkflowStep, ~DispatchStep
    PROVE  DoneInv'
<1> USE Onward, StatusSets
    DEF DoneInv, SameMeta, Stays, Answers, Moves, Raises, OnError, Leaves, Ends
<1>e. /\ EndFor(run.status) \in {"RunCompleted", "RunCanceled", "WorkflowFailed"}
      /\ AthenaEnd \in {"RunCanceled", "WorkflowFailed"}
  BY DEF EndFor, AthenaEnd
<1>d. "aggregating" \notin Done /\ "canceled" \notin Done /\ "failed" \notin Done
  BY DEF Done
<1>1. CASE CheckRead
  BY <1>1, <1>e, CheckReadEffect
<1>2. CASE CheckAggregate
  BY <1>2, <1>d, CheckAggregateEffect
<1>3. CASE AthenaStart
  BY <1>3, AthenaStartEffect
<1>4. CASE AthenaStore
  BY <1>4, AthenaStoreEffect
<1>5. CASE AthenaCheck
  BY <1>5, <1>e, AthenaCheckEffect
<1>6. CASE FinalizeEvidence
  BY <1>6, <1>e, FinalizeEvidenceEffect
<1>7. CASE FinalizePublish
  BY <1>7, <1>e, FinalizePublishEffect DEF ProofInv, Backed
<1>8. CASE FinalizeProof
  BY <1>8, FinalizeProofEffect
<1>9. CASE RecordCancel \/ RecordFailure
  BY <1>9, <1>d, RecordEffect
<1>10. CASE CallReleases
  BY <1>10, CallReleasesEffect
<1> QED BY <1>1, <1>2, <1>3, <1>4, <1>5, <1>6, <1>7, <1>8, <1>9, <1>10 DEF WorkflowStep

LEMMA DoneStep ==
    ASSUME TypeOK, ProofInv, RecordsBalance, DoneInv, [Next]_vars PROVE DoneInv'
<1> USE Onward, StatusSets DEF DoneInv, SameMeta, Ends
<1>d. "failed" \notin Done /\ "canceling" \notin Done
  BY DEF Done
<1>1. CASE StartExecution
  BY <1>1, StartEffect
<1>2. CASE RecordStartFailure
  BY <1>2, <1>d, StartFailureEffect
<1>3. CASE InvocationFails
  BY <1>3, InvocationFailsEffect DEF OnError
<1>4. CASE ExecutionTimesOut
  BY <1>4, TimeoutEffect
<1>5. CASE Cancel
  BY <1>5, <1>d, CancelEffect
<1>6. CASE WorkflowStep
  BY <1>6, DoneDispatch, DoneWorkflow
<1>7. CASE ~Disturbs
  BY <1>7, QuietSteps DEF Quiet
<1> QED BY <1>1, <1>2, <1>3, <1>4, <1>5, <1>6, <1>7 DEF Disturbs

LEMMA DoneInvariant == Spec => []DoneInv
<1>1. Init => DoneInv
  BY DEF Init, DoneInv, Done
<1> QED BY <1>1, DoneStep, TypeCorrect, ProofInvariant, RecordsBalanced, PTL DEF Spec

-----------------------------------------------------------------------------
(* The refinement of RunLedger.                                            *)

LEMMA PhaseOf ==
    /\ run.status \in Accepting => Phase = "open"
    /\ Phase = "sealed" <=> run.status = "aggregating"
    /\ run.status \in Done => Phase = "published"
    /\ run.status \in Statuses \ (Accepting \cup {"aggregating"} \cup Done) => Phase = "closed"
BY DEF Phase, Accepting, Done

LEMMA NextPhase ==
    /\ run'.status \in Accepting => Phase' = "open"
    /\ run'.status = "aggregating" => Phase' = "sealed"
    /\ run'.status \in Done => Phase' = "published"
    /\ run'.status \in {"failed", "canceling", "canceled"} => Phase' = "closed"
    /\ run'.status = run.status => Phase' = Phase
BY DEF Phase, Accepting, Done

\* A step that finishes no row closes, seals or publishes the ledger, or leaves it.
LEMMA PhaseStep ==
    ASSUME TypeOK, ProofInv, RecordsBalance, StageInv, DoneInv, [Next]_vars
    PROVE  \/ Phase' = Phase \/ Phase' = "closed"
           \/ Phase = "sealed" /\ Phase' = "published"
           \/ Phase \in {"open", "closed"} /\ CompletedSet = Partitions /\ Phase' = "sealed"
<1> USE PhaseOf, NextPhase DEF SameMeta, Stays
<1>1. CASE StartExecution \/ InvocationFails \/ ExecutionTimesOut
  BY <1>1, StartEffect, InvocationFailsEffect, TimeoutEffect
<1>2. CASE RecordStartFailure \/ Cancel
  BY <1>2, StartFailureEffect, CancelEffect
<1>3. CASE ~Disturbs
  BY <1>3, QuietSteps DEF Quiet
<1>4. CASE DispatchStep
  <2>1. run'.status = run.status \/ (run.status \in Accepting /\ run'.status \in Accepting)
    BY <1>4, StatusSets, DispatchReadEffect, DispatchInitEffect, DispatchLedgerEffect,
       DispatchMarkEffect, DispatchSendEffect, DispatchNextEffect, DispatchAnnounceEffect
       DEF DispatchStep
  <2> QED BY <2>1
<1>5. CASE CheckAggregate
  <2>1. wf = "CheckPartitions" /\ call.pc = "aggregate" /\ run'.status = "aggregating"
    BY <1>5, CheckAggregateEffect
  <2>2. run.status \notin Done /\ CompletedSet = Partitions
    BY <2>1 DEF DoneInv, StageInv, Ends
  <2>3. Phase \in {"open", "closed", "sealed"}
    BY <2>2, Onward
  <2> QED BY <2>1, <2>2, <2>3
<1>6. CASE CheckRead \/ AthenaStart \/ AthenaStore \/ AthenaCheck
  BY <1>6, CheckReadEffect, AthenaStartEffect, AthenaStoreEffect, AthenaCheckEffect
<1>7. CASE FinalizeEvidence \/ FinalizeProof \/ CallReleases
  BY <1>7, FinalizeEvidenceEffect, FinalizeProofEffect, CallReleasesEffect
<1>8. CASE FinalizePublish
  BY <1>8, FinalizePublishEffect
<1>9. CASE RecordCancel \/ RecordFailure
  BY <1>9, RecordEffect
<1> QED BY <1>1, <1>2, <1>3, <1>4, <1>5, <1>6, <1>7, <1>8, <1>9 DEF Disturbs, WorkflowStep

LEMMA LedgerNext ==
    ASSUME TypeOK, ProofInv, RecordsBalance, StageInv, DoneInv, [Next]_vars
    PROVE  [Ledger!Next]_<<Phase, CompletedSet, FailedSet>>
<1>1. CASE SameFinished
  <2>1. CompletedSet' = CompletedSet /\ FailedSet' = FailedSet
    BY <1>1 DEF SameFinished, CompletedSet, FailedSet
  <2> QED BY <2>1, PhaseStep DEF Ledger!Next, Ledger!Seal, Ledger!Publish, Ledger!Close
<1>2. ASSUME NEW w \in Workers, Completes(w) PROVE Ledger!Next
  <2> DEFINE p == workers[w].part
  <2>1. p \in Partitions /\ PartOpen(p) /\ RunOpen
    BY <1>2, CompletesEffect
  <2>2. p \notin CompletedSet \cup FailedSet
    BY <2>1 DEF PartOpen, CompletedSet, FailedSet, FinishedPart
  <2>3. (\A q \in Partitions \ {p} : parts'[q] = parts[q]) /\ parts'[p].status = "completed"
    BY <1>2, CompletesEffect
  <2>4. CompletedSet' = CompletedSet \cup {p} /\ FailedSet' = FailedSet
    BY <2>1, <2>2, <2>3 DEF CompletedSet, FailedSet
  <2>5. Phase = "open" /\ Phase' = Phase
    BY <1>2, <2>1, CommitStatus, PhaseOf, NextPhase DEF Completes, RunOpen
  <2> HIDE DEF p
  <2> QED BY <2>1, <2>2, <2>4, <2>5 DEF Ledger!Next, Ledger!Complete
<1>3. ASSUME NEW w \in Workers, Fails(w) PROVE Ledger!Next
  <2> DEFINE p == workers[w].part
  <2>1. p \in Partitions /\ PartOpen(p) /\ RunOpen
    BY <1>3, FailsEffect
  <2>2. p \notin CompletedSet \cup FailedSet
    BY <2>1 DEF PartOpen, CompletedSet, FailedSet, FinishedPart
  <2>3. (\A q \in Partitions \ {p} : parts'[q] = parts[q]) /\ parts'[p].status = "failed"
    BY <1>3, FailsEffect
  <2>4. CompletedSet' = CompletedSet /\ FailedSet' = FailedSet \cup {p}
    BY <2>1, <2>2, <2>3 DEF CompletedSet, FailedSet
  <2>5. Phase = "open" /\ Phase' = Phase
    BY <1>3, <2>1, CommitMeta, PhaseOf, NextPhase DEF Fails, RunOpen, SameMeta
  <2> HIDE DEF p
  <2> QED BY <2>1, <2>2, <2>4, <2>5 DEF Ledger!Next, Ledger!Lose
<1> QED BY <1>1, <1>2, <1>3, LedgerStep

\* Whatever its workers, queue, retries and workflow do, a run behaves as a ledger: partitions
\* finish one at a time while it is open, it is sealed only with all of them completed, only
\* a sealed ledger is published, and nothing finishes in one that is not open.
THEOREM LedgerRefinement == Spec => ImplementsRunLedger
<1>1. ASSUME Init PROVE Ledger!Init
  <2>1. run.status = "requested" /\ \A p \in Partitions : parts[p].status = "absent"
    BY <1>1 DEF Init
  <2>2. CompletedSet = {} /\ FailedSet = {}
    BY <2>1 DEF CompletedSet, FailedSet
  <2>3. Phase = "open"
    BY <2>1, PhaseOf DEF Accepting
  <2> QED BY <2>2, <2>3 DEF Ledger!Init
<1>2. FailureInv => StageInv
  BY DEF FailureInv
<1> QED BY <1>1, <1>2, LedgerNext, TypeCorrect, ProofInvariant, RecordsBalanced,
           FailureInvariant, DoneInvariant, PTL
           DEF Spec, ImplementsRunLedger, Ledger!Spec


-----------------------------------------------------------------------------
(* The totals of the run item.                                             *)

\* One more partition adds its own records.
LEMMA RecordsAdd ==
    ASSUME NEW S \in SUBSET Partitions, NEW p \in Partitions \ S, NEW n \in [Partitions -> Nat]
    PROVE  /\ IsFiniteSet(RecordsOf(S, n))
           /\ Cardinality(RecordsOf(S \cup {p}, n)) = Cardinality(RecordsOf(S, n)) + n[p]
<1> DEFINE of(q) == {q} \X (1..n[q])
<1>1. ASSUME NEW q \in Partitions PROVE IsFiniteSet(of(q)) /\ Cardinality(of(q)) = n[q]
  <2>1. n[q] \in Nat
    OBVIOUS
  <2>2. IsFiniteSet(1..n[q]) /\ Cardinality(1..n[q]) = n[q]
    BY <2>1, FS_Interval
  <2>3. IsFiniteSet({q}) /\ Cardinality({q}) = 1
    BY FS_Singleton
  <2>4. IsFiniteSet(of(q)) /\ Cardinality(of(q)) = 1 * n[q]
    BY <2>2, <2>3, FS_Product
  <2> QED BY <2>1, <2>4
<1>2. IsFiniteSet(S)
  BY ScaleRunAssumption, FS_Subset
<1>3. IsFiniteSet({of(q) : q \in S})
  <2> DEFINE f == [q \in S |-> of(q)]
             T == {of(q) : q \in S}
  <2> HIDE DEF of
  <2>1. f \in [S -> T] /\ \A t \in T : \E q \in S : f[q] = t
    OBVIOUS
  <2> HIDE DEF f, T
  <2>2. IsFiniteSet(T)
    BY <1>2, <2>1, ImageIsFinite
  <2> QED BY <2>2 DEF T
<1>4. \A T \in {of(q) : q \in S} : IsFiniteSet(T)
  BY <1>1
<1>5. IsFiniteSet(RecordsOf(S, n))
  <2> HIDE DEF of
  <2>1. IsFiniteSet(UNION {of(q) : q \in S})
    BY <1>3, <1>4, FS_UNION
  <2> QED BY <2>1 DEF RecordsOf, of
<1>6. RecordsOf(S \cup {p}, n) = RecordsOf(S, n) \cup of(p)
  BY DEF RecordsOf
<1>7. RecordsOf(S, n) \cap of(p) = {}
  BY DEF RecordsOf
<1>8. Cardinality(RecordsOf(S, n)) \in Nat /\ n[p] \in Nat
  BY <1>5, FS_CardinalityType
<1>9. IsFiniteSet(of(p)) /\ Cardinality(of(p)) = n[p]
  BY <1>1
<1> HIDE DEF of
<1> DEFINE A == RecordsOf(S, n)
           B == of(p)
<1>10. IsFiniteSet(A) /\ IsFiniteSet(B) /\ A \cap B = {}
  BY <1>5, <1>7, <1>9
<1>11. Cardinality(A \cup B) = Cardinality(A) + n[p]
  <2> HIDE DEF A, B
  <2>1. Cardinality(A \cup B) = Cardinality(A) + Cardinality(B) - Cardinality(A \cap B)
    BY <1>10, FS_Union
  <2>2. Cardinality(A \cap B) = 0
    BY <1>10, FS_EmptySet
  <2>3. Cardinality(A) \in Nat /\ Cardinality(B) = n[p] /\ n[p] \in Nat
    BY <1>8, <1>9 DEF A, B
  <2> QED BY <2>1, <2>2, <2>3
<1> QED BY <1>5, <1>6, <1>11

TotalsInv == /\ run.generated = Cardinality(RecordsOf(CompletedSet, Rows))
             /\ run.quarantined = Cardinality(RecordsOf(CompletedSet, Bad))

LEMMA TotalsStep == ASSUME TypeOK, TotalsInv, [Next]_vars PROVE TotalsInv'
<1>1. CASE SameCounts /\ SameFinished
  <2>1. CompletedSet' = CompletedSet
    BY <1>1 DEF SameFinished, CompletedSet
  <2> QED BY <1>1, <2>1 DEF SameCounts, TotalsInv, RecordsOf
<1>2. ASSUME NEW w \in Workers, Completes(w) PROVE TotalsInv'
  <2> DEFINE p == workers[w].part
  <2>1. p \in Partitions /\ PartOpen(p)
    BY <1>2, CompletesEffect
  <2>2. p \notin CompletedSet /\ CompletedSet \in SUBSET Partitions
    BY <2>1 DEF PartOpen, CompletedSet, FinishedPart
  <2>3. (\A q \in Partitions \ {p} : parts'[q] = parts[q]) /\ parts'[p].status = "completed"
    BY <1>2, CompletesEffect
  <2>4. CompletedSet' = CompletedSet \cup {p}
    BY <2>1, <2>3 DEF CompletedSet
  <2>5. run'.generated = run.generated + Rows[p] /\ run'.quarantined = run.quarantined + Bad[p]
    BY <1>2, CompletesEffect
  <2>6. Rows \in [Partitions -> Nat] /\ Bad \in [Partitions -> Nat]
    BY ScaleRunAssumption
  <2> HIDE DEF p
  <2>7. /\ Cardinality(RecordsOf(CompletedSet \cup {p}, Rows))
             = Cardinality(RecordsOf(CompletedSet, Rows)) + Rows[p]
        /\ Cardinality(RecordsOf(CompletedSet \cup {p}, Bad))
             = Cardinality(RecordsOf(CompletedSet, Bad)) + Bad[p]
    BY <2>1, <2>2, <2>6, RecordsAdd
  <2>8. /\ Cardinality(RecordsOf(CompletedSet, Rows))' = Cardinality(RecordsOf(CompletedSet', Rows))
        /\ Cardinality(RecordsOf(CompletedSet, Bad))' = Cardinality(RecordsOf(CompletedSet', Bad))
    BY DEF RecordsOf
  <2> QED BY <2>4, <2>5, <2>7, <2>8 DEF TotalsInv
<1>3. ASSUME NEW w \in Workers, Fails(w) PROVE TotalsInv'
  <2> DEFINE p == workers[w].part
  <2>1. p \in Partitions /\ PartOpen(p)
    BY <1>3, FailsEffect
  <2>2. p \notin CompletedSet
    BY <2>1 DEF PartOpen, CompletedSet, FinishedPart
  <2>3. (\A q \in Partitions \ {p} : parts'[q] = parts[q]) /\ parts'[p].status = "failed"
    BY <1>3, FailsEffect
  <2>4. CompletedSet' = CompletedSet
    BY <2>2, <2>3 DEF CompletedSet
  <2>5. run'.generated = run.generated /\ run'.quarantined = run.quarantined
    BY <1>3, FailsEffect
  <2> QED BY <2>4, <2>5 DEF TotalsInv, RecordsOf
<1> QED BY <1>1, <1>2, <1>3, LedgerStep

\* However often partitions are delivered, retried and generated again, the totals of the run
\* item count each record of a completed partition once, and a published run all of its plan.
THEOREM TotalsExact == Spec => []TotalsAreExact
<1>1. ASSUME Init PROVE TotalsInv
  <2>1. /\ run.generated = 0 /\ run.quarantined = 0
        /\ \A p \in Partitions : parts[p].status = "absent"
    BY <1>1 DEF Init
  <2>2. CompletedSet = {}
    BY <2>1 DEF CompletedSet
  <2>3. RecordsOf({}, Rows) = {} /\ RecordsOf({}, Bad) = {}
    BY DEF RecordsOf
  <2> QED BY <2>1, <2>2, <2>3, FS_EmptySet DEF TotalsInv
<1>2. TotalsInv /\ DoneInv => TotalsAreExact
  BY DEF TotalsInv, DoneInv, TotalsAreExact
<1> QED BY <1>1, <1>2, TotalsStep, TypeCorrect, DoneInvariant, PTL DEF Spec
=============================================================================
