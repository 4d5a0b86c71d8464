------------------------------ MODULE Connectors ------------------------------
(***************************************************************************)
(* How the twelve connectors of the snapshot collector walk their sources  *)
(* (public_intelligence/connectors).  A source lists its records from the  *)
(* newest to the oldest; records are numbered by age, and "v" counts those *)
(* published since the start.  A walk is a list of pages, and a token says *)
(* where a page begins.                                                    *)
(***************************************************************************)
EXTENDS Integers, FiniteSets

CONSTANTS
    Records,    \* records of the source at the start
    PageSize,
    \* for each connector, the entries of its source that are:
    Malformed,  \* no records (no JSON object; for PubMed, an identifier without an article)
    Outside,    \* dated outside the range that was asked for
    Undated,    \* without a date that can be read
    Foreign,    \* of another agency, organization, branch or site than was asked for
    Nameless    \* without the identifier of the source

Cursors    == {"crossref", "openalex", "datacite"}
Offsets    == {"osti", "usaspending", "federal_register", "grants_gov", "pubmed", "sam_gov"}
Files      == {"sbir", "uspto_patents", "onr_website"}
Connectors == Cursors \cup Offsets \cup Files

ASSUME ConnectorsAssumption ==
    /\ Records \in Nat /\ PageSize \in Nat \ {0}
    /\ \A facts \in {Malformed, Outside, Undated, Foreign, Nameless} :
          facts \in [Connectors -> SUBSET Nat]

-----------------------------------------------------------------------------
(* What each connector makes of an entry: the "record" of it, or nothing:  *)
(* then it has "passed" it over, did not even count it ("unlisted"), or    *)
(* "refused" it by raising.                                                *)

\* A date that cannot be read is no date, and no date is within any range.
Late(s, k) == k \in Outside[s] \ Undated[s]

\* Where the source is trusted to have filtered, every object becomes a record; without an
\* identifier of the source, the record is named by a digest of its content.
CrossrefRecord(k)    == IF k \in Malformed["crossref"] THEN "passed" ELSE "record"
OpenAlexRecord(k)    == IF k \in Malformed["openalex"] THEN "passed" ELSE "record"
UsaSpendingRecord(k) == IF k \in Malformed["usaspending"] THEN "passed" ELSE "record"

DataCiteRecord(k) ==
    IF k \in Malformed["datacite"] \/ Late("datacite", k) THEN "passed" ELSE "record"

\* What is no object does not count for the offset, nor for the length of the page.
OstiRecord(k) ==
    IF k \in Malformed["osti"] THEN "unlisted"
    ELSE IF Late("osti", k) THEN "passed" ELSE "record"

\* An agency that the record names, and that is not the one asked for, is an error.
FederalRegisterRecord(k) ==
    IF k \in Malformed["federal_register"] \/ Late("federal_register", k) THEN "passed"
    ELSE IF k \in Foreign["federal_register"] THEN "refused" ELSE "record"

GrantsGovRecord(k) ==
    IF k \in Malformed["grants_gov"] \/ Late("grants_gov", k) THEN "passed"
    ELSE IF k \in Foreign["grants_gov"] THEN "refused" ELSE "record"

\* An article must have its PMID (what has no article at all refuses the page, see below).
PubMedRecord(k) ==
    IF k \in Malformed["pubmed"] THEN "refused"
    ELSE IF Late("pubmed", k) THEN "passed"
    ELSE IF k \in Nameless["pubmed"] THEN "refused" ELSE "record"

\* A notice must have its date, lie in the range and belong to the organization.
SamGovRecord(k) ==
    IF k \in Malformed["sam_gov"] THEN "passed"
    ELSE IF k \in Undated["sam_gov"] \cup Outside["sam_gov"] \cup Foreign["sam_gov"]
         THEN "refused" ELSE "record"

\* Rows of another branch than the one that is filtered by.
SbirRecord(k) == IF k \in Foreign["sbir"] THEN "passed" ELSE "record"

\* A patent is selected by an award or an organization of the sponsor, and by its date
\* (a range is asked for).
UsptoSelects(k) ==
    k \notin Foreign["uspto_patents"] \cup Undated["uspto_patents"] \cup Outside["uspto_patents"]
UsptoRecord(k) == IF UsptoSelects(k) THEN "record" ELSE "unlisted"

\* Links that leave the site, repeat another, or are excluded by title or by robots.txt.
OnrWebsiteRecord(k) == IF k \in Foreign["onr_website"] THEN "passed" ELSE "record"

Outcome(s, k) ==
    CASE s = "crossref"         -> CrossrefRecord(k)
      [] s = "openalex"         -> OpenAlexRecord(k)
      [] s = "datacite"         -> DataCiteRecord(k)
      [] s = "osti"             -> OstiRecord(k)
      [] s = "usaspending"      -> UsaSpendingRecord(k)
      [] s = "federal_register" -> FederalRegisterRecord(k)
      [] s = "grants_gov"       -> GrantsGovRecord(k)
      [] s = "pubmed"           -> PubMedRecord(k)
      [] s = "sam_gov"          -> SamGovRecord(k)
      [] s = "sbir"             -> SbirRecord(k)
      [] s = "uspto_patents"    -> UsptoRecord(k)
      [] OTHER                  -> OnrWebsiteRecord(k)

Emits(s, k)   == Outcome(s, k) = "record"
Refuses(s, k) == Outcome(s, k) = "refused"

-----------------------------------------------------------------------------
(* The walk.                                                               *)

Latest(v)    == Records + v
ItemAt(i, v) == Latest(v) + 1 - i

\* A page begins at "from"; "next" is the token of the one after it, unless it is the last.
PageEnd(from, v)    == IF from + PageSize - 1 < Latest(v) THEN from + PageSize - 1 ELSE Latest(v)
Short(from, to)     == to - from + 1 < PageSize
More(to, v)         == to < Latest(v)
Page(from, to, next, last) == [from |-> from, to |-> to, next |-> next, last |-> last]

\* A cursor stands for what is left (plus one); 0 is the initial cursor.
CursorStart(at, v)  == IF at = 0 THEN 1 ELSE Latest(v) + 2 - at
CursorAfter(to, v)  == Latest(v) - to + 1

\* The entries of a page that count: an offset is a number of them.
Listed(s, from, to, v) == Cardinality({i \in from..to : Outcome(s, ItemAt(i, v)) # "unlisted"})

-----------------------------------------------------------------------------
(* collect of each connector: the next page, and whether it is the last.   *)

Crossref(at, v) ==
    LET from == CursorStart(at, v)
        to   == PageEnd(from, v)
    IN  Page(from, to, CursorAfter(to, v), Short(from, to))

OpenAlex(at, v) ==
    LET from == CursorStart(at, v)
        to   == PageEnd(from, v)
    IN  Page(from, to, CursorAfter(to, v), Short(from, to) \/ ~More(to, v))

DataCite(at, v) ==
    LET from == CursorStart(at, v)
        to   == PageEnd(from, v)
    IN  Page(from, to, CursorAfter(to, v), ~More(to, v))

\* The length that is compared with the page size is that of the records alone.
Osti(at, v) ==
    LET to == PageEnd(at + 1, v)
    IN  Page(at + 1, to, at + PageSize, Listed("osti", at + 1, to, v) < PageSize)

UsaSpending(at, v) ==
    LET to == PageEnd(at + 1, v) IN Page(at + 1, to, at + PageSize, ~More(to, v))

FederalRegister(at, v) ==
    LET to == PageEnd(at + 1, v) IN Page(at + 1, to, at + PageSize, ~More(to, v))

GrantsGov(at, v) ==
    LET to == PageEnd(at + 1, v) IN Page(at + 1, to, to, ~More(to, v) \/ Short(at + 1, to))

PubMed(at, v) ==
    LET to == PageEnd(at + 1, v) IN Page(at + 1, to, to, ~More(to, v))

\* The windows of dates are walked one after the other like a single list.
SamGov(at, v) ==
    LET to == PageEnd(at + 1, v) IN Page(at + 1, to, to, ~More(to, v))

\* A source that is one file is read from its beginning every time.
Sbir(v)       == Page(1, Latest(v), 0, TRUE)
Uspto(v)      == Page(1, Latest(v), 0, TRUE)
OnrWebsite(v) == Page(1, Latest(v), 0, TRUE)

Read(c, at, v) ==
    CASE c = "crossref"         -> Crossref(at, v)
      [] c = "openalex"         -> OpenAlex(at, v)
      [] c = "datacite"         -> DataCite(at, v)
      [] c = "osti"             -> Osti(at, v)
      [] c = "usaspending"      -> UsaSpending(at, v)
      [] c = "federal_register" -> FederalRegister(at, v)
      [] c = "grants_gov"       -> GrantsGov(at, v)
      [] c = "pubmed"           -> PubMed(at, v)
      [] c = "sam_gov"          -> SamGov(at, v)
      [] c = "sbir"             -> Sbir(v)
      [] c = "uspto_patents"    -> Uspto(v)
      [] OTHER                  -> OnrWebsite(v)

-----------------------------------------------------------------------------
\* PubMed: an identifier without an article does not reconcile, whatever else the page has.
RefusesPage(s, page, v) ==
    s = "pubmed" /\ \E i \in page.from..page.to : ItemAt(i, v) \in Malformed[s]

\* What is passed over before the limit is asked: rows of files, and what does not count.
SeenFirst(s, k) == Outcome(s, k) = "unlisted" \/ (s \in Files /\ Outcome(s, k) = "passed")

\* SAM.gov stops at the limit before it sees that the page was the last one.
StopsAtLimit(s) == s = "sam_gov"

\* The entry that a walk sees first when it resumes on a page.
ResumeAt(s, page, off, v) ==
    page.from + Cardinality({i \in page.from..page.to : Listed(s, page.from, i, v) <= off})
=============================================================================
