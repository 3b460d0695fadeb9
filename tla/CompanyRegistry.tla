---------------------------- MODULE CompanyRegistry ----------------------------
(***************************************************************************)
(* company/: versions of companies, their filings, the fundamentals read   *)
(* of filings and their restatements, and exposures.  The companies are    *)
(* seeded; every other row comes from a caller of the repository, one to a *)
(* session.  Names, listings, values and periods are left out, and so are  *)
(* accession numbers: no two filings are the same one.                     *)
(***************************************************************************)
EXTENDS CommandSessions, FiniteSets

CONSTANTS
    Companies,      \* the curated universe
    Statements,     \* items of evidence about companies
    MaxFacts        \* bound on the rows of the registry

ASSUME CompanyAssumption ==
    /\ IsFiniteSet(Companies) /\ Statements # {}
    /\ MaxFacts \in Nat \ {0}         \* no company is seeded beyond the bound

VARIABLES
    statements,     \* evidence: when each item was observed
    companies,      \* companies, by version
    filings,        \* filings
    fundamentals,   \* fundamentals
    exposures       \* company_exposures

companyVars == <<statements, companies, filings, fundamentals, exposures>>

FactId == 1..MaxCommands
Always == MaxTime + 1                   \* an open end of a validity
CompanyVersion == [company : Companies, from : Time, until : 1..Always, at : Time, version : 1..MaxFacts]
Filing == [id : FactId, company : Companies, cites : SUBSET Statements, at : Time, restates : {0} \cup FactId]
Fundamental == [id : FactId, company : Companies, filing : FactId,
                cites : SUBSET Statements, at : Time, restates : {0} \cup FactId]
Exposure == [id : FactId, company : Companies, from : Time, until : 1..Always,
             cites : SUBSET Statements, at : Time, version : 1..MaxFacts]

\* company seed: the curated companies in their first version.
SeedVersion(c) == [company |-> c, from |-> 0, until |-> Always, at |-> 0, version |-> 1]

\* known: the evidence that is there from the first, and a filing and a fact of each
\* company that cite an item of it.
CompanyInit(known) ==
    LET cited == IF known = {} THEN {} ELSE {CHOOSE s \in known : TRUE}
        filed == {c \in Companies : cited # {}}
    IN  /\ statements = [s \in known |-> 0]
        /\ companies = {SeedVersion(c) : c \in Companies}
        /\ filings = {[id |-> 1, company |-> c, cites |-> cited, at |-> 0, restates |-> 0] : c \in filed}
        /\ fundamentals = {[id |-> 2, company |-> c, filing |-> 1, cites |-> cited,
                            at |-> 0, restates |-> 0] : c \in filed}
        /\ exposures = {}

\* The other components ingest an item of evidence.
StatementArrives ==
    /\ \E s \in Statements \ DOMAIN statements :
          statements' = [q \in DOMAIN statements \cup {s} |-> IF q = s THEN now ELSE statements[q]]
    /\ UNCHANGED <<companies, filings, fundamentals, exposures>>

\* Variant: _evidence only asks whether the items are known.
EvidenceKnown(items, at) == items # {} /\ items \subseteq DOMAIN statements

\* _evidence: the items are known, and none was observed after the row.
EvidenceBy(items, at) == items # {} /\ \A s \in items : s \in DOMAIN statements /\ statements[s] <= at

VisibleVersions(c, cutoff) ==
    {v \in companies : v.company = c /\ v.at <= cutoff /\ v.from <= cutoff /\ cutoff < v.until}

\* get_company_at: the highest version that is visible and valid.
CompaniesAt(c, cutoff) ==
    LET visible == VisibleVersions(c, cutoff)
    IN  {v \in visible : \A w \in visible : w.version <= v.version}

FactsAdded ==
    Cardinality(companies) + Cardinality(filings) + Cardinality(fundamentals) + Cardinality(exposures)

AddsFact(o, table, row) ==
    /\ Begin(o, [pc |-> "company_insert", table |-> table, row |-> row])
    /\ UNCHANGED companyVars

FactAllowed(o) == Free(o) /\ FactsAdded < MaxFacts

\* add_company: the version after the latest one.
AddCompany(o) ==
    /\ FactAllowed(o)
    /\ \E c \in Companies, from, at \in 0..now, until \in {now + 1, Always} :
        LET versions == {v.version : v \in {w \in companies : w.company = c}}
        IN  \E last \in versions :
                /\ \A v \in versions : v <= last
                /\ AddsFact(o, "companies", [company |-> c, from |-> from, until |-> until,
                                             at |-> at, version |-> last + 1])

\* add_filing
AddFiling(o) ==
    /\ FactAllowed(o)
    /\ \E c \in Companies, items \in SUBSET Statements, at \in 0..now, prior \in {0} \cup {f.id : f \in filings} :
          /\ CompaniesAt(c, at) # {} /\ EvidenceBy(items, at)
          /\ AddsFact(o, "filings", [id |-> started + 1, company |-> c, cites |-> items,
                                     at |-> at, restates |-> prior])

\* add_fundamental: a fact of a filing of its company, or a restatement of any fact.
AddFundamental(o) ==
    /\ FactAllowed(o)
    /\ \E f \in filings, items \in SUBSET Statements, at \in 0..now,
          prior \in {0} \cup {x.id : x \in fundamentals} :
          /\ EvidenceBy(items, at)
          /\ AddsFact(o, "fundamentals", [id |-> started + 1, company |-> f.company, filing |-> f.id,
                                          cites |-> items, at |-> at, restates |-> prior])

\* add_exposure
AddExposure(o) ==
    /\ FactAllowed(o)
    /\ \E c \in Companies, items \in SUBSET Statements, from, at \in 0..now, until \in {now + 1, Always},
          version \in {1, 1 + Cardinality(exposures)} :
          /\ CompaniesAt(c, at) # {} /\ EvidenceBy(items, at)
          /\ AddsFact(o, "exposures", [id |-> started + 1, company |-> c, from |-> from, until |-> until,
                                       cites |-> items, at |-> at, version |-> version])

FilingsAt(c, cutoff) == {f \in filings : f.company = c /\ f.at <= cutoff}

\* get_fundamentals: of what is visible, the facts that none of it restates.
FundamentalsAt(c, cutoff) ==
    LET seen == {f \in fundamentals : f.company = c /\ f.at <= cutoff}
    IN  {f \in seen : \A g \in seen : g.restates # f.id}

\* get_exposures: the highest version of them; which, of the same version, is open.
ExposuresAt(c, cutoff) ==
    LET seen == {x \in exposures : /\ x.company = c /\ x.at <= cutoff
                                   /\ x.from <= cutoff /\ cutoff < x.until}
    IN  {x \in seen : \A y \in seen : y.version <= x.version}

KeepsFact(o, table, rows) == IF job[o].table = table THEN rows \cup {job[o].row} ELSE rows

CommitFact(o) ==
    /\ At(o, "company_insert")
    /\ companies' = KeepsFact(o, "companies", companies)
    /\ filings' = KeepsFact(o, "filings", filings)
    /\ fundamentals' = KeepsFact(o, "fundamentals", fundamentals)
    /\ exposures' = KeepsFact(o, "exposures", exposures)
    /\ Finish(o)
    /\ UNCHANGED statements

CompanyNext(o) ==
    \/ AddCompany(o) \/ AddFiling(o) \/ AddFundamental(o) \/ AddExposure(o) \/ CommitFact(o)

=============================================================================
