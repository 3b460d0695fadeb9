----------------------------- MODULE MarketData -----------------------------
(***************************************************************************)
(* market/: bars in immutable Parquet files with a catalog in PostgreSQL,  *)
(* and the yearly files and manifests of the historical datasets.  A file  *)
(* is published outside the transaction that catalogs it, so a process may *)
(* die, lose a race or raise in between.  A content-addressed file is the  *)
(* set of bars in it; a dataset has one bar for a year.                    *)
(***************************************************************************)
EXTENDS CommandSessions, FiniteSets

CONSTANTS
    MarketYears,    \* the market timestamps, and the years they lie in
    Quotes,         \* what a bar says
    SeedAt,         \* from when on the seeded assets are visible
    MaxFileBars     \* bound on the bars of an imported file

ASSUME MarketAssumption ==
    /\ MarketYears \subseteq Time /\ SeedAt \in Time /\ MaxFileBars \in Nat \ {0}

VARIABLES
    seeded,         \* whether the assets table holds the seed
    blobs,          \* the published Parquet files
    partitions,     \* market_partitions
    catalog,        \* market_observations
    yearFiles,      \* parquet/.../year=<YYYY>/bars.parquet
    manifests       \* manifests/<dataset-id>.json

marketVars == <<seeded, blobs, partitions, catalog, yearFiles, manifests>>

\* A bar is not observed before its market timestamp.
Bar == {b \in [year: MarketYears, at: Time, quote: Quotes] : b.year <= b.at}
NoBar == [year |-> "none"]
\* A partition and the manifest of a dataset name the bars they hold.
Partition == SUBSET Bar
Manifest == SUBSET Bar
CatalogRow == [bar: Bar, partition: Partition]

MarketInit ==
    /\ seeded = FALSE /\ blobs = {} /\ partitions = {} /\ catalog = {}
    /\ yearFiles = [y \in MarketYears |-> NoBar] /\ manifests = {}

\* market seed-assets
BeginMarketSeed(o) ==
    /\ ~seeded
    /\ Begin(o, [pc |-> "market_seeding"])
    /\ UNCHANGED marketVars

CommitMarketSeed(o) ==
    /\ At(o, "market_seeding")
    /\ seeded' = TRUE
    /\ Finish(o)
    /\ UNCHANGED <<blobs, partitions, catalog, yearFiles, manifests>>

\* get_asset_at the time each bar was observed.
AssetKnown(bars) == seeded /\ \A b \in bars : SeedAt <= b.at

Publishing(bars, dataset) == [pc |-> "publishing", bars |-> bars, dataset |-> dataset]

\* market ingest reads a file of bars that name their own observation times.
BeginMarketIngest(o) ==
    \E bars \in SUBSET Bar :
        /\ bars # {} /\ Cardinality(bars) <= MaxFileBars /\ AssetKnown(bars)
        /\ Begin(o, Publishing(bars, FALSE))
        /\ UNCHANGED marketVars

\* The connectors parse a row for each day; each bar carries the retrieval time.
HistoryBars(years, quote, at) == {[year |-> y, at |-> at, quote |-> quote[y]] : y \in years}

\* market ingest-history takes the time, fetches a range of years and checks
\* the quality of what it parsed.
BeginHistory(o) ==
    \E years \in SUBSET MarketYears : \E quote \in [years -> Quotes] :
        /\ years # {} /\ \A y \in years : y <= now
        /\ Begin(o, [pc |-> "linking", left |-> years, bars |-> HistoryBars(years, quote, now)])
        /\ UNCHANGED marketVars

\* write_bars links one year after another; an equal file is found.
LinkYear(o) ==
    /\ At(o, "linking")
    /\ \E b \in job[o].bars :
        /\ b.year \in job[o].left
        /\ yearFiles[b.year] \in {NoBar, b}
        /\ yearFiles' = [yearFiles EXCEPT ![b.year] = b]
        /\ Learn(o, [job[o] EXCEPT !.left = @ \ {b.year}])
        /\ UNCHANGED <<seeded, blobs, partitions, catalog, manifests>>

\* An immutable partition differs, or was linked since it was looked for: the
\* command raises, and the years already linked stay.
LinkRaises(o) ==
    /\ At(o, "linking")
    /\ \E b \in job[o].bars : b.year \in job[o].left /\ yearFiles[b.year] # NoBar
    /\ Finish(o)
    /\ UNCHANGED marketVars

LinkDone(o) ==
    /\ At(o, "linking") /\ job[o].left = {} /\ AssetKnown(job[o].bars)
    /\ Learn(o, Publishing(job[o].bars, TRUE))
    /\ UNCHANGED marketVars

\* Variant: the file is left to be written with the commit.
PublishNothing(o) ==
    /\ At(o, "publishing")
    /\ Learn(o, [job[o] EXCEPT !.pc = "selecting"])
    /\ UNCHANGED marketVars

\* write_observations links the file under its hash before any row is added.
Publish(o) ==
    /\ At(o, "publishing")
    /\ blobs' = blobs \cup {job[o].bars}
    /\ Learn(o, [job[o] EXCEPT !.pc = "selecting"])
    /\ UNCHANGED <<seeded, partitions, catalog, yearFiles, manifests>>

Catalogued == {r.bar : r \in catalog}

\* Bars that are catalogued already are duplicates and keep their row.
SelectRows(o) ==
    /\ At(o, "selecting")
    /\ Learn(o, [pc |-> IF job[o].dataset THEN "manifesting" ELSE "cataloguing",
                 bars |-> job[o].bars, new |-> job[o].bars \ Catalogued,
                 register |-> job[o].bars \notin partitions])
    /\ UNCHANGED marketVars

\* The manifest is a file too, written before the commit.
WriteManifest(o) ==
    /\ At(o, "manifesting")
    /\ manifests' = manifests \cup {job[o].bars}
    /\ Proceed(o, "cataloguing")
    /\ UNCHANGED <<seeded, blobs, partitions, catalog, yearFiles>>

\* Another command has inserted the partition or a bar since it was looked for.
Collides(j) == (j.register /\ j.bars \in partitions) \/ (j.new \cap Catalogued) # {}

CommitRows(o) ==
    LET j == job[o]
    IN  /\ At(o, "cataloguing") /\ ~Collides(j)
        /\ partitions' = partitions \cup {j.bars}
        /\ catalog' = catalog \cup {[bar |-> b, partition |-> j.bars] : b \in j.new}
        /\ Finish(o)
        /\ UNCHANGED <<seeded, blobs, yearFiles, manifests>>

RowsRefused(o) ==
    /\ At(o, "cataloguing") /\ Collides(job[o])
    /\ Finish(o)
    /\ UNCHANGED marketVars

MarketNext(o) ==
    \/ Free(o) /\ (BeginMarketSeed(o) \/ BeginMarketIngest(o)
                      \/ BeginHistory(o))
    \/ CommitMarketSeed(o) \/ LinkYear(o) \/ LinkRaises(o) \/ LinkDone(o)
    \/ Publish(o) \/ SelectRows(o) \/ WriteManifest(o) \/ CommitRows(o)
    \/ RowsRefused(o)

\* get_market_data: of each market timestamp the row last observed by the cutoff ...
LatestRows(year, cutoff) ==
    LET visible == {r \in catalog : r.bar.year = year /\ r.bar.at <= cutoff}
    IN  {r \in visible : \A q \in visible : q.bar.at <= r.bar.at}

\* ... is looked up in its partition, whose file must be there.
Served(year, cutoff) ==
    {r.bar : r \in {q \in LatestRows(year, cutoff) :
        q.partition \in partitions \cap blobs /\ q.bar \in q.partition}}

MarketTypeOK ==
    /\ seeded \in BOOLEAN
    /\ blobs \subseteq Partition /\ partitions \subseteq Partition
    /\ catalog \subseteq CatalogRow
    /\ yearFiles \in [MarketYears -> Bar \cup {NoBar}]
    /\ manifests \subseteq Manifest

\* docs/market-data.md: the latest version visible by the requested cutoff is
\* returned.  Whichever commands raced, raised or died, a catalogued bar is
\* served from a published file: a cutoff that sees a bar is given one of its
\* market timestamp, none older than it and none from after the cutoff.
EveryVisibleBarIsServed ==
    \A r \in catalog : \A cutoff \in r.bar.at..MaxTime :
        /\ Served(r.bar.year, cutoff) # {}
        /\ \A b \in Served(r.bar.year, cutoff) : r.bar.at <= b.at /\ b.at <= cutoff

\* docs/historical-market-data.md: a differing existing partition fails closed.
\* Every manifest ever written still names the content of its yearly files,
\* which are published in one file for the backtests too.
ManifestsMatchTheirFiles ==
    \A bars \in manifests :
        /\ bars \in blobs
        /\ \A b \in bars : yearFiles[b.year] = b

\* Of one history, however it is linked, archived and published: what a manifest names
\* can be read as it was, and what was known at a cutoff is served to it.
ArchiveServesItsManifests == EveryVisibleBarIsServed /\ ManifestsMatchTheirFiles

=============================================================================
