# MarketEvolver: TLA+ verification project

MarketEvolver is a governed research laboratory for market evidence: it retains
raw evidence, derives observations, events and knowledge from it, evaluates
agents and experiments on point-in-time data, and runs a simulated ("paper")
account. Its rule throughout is *append-only and replayable*: rows are added and
never changed (`storage/models.py` refuses updates and deletes of governed rows),
each row is named by a content hash, and a reader asks what was visible at a
cutoff. There is no server: every operation is one command of the CLI, an
operating-system process with a PostgreSQL session of its own. So the hard
behaviour is what happens *between* the commits and queries of several such
processes, what a dead process leaves, and what stale reads are used for.

The project holds the TLA+ modules, the TLC configurations, the TLAPS proofs and
`PROJECT.json`, which maps each definition to source lines. Paths below are under
`src/src/market_evolver/` unless they start with `docs/`.

## 1. Inventory

| Component | State it keeps | Operations | What makes it hard | What makes it correct |
|---|---|---|---|---|
| ingestion runner (`ingestion/runner.py`, `repositories.py`) | manifests, receipts, sources, observations | `run`: manifest, fetch, store, register, receipt, parse, insert, finish | four commits in one run; concurrent runs of one payload; crash or failure between commits; retries | observations trace to retained bytes; one first-observed time per payload; failed runs add no observations; completed payloads are skipped; runs resolve |
| artifact store (`storage/artifacts.py`) | content-addressed files | `put`, `exists`, `read` | two writers of one digest, crash while writing | a payload is present whole or not at all |
| relational storage (`storage/models.py`, `database.py`, `repositories.py`) | every table | insert, select; updates refused | unique constraints wait for other transactions | rows are never changed |
| connectors (`ingestion/connectors.py`, `boi.py`) | none | fetch, normalize, parse | remote answers change between fetches | deterministic parse |
| paper runtime and risk governor (`paper/runtime.py`, `risk.py`, `accounting.py`) | orders, risk evaluations, decisions, fills, account snapshots | `propose`, `evaluate`, `fill` | an evaluation is used on a later account; the caller threads the snapshot | the ledger explains every snapshot; limits and kill state hold; the reserve is kept |
| paper portfolio lifecycle (`paper/repository.py`, cli) | portfolio versions, snapshots, journal | create, add, start, pause, resume, stop, step | two operators change the same version; `add_portfolio` stores any status | each number once; every version follows the one it revises; final once activated |
| experiment lab (`experiment/`) | specifications, test-set accesses, results | add, revise, backtest | access committed before the result; deaths between the two; overlapping positions | results are out of sample; figures follow the rules |
| topology registry (`topology/`) | versions, evaluations, registry events | build, evaluate, activate, rollback, `active_at` | the time of an event is taken before its commit; reads of a command are separate queries | champions are certified; rollback restores a champion |
| expert evolution registry (`evolve/`) | proposals, versions, evaluations, holdout accesses, champion events | construct, evaluate, promote, rollback, audit | as above; count-then-insert audits | capabilities only shrink; champions passed |
| expert agents (`expert/`) | definitions, scorecards, tool audits, assessments, routings | seed, suspend, add, authorize, assess, route | an expert loaded earlier is used later; racing revisions fork; nothing but the lineage is checked | no older version is used in place of a suspension that was there |
| research (`research/`) | contexts, manifests, aliases, provider calls, hypotheses, reviews, traces | assemble, call, review | many queries in one context; providers that fail; commits before and after a call | every cutoff can be researched; traces replay their context |
| prospective campaign (`research/gates.py`, `governed.py`, `prospective.py`, `external/provider.py`) | accounts of calls, sealed commitments, predictions, a ledger | gate, call, seal, predict, append | lost answers and retries; times stated by callers | predictions precede what they predict; one accounted answer; steps in order |
| historical replay (`replay/`) | cases, commitments, runs, outcomes | replay at a cutoff, measure an outcome | later versions of what was visible | only rows of the cutoff, none of those there left out |
| market data (`market/`) | Parquet files, partitions, catalog, yearly files, manifests | seed, import, ingest a history, read at a cutoff | files outside the transaction; a history written year by year | what a manifest names is there; what was known is served |
| event observatory (`observatory/`) | observations, canonical events, transitions, support | ingest, extract | late and revised observations, concurrent passes | events keep the history of what they supersede |
| knowledge graph (`knowledge/`) | entities, relationship versions | seed, add, trace at a cutoff | bitemporal versions | a trace reaches exactly the neighbourhood |
| evidence archive (`archive/`) | snapshots, vintages, gaps, run manifests | run, record gap, evaluate an upgrade | a commit per payload in a failing run | manifests claim no more than is there |
| telegram connector (`telegram/`) | checkpoints, posts, edges, runs | run, live validation | windows, limits and ages, edits to and fro, overlapping runs | nothing a run could read of the last messages is skipped; the newest post is current |
| news lab (`news/`) | receipts, items, quarantine, candidates | run | two queries, then the insert; re-ingestion; one link twice in a feed | each entry has its item |
| evidence fusion (`fusion/`) | claims, lineage, corroborations, resolutions, contradictions, scores, reputations | add, resolve, score, calculate | late and racing resolutions, rows dated back; several queries in one calculation | reputations keep to their cutoff |
| social lab (`social/`) | sources, posts, rumors, narratives, propagation, clusters, reputations | add, read at a cutoff | versions in any order | no version beside its revision |
| government lab (`government/`) | actions, transitions, candidates | add, transition, extract | backdated and racing transitions | statuses are reached along the graph |
| geopolitical lab (`geopolitical/`) | candidates, reviews, events, paths, corroborations | extract, review, add, report | three queries in one report | reports are of their cutoff |
| company and filings (`company/`) | company versions, filings, fundamentals, exposures | add, restate, read at a cutoff | citations observed later than the row | cited evidence is visible |
| macro and trends lab (`macro/`) | releases, trend signals | ingest, correct, calculate | late and backdated corrections | corrections supersede |
| external harness (`external/`) | campaigns, containers | run third-party agents | subprocesses and timeouts | isolation |
| source registry (`sources/`), lab base (`labs/`), CLI, migrations, telemetry, validation | static tables, schema, displays | dispatch and reports | none of their own | agree with the components they display |

**Interactions.** Everything meets in the database. Ingestion feeds the
observatory by a *separate* commit after its own; experiments license paper
portfolios; the company registry and the rows of every laboratory ("leads") feed
the contexts of research; evolution and topology registries name the versions that
experts and panels run with; replay and research read at a cutoff what all the
others keep ingesting. Nothing calls back, and no component waits for another except
through row locks. Where two components share tables the modules share them too
(`PaperPortfolio` extends `ExperimentLab`, `ResearchLab` extends `CompanyRegistry`);
where one only reads what others ingest, the others are actions of arrival
(`EvidenceArrives`, `BarArrives`, `StatementArrives`, `LeadArrives`, `ReportArrives`, `NoticeArrives`,
`BulletinObserved`).

The hazards of this code, each at its line with the properties that watch it, are in
`PROJECT.json` under `hazards`.

## 2. Modules

| Module | What it is | Checked in |
|---|---|---|
| `Ingestion` | the ingestion runner with its artifact store and transactions | `MCIngestion` |
| `RetainedEvidence` | abstract specification: what ingestion promises to point-in-time readers | `MCIngestion` |
| `PaperRuntime` | orders, risk governor, fills and account snapshots | `MCPaperRuntime` |
| `TopologyRegistry` | topology versions, evaluations and the champion history | `MCTopologyRegistry` |
| `CommandSessions` | the processes of the command line, shared by all modules below | both desks |
| `ExperimentLab`, `PaperPortfolio` | specifications, test accesses, results; portfolio versions licensed by them | research desk, part `lab` |
| `Backtest` | the trade loop of a backtest | part `backtest` |
| `ExpertEvolution` | proposals, challengers, evaluations, champions, holdouts | part `evolution` |
| `ExpertAgents` | definitions, tool grants, routing | part `agents` |
| `MacroTrends` | releases, corrections, trends | part `macro` |
| `EventObservatory` | observations and the extraction of events | part `observatory` |
| `MarketData` | Parquet files, catalog, yearly files, manifests | part `market` |
| `ReplayLab` | a case, its commitments and outcomes | part `replay` |
| `CompanyRegistry`, `ResearchLab` | company facts; contexts, provider calls, hypotheses, reviews, traces | parts `company`, `context`, `research` |
| `GovernedCampaign` | evidence gate, provider call with retries, sealing, ledger | part `campaign` |
| `TelegramConnector` | checkpoints, windows, posts, live candidates | evidence desk, part `telegram` |
| `EvidenceArchive` | vintages, run manifests, gaps, the replay upgrade | part `archive` |
| `NewsLab` | receipts, items, quarantine, candidates | part `news` |
| `KnowledgeGraph` | relationship versions and traces | part `knowledge` |
| `Revisions` | rows that revise rows: what follows what, what is current | used by the next three |
| `EvidenceFusion` | claims, resolutions, reputations | part `fusion` |
| `GeopoliticalLab` | candidates, reviews, events, reports | part `geopolitical` |
| `SocialLab` | posts, rumors and what is noted of them | part `social` |
| `GovernmentLab` | actions and the transitions of their status | part `government` |
| `ResearchDesk`, `EvidenceDesk` | the components of the two desks side by side | `MCResearchDesk`, `MCEvidenceDesk` |
| `*Proofs` | TLAPS proofs, section 5 | `tlapm` |
| `MC*` | small constants, bounds of each part, symmetry | |

Definitions marked `Variant:` in their comment are not part of any specification:
each is a plausible mistake of the code, used to show that a property notices it.

### How commands are modelled

A module about one component states its tables as VARIABLES and each command as the
sequence of its accesses to shared state. In `CommandSessions` the process that operator
`o` started knows `job[o]`: `Begin` starts one (the clock is read, the first query runs),
`Learn` runs a further query, `Finish` ends it, `Dies` kills it between two steps, and
`Tick` moves the wall clock. A step that adds rows is a commit: rows become visible at
once and whole, and what a process that dies, raises or loses a unique key had only
flushed is gone. Reads are separate actions whenever the code runs separate queries and
other processes could commit in between (PostgreSQL's READ COMMITTED, the default, as the
engine sets no isolation level); queries of one action are those between which nothing can matter. A refused
commit (a unique key, a check that raises) is an action of its own. So every model admits
the interleavings of its commands, late and backdated rows wherever a caller states the
time, and a crash between any two accesses.

Components whose only callers are tests and library users (fusion, social,
government, geopolitical and company repositories, expert tools, the prospective
ledger) are modelled as their operations in sessions of their own: what a caller passes
is any value that the constructors of the schemas accept, with the restrictions named
below. Where a row names the time of its observation, that is any time its constructor and
repository accept, the past included, and not only the clock.

`ResearchDesk` and `EvidenceDesk` put the components that share no table side by
side in one specification: the variable `part` chooses in `Init` which of them a behaviour
is of, and `ClockOf` and `CommandsOf`, which the MC modules give, bound the clock and the commands of each part. This
is a device of checking, to ask related questions in one run; no interaction is lost, as
components that share a table are one part (`lab` composes specifications with
portfolios, `research` the registry with everything built on it).

### Ingestion

A run is a process; `run[r].pc` is the point it has reached in
`IngestionRunner.run`. One action is one access to something shared:

| Action | Code |
|---|---|
| `Start` | the RUNNING manifest and its commit (runner.py:55-70) |
| `Fetch`, `CheckStore`, `PersistRaw` | fetch, `artifacts.exists`, `artifacts.put` (75-80) |
| `SelectArtifactRow`, `InsertArtifactRow` | `add_artifact_metadata`: its query and its INSERT |
| `FindNoReceipt`, `CommitReceipt` | no receipt: insert and commit one (83-103) |
| `ReuseReceipt`, `SkipCompleted` | a receipt exists: resume with its first-observed time, or finish with duplicates only (104-124) |
| `ParseAndSelect`, `InsertBatch`, `FinishSucceeded` | parse, build the Source, insert, commit with the SUCCEEDED manifest (126-191) |
| `Fail` | any exception: rollback, FAILED manifest (192-208) |
| `Crash` | the process dies between any two steps |

`held` is what a session inserted and did not commit. An INSERT on a key that
another session holds waits (its action is disabled) and is refused once that row
is committed; a refused statement leaves only `Fail`. All items of a payload are
inserted in one transaction, so a batch is one record. A batch's identity includes
`ingested_at` since the `Source` content id covers every field (`schemas.py:38-73`).
Fetched content, content types and the clock are arbitrary. A run's `Fail` is
enabled at every step: governance checks, network, parser and database errors are
all raised through the same handler.

`RetainedEvidence` has two variables and two actions: a payload of a dataset is
*retained* once with one first-observed time, then *published* under it. The
refinement mapping sends committed receipts to `retained` and committed batches to
`published` (dropping `ingested_at`).

### PaperRuntime

The caller's account is the last snapshot; `Propose`, `Evaluate`, `Fill` and
`Decline` (a fill of an evaluation that approves nothing) are the four paths of
`PaperRuntime`, `Tick` and `MarketMoves` the environment. `EvaluateOrder` is
`evaluate_order` with its four exits in the code's order: impossible input, failed
prechecks and kill state, portfolio halt, then sizing, counts, drawdown and costs.
`ApplyFill` is `apply_fill`. Several orders may be evaluated before one of them is
filled, which is how an evaluation goes stale: the code lets `fill` take any
earlier evaluation with any account.

`Cost` is commission with its minimum, spread and slippage, the last two being one percentage.
Abstracted: average cost, realized and unrealized profit, foreign exchange and tax
(they enter no guard modelled here); exact decimals are integers with floor
division; the currency cap has the form of the sector cap (both subtract an exposure
that is always empty). Freshness, evidence, asset and strategy prechecks are the Boolean
`admissible`, the checks of causality are `causal`. All instants belong to one
trading day. Bounds of the model, not of the code: one unevaluated order at a time,
each order evaluated and decided once, the clock moves once between two snapshots.

### TopologyRegistry

An operator's process (`cmd[op]`) takes its time first, then reads, then commits,
as `_topology_command` does (cli.py:2664-2766). `VisibleAt` is `active_at`; ties of
equal times may come back in any order, so it yields a set. `Abandon` is a refusal or
the death of the process. A rejected and a quarantined evaluation are one value as
no command tells them apart.

### ExperimentLab and PaperPortfolio

`specs` is a sequence: a specification is named by its place, and `CheckRevision` is the
query for a validated prior row before `CommitSpec` inserts. A backtest is three steps:
`BeginBacktest` reads the specification, `CommitAccess` or `RepeatAccess` commits the access
to the test window, `CommitResult` or `EngineRaises` follows; a death between them leaves an
access without a result. A transition is the latest version read plus one. `BeginAdd` is
`add_portfolio` for any caller of the library: it stores whatever status and strategy the row
names, a first row may have any number, and a later one must revise the latest version while
that is configured (`MayAdd`). The field `revision_of` is what the row was checked against, so
that a row added first is told from a revision. `Conflicts` is the primary key, which decides every race
(`LoseRace`). `paper step` writes an entry at a time the operator names, and journal rows carry
no time here.

### Backtest

One step for each signal, in the code's order: skipped without counting, skipped,
raised, or executed by `Execute`, which sizes, charges costs, selects the exit and settles
cash, path and NAV. `StartStudy` chooses prices (with gaps), rules and signals from small
sets. `Cost` adds commission, spread and slippage, as `transaction_costs` does. Amounts are integers; a raise ends the study, as the exception does.

### ExpertEvolution

A challenger is built from the proposal read, and inherits the tools of its parent or
fewer (`BuildChallenger`); `BeginPromotion` reads the latest verdict, `ReadPrevious` the
champion, `CommitChampion` inserts the event. `CountHoldouts` and `CommitHoldout` are the
two halves of the audit, which two auditors can interleave.

### ExpertAgents

A definition is the path of statuses it went through, since its content id covers what it
revises. `add_definition` reads the latest version of the expert (`CheckLineage`), asks for
nothing but that the new row revises it, and commits: a caller of the library may add an approved first version
(`BeginAdding`), and two additions may fork one version, as no constraint keeps them apart.
`expert suspend` (`BeginSuspension`) and `expert seed` go the same way. `LoadExpert` begins a
session of work that goes on with what it loaded; `AuditTool` commits grants and denials call by call
(`Decisions`); a routing reads the experts one by one (`ReadExpert`). What a command knew when
it began is kept in its rows (`known`), so that the property can say which version may not be passed over.

Left out: scorecards, assessments and what tools answer. `add_scorecard` and `add_assessment`
insert what they are given and no code of the catalog reads them; the scorecard that
`transition` asks for is printed or passed by its caller, and `add_definition`, which does not
know of it, is the only way into the table.

### ResearchLab and CompanyRegistry

A context is assembled by one query per table (`ReadTable`), tables which the builder treats
alike being one: *guarded* rows are passed over unless their evidence is visible, *plain*
rows are taken as they are and their evidence is not collected, filings, fundamentals and
exposures come from `CompanyRegistry`. `CommitContext` checks that the collected evidence was
visible, `CommitManifest` commits context and manifest before the provider is called,
`RecordHypothesis` and `RecordReview` commit call, claims and trace together after it. Whether a claim
is grounded is `Grounded`: it cites what some item of the context cites.

### GovernedCampaign

The gate of a case, an HTTP request that is sent again while answers are lost
(`AnswerLost`, up to `RetryAttempts`), an answer that is refused, useless or parsed, the grounding
of its claim, the sealed commitment and the prediction. The campaign is one process, so one
case follows the other (`BetweenCases`), but it may die in each. Its caller then appends to
the ledger entries of several predictions, at times it states. The entry's maturity is that
of its prediction, as the tests have it.

### EventObservatory

An extraction goes over all observations in one session and commits at its end
(`Extract`, `CommitExtraction`); the events that it would add, supersede and support are
computed by folding the observations in the code's order. Observations arrive with any
earlier time; two passes may find the same event missing (`ExtractionRefused`), and a changed
event whose predecessor the pass does not see raises (`ExtractRaises`).

### MarketData and ReplayLab

A content-addressed file is the set of bars in it. `Publish` links a file, `SelectRows` and
`CommitRows` catalog it in the transaction that follows; `LinkYear` writes one year of a
history or raises when another file is there; `WriteManifest` comes last. In `ReplayLab`
evidence and bars go on arriving, each with a time of its own which may be long past;
`TakeSnapshot` reads, table by table, what is visible by the cutoff,
`CommitCommitment` seals it, `RecordRun` follows; an outcome reads its base (`BeginOutcome`) and
then the path (`ReadFuture`).

### TelegramConnector, EvidenceArchive, NewsLab, MacroTrends

`FetchAnswers` returns up to limit of the newest messages of a window that reaches one limit
behind the checkpoint, and leaves out of them those older than the run's since filter (`Window`), while `ChannelPosts` and `ChannelChanges` go on; `Normalize` compares each with the
previous post as stored then; `CommitTelegram` commits posts, checkpoint and manifest, unless
one of its rows is taken by another run (`Taken`). Which removed messages a run is told of is
open: the live client reports none, the adapter interface has a field for them. A checkpoint
keeps what its run answers for (`Owed`, a ghost of the property). An
archive run commits every payload (`PutPayload`, `CommitPayload`), and a failure rolls back
what it holds and then records a manifest of its counts. A news run commits the raw
receipt, then classifies its entries, each by the two queries of `classify_duplicate`
(`FindExact`, `FindPrior`) between which others may commit, and inserts them in one
transaction; a feed is a sequence and may hold one link more than once. A macro ingest brings
releases and corrections of any earlier time.

### KnowledgeGraph, EvidenceFusion, GeopoliticalLab, SocialLab, GovernmentLab

Versions appended by seeds and callers, in whatever order, and the reads of a cutoff:
`Trace` follows the rounds of `trace_event` and is compared with reachability (`Reach`);
`CalculateReputation` reads claims first and resolutions later, in queries of their own;
`BeginReport`, `ReadPaths` and `ReadResponses` are the queries of a geopolitical report;
`Revisions` states what a row may revise and what is current at a cutoff for three of them.
What describes a claim may name any time that is not before the claim's. A post is revised
under its native identity and later; its source is not compared, as the repository does not.
A relationship's kind and its entities' own intervals and versions are left out.

## 3. Runs

| Run | Question | Bounds |
|---|---|---|
| `ingestion_live` | do committed observations trace to raw bytes and a successful run whatever races, fails or dies; does the runner implement `RetainedEvidence`; are completed payloads skipped; do runs end? | 2 runs, 2 datasets, 1 payload, 2 content types, clock 0..1, under fairness |
| `ingestion_race` (violation) | are observations of one payload inserted once? | 2 runs, 1 dataset |
| `paper_account` | do the recorded fills explain every snapshot, and do fresh evaluations keep the reserve and the kill state? | 3 orders, 2 pending, 2 assets, 2 prices |
| `paper_kill_state` (violation) | does the kill state never relax by itself? | 3 orders, 1 pending |
| `paper_limits` (violation) | do approvals respect the position, trade and count limits? | as above |
| `paper_marks` (violation) | do the stored marks add up to the stored value? | as above |
| `topology_champions` | is every champion certified, and does every rollback restore a champion? | 2 operators, 3 versions, 4 events, 2 evaluations, clock 0..2 |
| `research_desk` | the invariants of the twelve parts of the research side | below |
| `backtest_leverage` (violation) | is what is invested at an instant within the cash realized by then? | part `backtest` |
| `observatory_stuck` (violation) | can an extraction always go through? | part `observatory` |
| `evidence_desk` | the invariants of the eight parts that collect and relate evidence | below |
| `archive_upgrade` (violation) | do cases become usable only by evidence of their time? | part `archive` |

**Bounds.** Two operators race in every part of the desks; `ClockOf` and `CommandsOf` are the
last clock value and the commands of a part.

| Part | Clock | Commands | Further bounds |
|---|---|---|---|
| `lab` | 2 | 4 | 3 specifications, 3 portfolio versions |
| `backtest` | - | - | 3 days, 2 signals, 1 or 2 assets, prices 0 (missing), 2, 7 |
| `evolution` | 1 | 6 | 3 versions, 2 tools, 1 holdout access |
| `agents` | 0 | 3 | 2 experts, 3 versions of each |
| `macro`, `observatory`, `market` | 2 | 3 | 2 periods, 2 values |
| `replay` | 2 | 2 | 2 tables, 2 arrivals |
| `company`, `context`, `research` | 1 | 2 | 2 items of evidence, 4 facts, 1 lead; one lead known in `research` |
| `campaign` | 1 | 2 | 2 bulletins, 2 attempts, 4 ledger entries |
| `telegram`, `archive` | 1 | 2 | 2 messages with limits 1 and 2, since 0 or 1; 1 URI with 2 contents |
| `news` | 1 | 2 | 1 link with 2 stories, feeds of 1 or 2 entries, a malformed payload |
| `knowledge` | 1 | 3 | 3 entities, 2 relationships |
| `fusion` | 2 | 3 | 1 describing row |
| `geopolitical` | 1 | 3 | 2 items of evidence, 2 describing rows |
| `social` | 2 | 4 | 2 native identities of sources and of posts, 1 describing row |
| `government` | 1 | 3 | 2 actions |

**Why the bounds are enough.** Ingestion runs interact only through one payload's
rows, so one payload is where they can conflict; two datasets share the artifact row and
not the receipt; two clock values separate two first-observed times and two `ingested_at`.
In the paper runs the small policy (`SmallPolicy`) puts the limits within three orders; two
pending evaluations are what it takes for one to go stale, and two assets for a mark of the
asset not traded. In the topology runs two operators race, the root and two
challengers allow activate-activate-rollback, and four events allow a rollback after a
rollback. On the desks two operators are what a race between two reads and two commits
takes; the number of commands is the least that lets each hazard of the part happen, which
the mutants show: each property is violated under these bounds by a plausible mistake of
the code. Two items separate "the same" from "another", a clock of 0..1 or 0..2 separates
before, at and after a cutoff.

**Symmetry** is used only without liveness: operators on the research desk, operators, the
stories of news and the native identities of social posts on the evidence desk, the versions and operators of the topology, the
assets of the paper run. Nothing in these modules tells members of those sets apart.

**Deadlock** checking is off in every run: run identities, orders, evaluations, events and
commands are bounded, so each model really comes to rest.

**Fairness** is stated for `Ingestion` only (`FairSpec`): a live process keeps executing its
next statement, and raises when a check or constraint refuses it. It is weak fairness of
that disjunction per run. No fairness is put on `Fail` in general (the environment
need not cause a failure), on `Crash`, or on starting runs. A statement that waits
for a row lock makes progress only because the holder ends, by commit, failure or
crash, which the property `RunResolves` shows. The commands of the desks wait for nothing
and run once: that they end needs no more than that their process goes on, so no liveness
is stated of them.

## 4. What the runs found

Each is an entry of `PROJECT.json` "findings" with the line it contradicts.

* `ingestion_race`: two concurrent runs of one payload both insert all its
  observations: the count is read before the parse, and the Source's identity covers
  the clock.
* `paper_kill_state`: a PORTFOLIO_HALTED evaluation is recorded in no snapshot,
  and the next evaluation starts from the account's old state.
* `paper_limits`: MAX_TRADES and MAX_POSITIONS add a reason and approve the full
  quantity; the position limit does not count what is held.
* `paper_marks`: untraded positions keep their old mark while the snapshot's value
  counts the new one.
* `backtest_leverage`: positions overlap in time, and each is sized by the cash that the
  one before will have returned when it ends.
* `archive_upgrade`: a page observed live after the cutoff of a case makes the case
  eligible for causal replay.
* `observatory_stuck`: a revision that is ingested after a later observation finds no
  event to supersede, `add` refuses it, and every later extraction raises.

Some definitions state expectations that the code does not meet and that no run
checks, as they are of the same kind as a finding above or the expectation is only ours:
`AccessBlocksRevision`, `AccountStartsOnce`, `HoldoutUsedOnce`, `PromotedOverItsRival`,
`OutcomesLookForward`, `CopiesEarnNoCredit`.
TLC finds each violated when it is added to the configuration of its part (the last one
with five commands and one instant).

Read in the code while modelling, outside these runs:

* ingestion: a process killed after runner.py:70 leaves its manifest RUNNING for good,
  though `docs/threat-model.md` promises every run a durable success or failure manifest
  (`RunResolves` therefore excepts crashes); a FAILED manifest may count an artifact never
  stored (runner.py:79); a payload served with another content type than its artifact row
  records fails on every retry. A failed run adds no observations, but its receipt stays.
* paper: the sector and currency caps never subtract anything, as no snapshot fills
  their exposures; `fill` does not ask whether the portfolio is paused or whether the
  evaluation was filled before.
* evolution and topology: the evaluation a promotion rests on may be vetoed, and the champion replaced, before
  the event commits.
* topology: an activation is dated when its command starts, so a cutoff before its commit
  reads differently later; it does not check that its evaluation's champion is the active
  one nor that the challenger's parent is; a rollback of a rollback re-activates the degraded
  version; merges are not checked for inherited capabilities; panel rules may name retired
  experts.
* evolution: `evolve rollback` reads an argument its parser does not define (cli.py:2593);
  two auditors may both be the first to access a final holdout.
* experts: `add_definition` stores any status, an
  approved first version included (the tests do so), and asks for no scorecard; assessments and
  scorecards are stored unchecked; two revisions of one version fork it, and `latest` picks either; an expert loaded
  before its suspension is still granted tools (`SuspensionIsHeeded` therefore speaks of what was there
  when it was loaded); a tool's records without a time pass `ToolResult` whatever the cutoff; `route` falls
  back to the generalist even when that is suspended; routing uses the definitions of today
  whatever its cutoff; the CLI's approve always raises; `expert seed` fails for good once a caller has added
  another first version.
* portfolios: `add_portfolio` stores any status and, in a first row, any number: a portfolio may begin
  stopped, or be revised from configured to completed at once.
* backtest: entries use raw prices, the NAV is in asset order and not in that of time.
* research: evidence of rumor, structural, macro and narrative rows is not checked against the
  cutoff and yet may be cited; a reviewer's contradictions do not influence acceptance; rows
  ingested late enter later contexts of the same cutoff.
* campaign: an attempt that timed out may have been served and billed, and one call is
  accounted; an answer that is no JSON is not accounted; the ledger takes an entry's own
  maturity, which need not be that of its prediction.
* market: a year once linked can neither be extended nor retried with other bars after a
  crash; a manifest may exist without committed rows.
* replay: a row that arrives late with a time before the cutoff enters later contexts of the
  same cutoff, so two runs of one case may differ; the base of an outcome may be a price that
  arrived after the commitment was sealed, against "last price visible at commitment time", or
  may be in its own path.
* observatory: an event may be superseded twice when observations arrive late; an unusual
  movement is not superseded when a correction falls below the threshold.
* telegram: a run that dies, and one whose messages raise (a message posted while the run waited out a rate
  limit lies in its future), leave no manifest (telegram/runner.py:98); the checkpoint of a
  backfill passes over the messages its since filter left out, and no later run reads those further
  back than one limit; the live client never reports a deletion, so the deletions that
  `docs/telegram-connector.md` appends come of other adapters only; two overlapping runs may leave two
  posts of one message at one time, and what a later run takes for the previous one is open.
* news: an edit back to an earlier content makes no new revision; an entry that was quarantined
  once counts as ingested ever after and is never extracted. `docs/news-lab.md` has changed content at a
  URI become a revision of the prior item: when another run commits between the two queries, an
  item revises one of its very content, and of two overlapping runs the one that fetched first may revise
  what the other observed later. `EveryEntryHasItsItem` claims neither.
* fusion: two revisions of one claim are both current; the last resolution is chosen by its
  time only; a copy of a claim earns credit of its own. Government: backdated transitions may
  leave the chain out of order; superseded actions are listed. Geopolitical: a corroboration
  may predate its candidate. Social: propagation edges and rumors do not check the times of
  their posts, and an edit may be of another source than the post it revises, as only the native
  identity is compared (social/repository.py:57-64). Company: two restatements of one fact are both current, and concurrent additions
  of a company may repeat a version.

## 5. Proofs

All are checked by TLAPS for every value of the constants: any number of operators,
commands, rows and instants. The assumptions are the named ASSUMEs of the modules, which TLC
evaluates on every run: bounds are natural numbers, and what a step needs of a constant is said
there (`PaperAssumption`: a portfolio has finitely many assets and its policy's limits are
percentages; `CompanyAssumption`: there are finitely many companies, a statement to cite and room
for a fact; `DeskAssumption`: the rows a registry part begins with have the numbers of two
commands that were before; `GraphAssumption`, `TelegramAssumption`, `CampaignAssumption`, ...
likewise). No
theorem has a hypothesis of its own, except `SerialRunsCompleteOnce`, which is about
`MaxConcurrent = 1`. A theorem about a desk is about its `Spec`, so about
each of its parts under every interleaving that the part admits.

* `IngestionProofs`. `TypeCorrect`, `Traceability`, `FirstObservedIsUnique`,
  `SuccessIsVisible`, `FailureAddsNothing` and `Refinement`. None of the properties is
  inductive: that a committed batch has its receipt depends on what the run had
  secured when it reached each program point. The inductive invariant `IInv` adds, per
  phase, what is *Secured*: from "stored" the bytes are in the store, from
  "registered" the artifact row is committed or held by the run itself, from
  "retained" the receipt is committed with the run's time, at "written" the held
  batch is the run's own. Each action is one lemma; the framing facts (committed
  sets only grow) are lemmas of their own. `Refinement` maps initial states to initial states, a
  `CommitReceipt` to `Retain`, a `FinishSucceeded` with a batch to `Publish` or a
  stutter, and everything else to a stutter. `CompletedStaySkipped` proves the property of two
  moments, `CompletedAreSkipped`: a run that starts on a completed payload is carried by
  `CompletedBy` to its end, because the receipt and the observations it finds close both ways
  past the look-up (`LookupStops`) and only a run past it inserts. `SerialRunsCompleteOnce` is
  the other side of the finding of `ingestion_race`: with at most one run in progress a payload's
  observations are committed once, whatever fails or dies, so the duplicate needs an overlap. Its
  invariant, `SerialInv`, says that a run past the look-up has no observations of its payload
  beside it.
* `TopologyRegistryProofs`. `RegistryTypes`, `ChampionsAreCertified`,
  `RollbacksRestore`. The invariant adds to the events' soundness (each names
  persisted, certified or root versions, and each previous version was made
  active by some non-rollback event) the same of every command in flight
  (`Prepared`): what it has read stays true, as rows are only added.
* `PaperRuntimeProofs`. Two invariants. `KInv` yields `FreshFillsObeyKillState`: an
  approving evaluation names an existing snapshot, carries a kill state at least as
  strict as that snapshot's, and is of a sale when that snapshot or its drawdown
  is restricted (`Tightens`); nothing is assumed of the amounts. `PaperInv` is about the
  amounts: `LedgerSteps` says that each snapshot follows from the one before by the fill between
  them, `Reserves` that an approved purchase, at the price of its order and with its costs,
  leaves the reserve of the snapshot it was evaluated against. `LedgersAlwaysReconcile` then
  compares two ways of adding up, `AccountsAreTyped` shows that no balance, holding or value
  is negative, and `FreshPurchasesKeepTheReserve` follows from `Reserves` when the snapshot
  and the price are still those of the evaluation. `CutQuantity` and `CostGrows` carry the
  governor's arithmetic: a quantity that is cut by a floor division costs no more than what was
  left, and costs grow with what is traded.
* `CommandSessionsProofs`: what every command keeps of the sessions (`SessionsOK`), the form in
  which a component's invariant of its jobs is shown to survive `Begin`, `Learn`, `Finish` and `Dies`,
  and that a set of naturals has a least element.
* `LaboratoryProofs`: `ResultsAreOutOfSample`, `LifecycleStaysAPath`. The
  invariant adds to the rows what each process has established of the rows it is about to
  commit: the version that a row was checked against is still there and still what it was, as rows are
  never changed, while another may have become the latest, which is where the key refuses the row.
  `BacktestsFollowTheirRules` is here too. Its invariant, `BacktestInv`, says of each position
  what the property does and that it began with the cash the one before left; what is shown of
  `Execute` is that the day chosen is the first the rules name: the count of held bars
  grows with the days (`HeldIsMonotone`), and a position's threshold in cash is its price's
  (`HitIsReached`). `MaxDrawdownIsDeepest` is about the scan alone: after each prefix the
  peak is the highest value, and the fall is at least as deep as that of every pair
  (`FallsDeepen`). It assumes that a universe has an asset, as the schema refuses an empty one
  (experiment/schemas.py:212). `BacktestTypes` adds the count: the turns of the engine (an asset's
  place and a day) are as many as the signals (`TurnsAreCounted`), one increasing order lists
  each once, and `QueueInv` says that what is ahead, what is skipped and the positions are all of
  them. It is stated of universes that name each asset once; the code does not refuse a
  repeated asset, and then takes its signals again (`NamesEachOnce`).
* `ExpertProofs`: `CapabilitiesNeverGrow`, `ChampionsHavePassed`, `SuspensionIsAlwaysHeeded`. What a
  promotion has read of verdicts and former champions, and what an addition, a session of work or a
  routing has loaded, stays in the tables. For the catalog the invariant says that what was loaded of
  an expert was a highest version then, and so is at least every number known before: additions
  that race or fork only add numbers. The module
  extends `LaboratoryProofs` and `ResearchProofs`, and its `DeskTypes` collects their type
  theorems into that of the whole research desk.
* `ResearchProofs`: `CorrectionsAlwaysSupersede`, `ArchiveAlwaysServes`,
  `ReplaysAlwaysKeepToTheirCutoff`, `CampaignsStayProspective`, `EveryCutoffStaysOpen`,
  `TracesAlwaysReplay`, `EventsStayKept`. The market archive's invariant relates files, catalog, years and
  manifests at each point of an import, so a death between file and row leaves only files too many; the
  campaign's says what the gate, the answer and the seal have fixed at each step and that
  the ledger's entries of a case are ordered. The replay's numbers the items as they arrive: a command
  knows how many there were when it began, its context holds, of the tables it has read, all of those of
  the cutoff that no row of the cutoff hides, and a row that arrives later, whatever time it names, has a
  higher number and can only hide. A context's says that every collected item's
  evidence was checked, guarded or known from its row. The observatory's, `EventsSound`, says of each
  event that apart from supersessions its transitions are of the time it was observed, and that what it
  supersedes was told of it then, so that the status at any later cutoff is "superseded"
  (`SupersededStays`); each of `Supported`, `Recorded` and `Supersede` keeps it and only adds to an event
  (`GoesOn`), which carries it over the candidates of an observation and the prefixes of the list. The list
  has every observation because no two have one rank (`ListedIsAll`). `ResearchTypes` is the type
  invariant of the registry and of research. It is not inductive: a version is one more than the
  last one read, and stays within its type only because there are as many rows as that. `TypedInv`
  says so: below each version, committed or about to be, there is every other (`NoGapBelow`), so a version is at most
  the number of rows (`VersionIsCounted`), which the guard of the command bounds.
* `EvidenceProofs`: one theorem per property of the `evidence_desk` run, `NewestPostStaysCurrent`
  being an action property, and `EvidenceTypes` for the whole type invariant of that desk. The
  invariants say, for the appending parts, how a row stands to what it revises (times, identity, one
  source); for the racing parts, what the job in flight has read. `CheckpointsAlwaysCover` numbers messages
  as they were posted, in the order of their times: below a batch's newest message those too old come before all
  others, so the window of a run holds every message it answers for, and posts are only
  added. `EveryEntryAlwaysHasItsItem` needs that items only grow: what a query found is there still when
  its run commits, and an entry once classified stays covered, by an item or by the run's own row; `ReportsAreAlwaysOfTheirCutoff` and
  `ReputationsAlwaysKeepToTheirCutoff` relate what three queries saw to one cutoff.

**Recursion.** The induction theorems of the library cannot be instantiated here, so what is
recursive is reasoned about as a function: `LeastNatural` (a set of naturals has a least element)
turns an induction on a length, a size or a number of rounds into the impossibility of a least
counterexample. This is how the following are proved: the walk along `revises` of a `Line`; the running
sum of the manifests (`Claimed`); the rounds of `Trace` against reachability (`Reach`), by
walks written out as sequences; the
passes of an extraction (`PassesAreSound`); the scan of `MaxDrawdown`; what a Telegram run knows after each message; and the sums of `MapThenSumSet`, whose choice of an order
does not matter (`SumLaw`) and which a running total computes (`RunningTotal`).

**Only model-checked:** `RunResolves`, which is liveness under fairness and so out of TLAPS's
reach. Every other property of the passing runs is the statement of a theorem. What the runs that
expect a violation check is, of course, refuted and not proved.

## 6. What is not modelled, and the plan

Not modelled for good:

* storage telemetry, validation and integration reports, coverage, performance and quality
  figures: they only read what the models hold;
* the static source registry, `labs/` (no behaviour), migrations (schema; their triggers are
  why the models only add rows);
* the harness of third-party agents apart from the priced provider call: subprocesses,
  containers and files of external code;
* parsing of formats, wording, weights of scores and statistical figures, which are computed
  from what is stored and enter no guard.

Left out within modelled components, because a model of them would be a row inserted and
read by nobody: topology gaps, proposals and routing traces; knowledge aliases, exposures
and themes; expert comparisons; macro divergences; corporate actions and trading sessions; news reviews
and corroborations (no caller); research schedules and entity audits. The structure of a
challenger topology (`topology/engine.py`) is data to the registry that is modelled.

What the plan has left: the structure of challenger topologies, with the capabilities that a
merge inherits.
