--------------------------- MODULE PaperPortfolio ---------------------------
(***************************************************************************)
(* The versions of a paper portfolio: created from a validated experiment  *)
(* or added by a caller of the repository, reconfigured until one is no    *)
(* longer configured, then started, paused, resumed and stopped, by        *)
(* commands each of which reads the latest version, inserts the next one   *)
(* and commits; the primary key decides a race.                            *)
(***************************************************************************)
EXTENDS ExperimentLab

CONSTANTS
    Portfolios,     \* portfolio ids
    MaxVersions     \* bound on the versions of a portfolio

ASSUME PortfolioAssumption == MaxVersions \in Nat \ {0}

VARIABLES
    portfolios,     \* paper_portfolios
    account,        \* paper_account_snapshots
    journal         \* paper_audit_journal

paperVars == <<portfolios, account, journal>>

\* revision_of is the version a row was checked against: 0 when the portfolio had none,
\* whatever the row says it revises.
Status == {"configured", "active", "paused", "stopped", "completed"}
Version == [portfolio: Portfolios, version: 1..MaxVersions, status: Status,
            strategy: SpecId, revision_of: 0..MaxVersions]
Snapshot == [portfolio: Portfolios, at: Time, initial: BOOLEAN]
Audit == [portfolio: Portfolios, kind: {"create", "step"} \cup Status]

PaperInit == portfolios = {} /\ account = {} /\ journal = {}

VersionsOf(p) == {v \in portfolios : v.portfolio = p}

\* latest_portfolio_row
IsLatest(v) == \A w \in VersionsOf(v.portfolio) : w.version <= v.version

\* transition: the statuses a status may be left for.
Allowed == [configured |-> {"active", "stopped"},
            active     |-> {"paused", "stopped", "completed"},
            paused     |-> {"active", "stopped"},
            stopped    |-> {},
            completed  |-> {}]

\* add_snapshot: snapshots advance.
Advances(p, t) == \A s \in account : s.portfolio = p => s.at < t

\* A command that has run its queries holds the rows it will commit.
Inserting(versions, snapshots, audits) ==
    [pc |-> "inserting", versions |-> versions, snapshots |-> snapshots, audits |-> audits]

AuditOf(p, kind) == [portfolio |-> p, kind |-> kind]

\* paper create takes the time, then reads the experiment.
BeginCreate(o) ==
    \E p \in Portfolios, i \in DOMAIN specs :
        /\ specs[i].status = "validated"
        /\ Begin(o, [pc |-> "creating", portfolio |-> p, strategy |-> i, at |-> now])
        /\ UNCHANGED paperVars

\* add_portfolio finds a first version and returns; the command still adds an
\* initial snapshot and its audit.
CheckCreate(o) ==
    LET j == job[o]
        first == [portfolio |-> j.portfolio, version |-> 1, status |-> "configured",
                  strategy |-> j.strategy, revision_of |-> 0]
    IN  /\ At(o, "creating")
        /\ Advances(j.portfolio, j.at)
        /\ Learn(o, Inserting(IF VersionsOf(j.portfolio) = {} THEN {first} ELSE {},
                              {[portfolio |-> j.portfolio, at |-> j.at, initial |-> TRUE]},
                              {AuditOf(j.portfolio, "create")}))
        /\ UNCHANGED paperVars

RefuseCreate(o) ==
    /\ At(o, "creating") /\ ~Advances(job[o].portfolio, job[o].at)
    /\ Finish(o)
    /\ UNCHANGED paperVars

\* transition: the latest version is read and the next one is made of it.
BeginTransition(o) ==
    \E v \in portfolios, s \in Status :
        /\ IsLatest(v) /\ v.version < MaxVersions /\ s \in Allowed[v.status]
        /\ Begin(o, Inserting({[v EXCEPT !.version = @ + 1, !.status = s,
                                         !.revision_of = v.version]}, {},
                              {AuditOf(v.portfolio, s)}))
        /\ UNCHANGED paperVars

\* What add_portfolio asks of a row: to revise the latest version while that is
\* configured, and nothing of the first row of a portfolio.
MayAdd(row) ==
    \/ VersionsOf(row.portfolio) = {} /\ row.revision_of = 0
    \/ \E v \in VersionsOf(row.portfolio) :
          /\ IsLatest(v) /\ v.status = "configured"
          /\ row.version = v.version + 1 /\ row.revision_of = v.version

\* add_portfolio stores the status, the strategy and, in a first row, the version that
\* its caller states.
BeginAdd(o) ==
    \E p \in Portfolios, n \in 1..MaxVersions, s \in Status, i \in DOMAIN specs, r \in 0..MaxVersions :
        LET row == [portfolio |-> p, version |-> n, status |-> s, strategy |-> i, revision_of |-> r]
        IN  /\ MayAdd(row)
            /\ Begin(o, Inserting({row}, {}, {}))
            /\ UNCHANGED paperVars

\* paper step records an audit, at a time the operator names, and nothing else.
BeginStep(o) ==
    \E v \in portfolios :
        /\ Begin(o, Inserting({}, {}, {AuditOf(v.portfolio, "step")}))
        /\ UNCHANGED paperVars

\* Variant: the key of a version is its status too.
SameKeyAndStatus(v, w) ==
    v.portfolio = w.portfolio /\ v.version = w.version /\ v.status = w.status

\* The primary key of a version: its portfolio and its number.
SameKey(v, w) == v.portfolio = w.portfolio /\ v.version = w.version

Conflicts(rows) == \E v \in portfolios, w \in rows : SameKey(v, w)

CommitPaper(o) ==
    /\ At(o, "inserting") /\ ~Conflicts(job[o].versions)
    /\ portfolios' = portfolios \cup job[o].versions
    /\ account' = account \cup job[o].snapshots
    /\ journal' = journal \cup job[o].audits
    /\ Finish(o)

\* The key refuses the version another command has inserted meanwhile.
LoseRace(o) ==
    /\ At(o, "inserting") /\ Conflicts(job[o].versions)
    /\ Finish(o)
    /\ UNCHANGED paperVars

\* A snapshot of the runtime, at whatever time its market carries.
BeginSnapshot(o) ==
    \E v \in portfolios, t \in Time :
        /\ Advances(v.portfolio, t)
        /\ Begin(o, Inserting({}, {[portfolio |-> v.portfolio, at |-> t, initial |-> FALSE]}, {}))
        /\ UNCHANGED paperVars

PaperNext(o) ==
    \/ Free(o) /\ (BeginCreate(o) \/ BeginTransition(o) \/ BeginAdd(o)
                      \/ BeginStep(o) \/ BeginSnapshot(o))
    \/ CheckCreate(o) \/ RefuseCreate(o) \/ CommitPaper(o) \/ LoseRace(o)

PaperTypeOK ==
    /\ portfolios \subseteq Version
    /\ account \subseteq Snapshot
    /\ journal \subseteq Audit

\* How a version may follow the one it was checked against (transition, add_portfolio).
FollowsOn(u, v) ==
    \/ v.status \in Allowed[u.status] /\ v.strategy = u.strategy
    \/ u.status = "configured"

\* Between v and w a row begins the portfolio anew: its command found no version of it.
BegunBetween(v, w) ==
    \E x \in VersionsOf(v.portfolio) :
        x.revision_of = 0 /\ v.version < x.version /\ x.version <= w.version

\* "Portfolio configuration is immutable once activated", whatever commands race for
\* the next version: each number is given once, a version that revises another is the
\* next one and follows it, and from the first version on that is not configured the
\* strategy is the same and a version that is stopped or completed has no successor.
LifecycleIsAPath ==
    \A v, w \in portfolios : v.portfolio = w.portfolio =>
        /\ v.version = w.version => v = w
        /\ w.revision_of # 0 =>
              /\ w.revision_of = w.version - 1
              /\ \E u \in VersionsOf(w.portfolio) : u.version = w.revision_of /\ FollowsOn(u, w)
        /\ v.version < w.version /\ v.status # "configured" /\ ~BegunBetween(v, w) =>
              /\ w.strategy = v.strategy /\ w.status # "configured"
              /\ v.status \notin {"stopped", "completed"}

\* paper create of an existing portfolio: an account starts once.
AccountStartsOnce ==
    \A s, t \in account : s.portfolio = t.portfolio /\ s.initial /\ t.initial => s = t

=============================================================================
