SPECIFICATION Spec
CONSTANTS
    Parts = {"backtest"}
    Operators = {o1, o2}
    ClockOf <- Clocks
    CommandsOf <- Commands
    MaxTime = 2
    MaxCommands = 6
    Hypotheses = {h}
    Cutoffs = {0, 1}
    ResearchEnd = 0
    TestEnd = 1
    MaxSpecs = 3
    Portfolios = {p}
    MaxVersions = 3
    Universes <- U
    Days = 3
    Prices = {0, 2, 7}
    SignalTimes = {1, 2}
    Signals = 2
    InitialCash = 20
    Holding = 2
    Threshold = 50
    MinCommission = 6
    CommissionPercent = 15
    SpreadPercent = 10
    Tools = {t1, t2}
    Manifests = {m}
    Auditors = {x}
    MaxLineage = 3
    MaxHoldouts = 1
    MaxPeriod = 2
    Windows = {1, 2}
    MaxDay = 2
    Rates = {1000, 1020}
    MarketYears = {0, 1}
    Quotes = {q1, q2}
    SeedAt = 0
    MaxFileBars = 1
    ReplayCutoff = 1
    ReplayHorizon = 2
    ReplayTables = 2
    ResearchModes = {m1}
    MaxArrivals = 2
    Companies = {c1}
    Statements = {s1, s2}
    MaxFacts = 4
    MaxLeads = 1
    StaleAfter = 0
    MaxBulletins = 2
    RetryAttempts = 2
    GateStaleAfter = 0
    MaxEntries = 4
    Specialists = {e1}
    MaxRevisions = 4
SYMMETRY ResearchSymmetry
CHECK_DEADLOCK FALSE
INVARIANTS
    NeverLeveraged
