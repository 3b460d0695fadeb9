\* Two runs of one payload that two datasets serve, with two content types.
CONSTANTS
    Runs = {r1, r2}
    Datasets = {d1, d2}
    Artifacts = {a1}
    Mimes = {m1, m2}
    None = None
    MaxTime = 1
    MaxConcurrent = 2
SPECIFICATION FairSpec
INVARIANTS
    TypeOK
    ObservationsTraceToRaw
    OneFirstObserved
    ObservationsHaveSuccessfulRun
PROPERTIES
    Implements
    FailedRunAddsNothing
    CompletedAreSkipped
    RunResolves
CHECK_DEADLOCK FALSE
