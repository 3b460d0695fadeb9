CONSTANTS
    Runs = {r1, r2}
    Datasets = {d1}
    Artifacts = {a1}
    Mimes = {m1}
    None = None
    MaxTime = 1
    MaxConcurrent = 2
SPECIFICATION Spec
INVARIANTS
    CompletedOnce
CHECK_DEADLOCK FALSE
