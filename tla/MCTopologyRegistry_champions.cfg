\* Two operators, a root topology and two challengers.
CONSTANTS
    Versions = {v0, v1, v2}
    Root = v0
    Operators = {o1, o2}
    None = None
    MaxTime = 2
    MaxEvaluations = 2
    MaxEvents = 4
SPECIFICATION Spec
SYMMETRY Symmetry
INVARIANTS
    TypeOK
    EveryChampionCertified
    RollbackRestoresAChampion
CHECK_DEADLOCK FALSE
