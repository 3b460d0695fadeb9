SPECIFICATION Spec
CONSTANTS
    Parts = {"archive"}
    Operators = {o1, o2}
    ClockOf <- Clocks
    CommandsOf <- Commands
    MaxTime = 2
    MaxCommands = 4
    Texts = {c1, c2}
    RumorTexts = {c1, c2}
    Limits = {1, 2}
    MaxMessages = 2
    Uris = {u1}
    Contents = {c1, c2}
    CaseCutoff = 0
    MaxPayloads = 2
    Links = {u1}
    Stories = {c1, c2}
    Malformed = {bad}
    MaxEntries = 2
    Entities = {a, b, c}
    MaxVersions = 2
    MaxRelations = 2
    LastDate = 1
    MaxDepth = 2
    ClaimSources = {c1, c2}
    ReputationWindow = 2
    MaxLeaves = 1
    EventTypes = {c1, c2}
    Reports = {c1, c2}
    MaxNotes = 2
    Natives = {k1}
    NativePosts = {p1}
    MaxSocialNotes = 1
    Notices = {n1}
    MaxActions = 2
SYMMETRY EvidenceSymmetry
CHECK_DEADLOCK FALSE
INVARIANTS
    UpgradesUseEvidenceOfTheirTime
