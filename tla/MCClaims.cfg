SPECIFICATION Spec
CONSTANTS
    t1 = t1
    t2 = t2
    t3 = t3
    NoOne = NoOne
    Tasks = {t1}
    Agents = {a1, a2}
    Operators = {op}
    Admins = {}
    Gates = {}
    Slots = {s1, s2}
    Policies = {"first_claim"}
    DepLists <- NoDeps
    Seed <- SeedNone
    MaxAttempts = 2
    MaxLeases = 2
    MaxProgress = 1
    MaxAborts = 1
INVARIANTS
    TypeOK
    InProgressOwned
    LeaseIsNewestGrant
    RepeatedCallIsConflict
    ProgressGapless
PROPERTIES
    FinishedIsFinal
    AttributionKept
    ReclaimAfterRelease
    ImplementsTaskLease
SYMMETRY Symmetry
CHECK_DEADLOCK FALSE
