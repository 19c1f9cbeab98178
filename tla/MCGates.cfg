SPECIFICATION Spec
CONSTANTS
    t1 = t1
    t2 = t2
    t3 = t3
    NoOne = NoOne
    Tasks = {t1}
    Agents = {a1, a2}
    Operators = {op}
    Admins = {}
    Gates = {g1}
    Slots = {s1, s2}
    Policies = {"broadcast"}
    DepLists <- NoDeps
    Seed <- SeedBroadcast
    MaxAttempts = 2
    MaxLeases = 2
    MaxProgress = 0
    MaxAborts = 0
INVARIANTS
    InProgressOwned
    LeaseIsNewestGrant
    RepeatedCallIsConflict
PROPERTIES
    DecisionFinal
SYMMETRY Symmetry
CHECK_DEADLOCK FALSE
