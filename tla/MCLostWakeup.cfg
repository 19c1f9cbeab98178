SPECIFICATION Spec
CONSTANTS
    t1 = t1
    t2 = t2
    t3 = t3
    NoOne = NoOne
    Tasks = {t1, t2}
    Agents = {a1}
    Operators = {}
    Admins = {}
    Gates = {}
    Slots = {s1, s2}
    Policies = {"first_claim"}
    DepLists <- ChainDeps
    Seed <- SeedSolo
    MaxAttempts = 2
    MaxLeases = 1
    MaxProgress = 0
    MaxAborts = 0
PROPERTIES
    DependentsReleased
CHECK_DEADLOCK FALSE
