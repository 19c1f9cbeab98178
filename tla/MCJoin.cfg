SPECIFICATION Spec
CONSTANTS
    t1 = t1
    t2 = t2
    t3 = t3
    NoOne = NoOne
    Tasks = {t1, t2, t3}
    Agents = {a1}
    Operators = {}
    Admins = {}
    Gates = {}
    Slots = {s1, s2}
    Policies = {"first_claim"}
    DepLists <- JoinDeps
    Seed <- SeedJoin
    MaxAttempts = 2
    MaxLeases = 3
    MaxProgress = 0
    MaxAborts = 0
PROPERTIES
    DependentsReleased
    LapsedClaimReclaimed
    NobodyForgotten
CHECK_DEADLOCK FALSE
