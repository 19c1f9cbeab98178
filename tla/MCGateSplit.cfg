SPECIFICATION Spec
CONSTANTS
    t1 = t1
    t2 = t2
    t3 = t3
    NoOne = NoOne
    Tasks = {t1}
    Agents = {a1}
    Operators = {}
    Admins = {}
    Gates = {g1}
    Slots = {s1, s2}
    Policies = {"first_claim"}
    DepLists <- NoDeps
    Seed <- SeedSolo
    MaxAttempts = 2
    MaxLeases = 1
    MaxProgress = 0
    MaxAborts = 0
INVARIANTS
    WaitingHasPendingGate
CHECK_DEADLOCK FALSE
