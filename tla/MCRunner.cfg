SPECIFICATION Spec
CONSTANTS
    Tasks = {t1}
    Loops = {l1}
    Slots = {s1, s2}
    Nobody = Nobody
    Node = Node
    Other = Other
    MaxLeases = 2
    MaxEnrolls = 2
    MaxCrashes = 1
INVARIANTS
    TypeOK
    WorktreeKept
    NothingLeftBehind
PROPERTIES
    ClaimsSettle
    InFlightReleased
    PollsOrLatched
CHECK_DEADLOCK FALSE
