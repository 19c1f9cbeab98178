SPECIFICATION Spec
CONSTANTS
    eng = eng
    ops = ops
    cpEng = cpEng
    cpOps = cpOps
    NoId = NoId
    Public = {cpOps}
    Local = {eng}
    Domains = {"d1", "d2"}
    Alias <- AliasNone
    Offers <- OffersTask
    LocalSpec <- LocalEng
    MaxTasks = 3
    MaxChanges = 1
    MaxFailures = 0
INVARIANTS
    ShutdownStopsLoop
