SPECIFICATION Spec
CONSTANTS
    eng = eng
    ops = ops
    cpEng = cpEng
    cpOps = cpOps
    NoId = NoId
    Public = {cpEng}
    Local = {eng}
    Domains = {"d1", "d2"}
    Alias <- AliasOne
    Offers <- OffersOne
    LocalSpec <- LocalEng
    MaxTasks = 2
    MaxChanges = 2
    MaxFailures = 1
INVARIANTS
    TypeOK
    LiveSessionReachable
    SessionsHeld
PROPERTIES
    ChangesWarranted
    Converges
    FederatedAttachHeals
