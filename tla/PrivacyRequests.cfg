SPECIFICATION MCSpec
CONSTANTS
    TwoPartTlds <- CoUk
    MaxRules = 1
    Requests = {r1, r2}
    RequestKinds <- AllKinds
    RuleLists <- BlockOnly
    Databases <- TheDatabase
    Sites <- TheSites
    Listeners <- AListener
    MaxListeners = 2
    MaxHops = 1
SYMMETRY RequestSymmetry
INVARIANTS
    BlockIsReported
    EventIdsUnique
    ExemptSiteNotBlocked
    OffMeansUntouched
ACTION_CONSTRAINT KeepsFocus
