SPECIFICATION Spec
CONSTANTS
    TwoPartTlds <- CoUk
    MaxRules = 2
    Requests = {r1}
    RequestKinds <- FrameOnly
    RuleLists <- AllowThenBlock
    Databases <- TwoDatabases
    Sites <- NoSites
    Listeners <- NoListeners
    MaxListeners = 0
    MaxHops = 0
INVARIANTS
    TypeOK
    BlockRespectsStandingAllow
    StandingBlockIsApplied
PROPERTY OneChangeIsAtomic
