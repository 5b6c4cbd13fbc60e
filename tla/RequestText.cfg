SPECIFICATION Spec
CONSTANTS
    TwoPartTlds <- CoUk
    LowerCase <- Spellings
    MaxRules = 3
    Loaders = {t1, t2}
    Workloads <- RuleAndText
INVARIANTS
    LookupsAgree
    LoadsAccountedFor
    RulesMeanTheirLines
    OnlyTrackingRemoved
    CleaningKeepsDecision
    SecretsRedacted
