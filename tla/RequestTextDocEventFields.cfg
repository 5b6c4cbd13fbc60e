SPECIFICATION Spec
CONSTANTS
    TwoPartTlds <- CoUk
    LowerCase <- Spellings
    MaxRules = 3
    Loaders = {t1}
    Workloads <- SecretRequest
INVARIANT DocEventFields
