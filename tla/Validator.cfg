SPECIFICATION Spec
CONSTANTS
    Sessions = {1, 2}
    MessageIds = {m1, m2, m3}
    MaxSequence = 3
INVARIANTS
    TypeOK
    NoRepeatSinceReset
    GapOnlyAtHello
    RejectedCanBeRetried
