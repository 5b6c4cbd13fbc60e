SPECIFICATION Spec
CONSTANTS
    MaxCapacity = 2
    MaxSessions = 2
    MaxSequence = 3
    MaxProposals = 2
    ShortStream = 2
INVARIANTS
    TypeOK
    ActiveSessionAccepted
    DisabledQueueHoldsNoObservation
    GapIsFinal
    OutboundNumbersUnique
PROPERTY ImplementsSequencedLog
ACTION_CONSTRAINT ShortWithProposals
