SPECIFICATION Spec
CONSTANTS
    MaxCapacity = 2
    MaxSessions = 2
    MaxSequence = 3
    MaxProposals = 0
INVARIANT DocGapIsFault
