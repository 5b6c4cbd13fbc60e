SPECIFICATION Spec
CONSTANTS
    MaxCapacity = 2
    MaxSessions = 2
    MaxSequence = 2
    MaxProposals = 1
PROPERTY DocStaleProposalRejected
