SPECIFICATION FairSpec
CONSTANTS
    MaxCapacity = 2
    MaxEvents = 3
    MaxConnectTasks = 1
    PipeCapacity = 1
PROPERTY DocBackgroundRetry
