SPECIFICATION Spec
CONSTANTS
    MaxCapacity = 2
    MaxOffers = 5
INVARIANTS
    TypeOK
    Fifo
    EvictsOldest
    DropAccounting
    Conservation
