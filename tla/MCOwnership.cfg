SPECIFICATION Spec
CONSTANTS
    w1 = w1
    w2 = w2
    w3 = w3
    Writer <- MCWriter
    NoWriter = NoWriter
    MaxGeneration = 3
    MaxRevision = 2
    MaxWrites = 3
SYMMETRY MCSymmetry
INVARIANTS
    MutationsFenced
    IncrementalBase
    SnapshotFirst
    TornIsPending
PROPERTY
    TicketNeverRevives
CHECK_DEADLOCK FALSE
