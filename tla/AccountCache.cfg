SPECIFICATION CacheSpec
CONSTANTS
    pool = pool
    ticks = ticks
    main = main
    other = other
    Keys = {pool, ticks}
    Needed = {pool, ticks}
    Required = {pool}
    Forks = {main, other}
    NoFork = NoFork
    MaxVersion = 3
    SlotOf <- MCSlotOf
    Batches <- MCBatches
    MaxGeneration = 2
INVARIANT ReadyIsValidated
PROPERTIES NoGapSubmission BatchesAreSafe
\* A trade ends, and the generation is bounded.
CHECK_DEADLOCK FALSE
