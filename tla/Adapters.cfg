SPECIFICATION FairSpec
CONSTANTS
    Adapters <- MCAdapters
    MaxStarted = 3
    MaxTurns = 2
CHECK_DEADLOCK FALSE
INVARIANTS
    ProviderInv
    GeneratedOnce
    EndsAgree
PROPERTIES
    EveryTaskEnds
