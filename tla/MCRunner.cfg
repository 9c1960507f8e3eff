SPECIFICATION FairSpec
CONSTANTS
    Items <- MCItems
    Kind <- MCKind
    Stage <- MCStage
    LastStage = 3
    Rows <- MCRows
    Continue <- MCContinue
    PageSize = 2
    Workers = 2
    RetryLimit = 3
    MaxAttempts = 2
INVARIANTS
    TypeOK
    AtMostOnce
    OkMeansComplete
    RecordAccounts
    DryRunWritesNothing
PROPERTIES
    StagesInOrder
    ImplementsContract
    Terminates
