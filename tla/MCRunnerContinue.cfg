SPECIFICATION Spec
CONSTANTS
    Items <- MCItems
    Kind <- MCKind
    Stage <- MCStage
    LastStage = 3
    Rows <- MCRows
    Continue <- MCContinue
    PageSize = 2
    Workers = 2
    RetryLimit = 3
    MaxAttempts = 2
PROPERTY ContinuesOnError
