SPECIFICATION Spec
CHECK_DEADLOCK FALSE
CONSTANTS
    NoSpec = NoSpec
    MaxBackoff = 0
    MaxDisturb = 1
    Generated = {"internal", "ssl"}
    Lagging = {"run"}
    Interference = {"cluster"}
    Specs <- SingleAttemptSpecs
INVARIANTS
    CleanedUpMeansGone
    CompleteIsPublished
