SPECIFICATION Spec
CHECK_DEADLOCK FALSE
CONSTANTS
    NoSpec = NoSpec
    MaxBackoff = 1
    MaxDisturb = 1
    Generated = {}
    Lagging = {"job", "pod"}
    Interference = {"cluster", "job"}
    Specs <- PlainSpecs
INVARIANTS
    PublishedIsAnonymized
    CleanedUpMeansGone
    SingleRunner
PROPERTY NoReplay
