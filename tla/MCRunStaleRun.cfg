SPECIFICATION Spec
CHECK_DEADLOCK FALSE
CONSTANTS
    NoSpec = NoSpec
    MaxBackoff = 1
    MaxDisturb = 1
    Generated = {}
    Lagging = {"run"}
    Interference = {"cluster", "restore", "job", "backup"}
    Specs <- PlainSpecs
INVARIANTS
    PublishedIsAnonymized
    SingleRunner
    RestoresRecordedCluster
PROPERTIES
    NoReplay
    RestoreOnce
    FailedAbsorbs
