SPECIFICATION FairSpec
CONSTANTS
    NoSpec = NoSpec
    MaxBackoff = 1
    MaxDisturb = 1
    Generated = {"internal"}
    Lagging = {}
    Interference = {"restore", "job", "backup"}
    Specs <- MCSpecs
INVARIANTS
    TypeOK
    PublishedIsAnonymized
    SingleRunner
    AttemptsBounded
    FrozenOutput
    CleanedUpMeansGone
    CompleteIsPublished
PROPERTIES
    Settles
    DeletionCompletes
    NoReplay
    RestoreOnce
    FailedAbsorbs
