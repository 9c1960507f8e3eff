SPECIFICATION FairSpec
CHECK_DEADLOCK FALSE
CONSTANTS
    NoSpec = NoSpec
    MaxBackoff = 1
    MaxDisturb = 1
    Generated = {"internal"}
    Lagging = {}
    Interference = {"cluster"}
    Specs <- PlainSpecs
PROPERTY Settles
