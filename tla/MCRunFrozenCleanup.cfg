SPECIFICATION Spec
CONSTANTS
    NoSpec = NoSpec
    MaxBackoff = 1
    MaxDisturb = 1
    Generated = {"internal"}
    Lagging = {}
    Interference = {}
    Specs <- RetainSpecs
INVARIANT FrozenCleanup
