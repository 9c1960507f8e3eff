SPECIFICATION Spec
CONSTANTS
    NoSpec = NoSpec
    MaxBackoff = 1
    MaxDisturb = 0
    Generated = {"internal"}
    Lagging = {"job"}
    Interference = {}
    Specs <- PlainSpecs
PROPERTY RunnerStoppedFirst
