\* Clones, one of which has to be resized after it was made.
SPECIFICATION Spec
CONSTANTS
    giB = 2
    minBytes = 2
    maxBytes = 6
    Handlers = {h1, h2}
    Names = {n1}
    Storages = {src, u1, u2}
    NoName = NoName
    NoStorage = NoStorage
    Source = src
    SourceGB = 1
    SourceState = "maintenance"
    Requests <- CloneRequests
    ExpandRanges <- NoRanges
    StorageLabels = TRUE
    MaxGB = 3
    MaxBackups = 1
SYMMETRY Symmetry
INVARIANT CapacityIsReal
