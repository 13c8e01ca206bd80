\* New volumes: retries, lost answers, abandoned requests, restarts.
SPECIFICATION Spec
CONSTANTS
    giB = 2
    minBytes = 2
    maxBytes = 6
    Handlers = {h1, h2}
    Names = {n1}
    Storages = {src, u1, u2}
    NoName = NoName
    NoStorage = NoStorage
    Source = src
    SourceGB = 1
    SourceState = "online"
    Requests <- NewRequests
    ExpandRanges <- WholeRanges
    StorageLabels = TRUE
    MaxGB = 3
    MaxBackups = 1
SYMMETRY Symmetry
INVARIANTS
    TypeOK
    OneVolumePerName
    CapacityIsReal
PROPERTIES
    BindingIsStable
    CreateRecovers
