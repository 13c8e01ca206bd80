\* NFS volumes: retries, lost answers, abandoned requests, restarts.
SPECIFICATION Spec
CONSTANTS
    giB = 2
    minBytes = 2
    maxBytes = 6
    Handlers = {h1, h2}
    Names = {n1}
    Services = {u1, u2}
    NoName = NoName
    NoService = NoService
    Zone = "fi-hel1"
    NodeZone = "fi-hel1"
    Requests <- NewRanges
    ExpandRanges <- LargerRanges
SYMMETRY Symmetry
INVARIANTS
    OneFileStoragePerName
    CapacityIsReal
    BoundIsMountable
PROPERTIES
    BindingIsStable
    CreateRecovers
