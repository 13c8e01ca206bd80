\* Two handlers compete for one server; no request is abandoned.
SPECIFICATION Spec
CONSTANTS
    Handlers = {h1, h2}
    Volumes = {v1, v2}
    Servers = {s1}
    Slots = {a1, a2}
    NoHandler = NoHandler
    NoVolume = NoVolume
    NoServer = NoServer
    NoRequest = NoRequest
    MaxVolumesPerNode = 2
    RootDisks = 1
    MaxInFlight = 0
SYMMETRY Symmetry
INVARIANTS
    TypeOK
    PublishedIsAttached
    UnpublishedIsDetached
    RequestFindsServerStarted
    DetachAddressIsCurrent
