\* Requests on the wire: what a late attach or detach does to the promise.
SPECIFICATION Spec
CONSTANTS
    Handlers = {h1}
    Volumes = {v1}
    Servers = {s1, s2}
    Slots = {a1}
    NoHandler = NoHandler
    NoVolume = NoVolume
    NoServer = NoServer
    NoRequest = NoRequest
    MaxVolumesPerNode = 2
    RootDisks = 1
    MaxInFlight = 2
SYMMETRY Symmetry
PROPERTY KeepsPromise
