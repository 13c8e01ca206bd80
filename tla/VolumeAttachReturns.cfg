\* Liveness: two handlers compete for one server, requests are abandoned.
SPECIFICATION FairSpec
CONSTANTS
    Handlers = {h1, h2}
    Volumes = {v1}
    Servers = {s1}
    Slots = {a1}
    NoHandler = NoHandler
    NoVolume = NoVolume
    NoServer = NoServer
    NoRequest = NoRequest
    MaxVolumesPerNode = 2
    RootDisks = 1
    MaxInFlight = 1
PROPERTY
    EveryCallReturns
