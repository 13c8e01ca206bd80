\* Walks through volumes and snapshots that come and go.
SPECIFICATION FairSpec
CONSTANTS
    v1 = v1
    v2 = v2
    v3 = v3
    f1 = f1
    b1 = b1
    b2 = b2
    Blocks = {v1, v2, v3}
    Files = {f1}
    Backups = {b1, b2}
    Order <- AllOrder
    Origin <- AllOrigin
    AnySource = AnySource
    PageSizes = {0, 1, 2}
INVARIANTS
    NoneMissed
    NoneTwice
    WalkIsList
PROPERTY WalkEnds
