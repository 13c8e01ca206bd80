\* Two processes: a restart after a crash, and a new version beside the old.
SPECIFICATION FairSpec
CONSTANTS
    N = 2
    MaxRPCs = 1
INVARIANTS
    TypeOK
    ServingIsReachable
    NeverHalfDead
    NoRPCIsCut
PROPERTIES
    AloneServes
    SignalEnds
