\* One stale and one awaited handler, all kinds of volumes.
SPECIFICATION Spec
CONSTANTS
    Handlers = {h1, h2}
    Staging = Staging
    Targets = {t1}
    Kinds = {"mount", "block", "nfs"}
    FsType = ext4
    RestoredFs = ext4
    NoFs = NoFs
    MaxSize = 2
    MaxLayers = 2
SYMMETRY Symmetry
INVARIANTS
    TypeOK
    MountedShowsVolume
    UnmountedIsBare
    ExpandedIsGrown
PROPERTIES
    DataKept
    StageRecovers
