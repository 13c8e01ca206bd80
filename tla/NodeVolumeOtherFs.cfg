\* A volume restored with another file system than its capability names.
SPECIFICATION Spec
CONSTANTS
    Handlers = {h1, h2}
    Staging = Staging
    Targets = {t1}
    Kinds = {"mount"}
    FsType = ext4
    RestoredFs = xfs
    NoFs = NoFs
    MaxSize = 1
    MaxLayers = 1
SYMMETRY Symmetry
PROPERTY
    DataKept
