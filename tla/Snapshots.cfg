\* Snapshots of two volumes under one name, retries, lost and late requests.
SPECIFICATION Spec
CONSTANTS
    Handlers = {h1, h2}
    Names = {n1}
    Volumes = {v1, v2}
    Backups = {b1, b2, b3}
    NoName = NoName
    NoStorage = NoStorage
SYMMETRY Symmetry
INVARIANTS
    OneBackupPerName
    SnapshotOfItsSource
    DeletedIsGone
PROPERTIES
    OnlyBackupsDeleted
    SnapshotIsStable
    CreateSnapshotRecovers
