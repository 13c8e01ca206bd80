# Verification of the UpCloud CSI driver

TLA+ models of the driver in `src/`, model-checked with TLC on small instances. Every
safety property of every model is also proved with TLAPS, for every
instance, and so is that the attach protocol implements an abstract specification.
`PROJECT.json` maps each definition to the lines it models and lists runs, mutants,
findings, hazards and theorems.

## The system

The driver is one binary that serves CSI over gRPC on a unix socket, as controller
(one per cluster), as node plugin (one per node) or as both. It persists nothing:
what it knows is what it reads from the UpCloud API and from the node, request by
request and command by command. gRPC runs every call in a goroutine of its own. The
only state shared between calls is `nodeSync`, one mutex per server.

| Component | State | Operations | Interacts with | Hard behaviour |
|---|---|---|---|---|
| Attach/detach (`controller.go`, `controller_block_storage.go`, `upcloud_block_storage.go`) | mutex per server | ControllerPublishVolume, ControllerUnpublishVolume | API: servers, devices | concurrency, stale reads, cancelled calls, late requests, restarts |
| Block provisioning (same files, `controller_utils.go`) | none; volumes are found by title | CreateVolume, ControllerExpandVolume, DeleteVolume | API: storages | check-then-create, lost answers, partial clones, rounding |
| Node service and filesystem (`node.go`, `linux_filesystem.go`) | none; disk and mount table | Stage, Unstage, Publish, Unpublish, Expand | blkid, parted, sfdisk, mkfs, findmnt, mount, umount, growpart | interrupted formatting, silent failures, stale goroutines, node restarts |
| Snapshots (`controller_snapshot.go`) | none; backups are found by title | CreateSnapshot, DeleteSnapshot, Get/ListSnapshots | API: backups | check-then-create, waits longer than the caller's, swallowed errors |
| File storage (`controller_file_storage.go`, `upcloud_file_storage.go`) | none; found by name | create with share and ACL, expand, delete | API: file storages, shares, networks | several requests per call, a retry after some of them |
| Listing (`controller.go`, `controller_snapshot.go`) | none; the caller holds an offset | ListVolumes, ListSnapshots, GetSnapshot | API: lists | lists change between pages, and between the two lists of a page |
| Process (`server/`, `plugin/`) | listeners, socket file, RPCs in flight | Run and Stop of the gRPC, health and metrics server | signals, another process at the same path and ports | stop during start, crash and restart, overlap of two versions, one server of three failing |
| Identity, zone, logger, metrics, config | none | - | - | none |

What makes the parts correct: an answer to publish or unpublish is true and stays
true until the opposite is asked for; a server meets one attach or detach at a time;
a name has one volume and keeps it; a reported capacity is there; data on a volume is
never formatted away; a reported mount shows the volume and a reported unmount leaves
nothing; a snapshot is of the volume that was asked for, and deleting it deletes no
volume; an NFS volume that is reported can be mounted; a walk through the pages of a list
is the list; every interrupted call can be retried to success; every call is answered; a
process that is up can be reached, and ends when told to, without cutting RPCs off.

## Modules

| Module | Models |
|---|---|
| `VolumeAttach` | publish and unpublish of block volumes, down to each API request and the mutex |
| `Attachment` | abstract: what publish and unpublish promise together, without handlers, mutexes, addresses or requests |
| `VolumeAttachProofs` | inductive invariant of `VolumeAttach`, five theorems, and the proof that it implements `Attachment` |
| `NodeVolume` | one volume on one node, down to each command |
| `Capacity` | `validateCapacityRange` and the conversion to GiB, as operators |
| `BlockProvisioning` | create, clone, expand and delete, down to each API request; extends `Capacity` |
| `FileStorage` | the same for NFS volumes, with shares, ACLs and addresses; extends `Capacity` |
| `Snapshots` | CreateSnapshot and DeleteSnapshot, down to each API request |
| `Listing` | ListVolumes, ListSnapshots and GetSnapshot, and a caller that walks through the pages |
| `PluginProcess` | processes from start to exit, their three servers, the socket path and the ports |
| `PluginProcessProofs` | inductive invariant and four theorems about `PluginProcess` |
| `NodeVolumeProofs`, `BlockProvisioningProofs`, `FileStorageProofs`, `SnapshotsProofs`, `ListingProofs` | the same for each of these modules: an inductive invariant, a lemma per action, a theorem per property |
| `CapacityProofs` | what the capacity arithmetic computes |
| `MC...` | constants and symmetry for TLC |

Conventions. A *handler* is a goroutine; `pc[h]` names the API request or command it
performs next, so one action is one request together with everything the code does up
to the next one. `awaited` holds the handlers whose context is live: requests and
commands start only then, while `mutex.Lock`, `os.MkdirAll` and `os.Remove` ignore the
context, as in the code. `Cancel` is the sidecar's or kubelet's deadline; the goroutine
goes on. `ledger`, `bound`, `granted`, `promised` and the like record what the caller
was told, nothing in the plugin reads them. Operators whose comment begins with
"Fault:" are mutated forms of the operator that follows them and are used by no
specification.

### VolumeAttach

State: `pc`, `op`, `vol`, `srv`, `dev` (the device list as read), `uuids`
(ServerUUIDs as read), `holder` (who holds a server's mutex); the API's `servers`,
`volumes`, `state`, `devices`, and `wire`, the requests whose caller gave up and which
may arrive later. Server and volume lookups, the lock, the waits, the attach and
detach requests and the loop of `unpublishVolumeFromAllNodes` are an action each.
`GetServerByHostname` lists servers and then reads details; it is one step because
the first is used only to find the server's UUID, and a server that disappears between the
two is one of the errors of `ApiError`.

The API (external): it refuses to attach or detach unless the server is started, puts
it into maintenance while it does so, attaches a volume to one server at a time and
detaches by address. Servers may disappear, volumes may be deleted while detached.

`ledger[v][s]` is the last *unambiguous* answer: the RPC was still awaited, and no RPC
that asks for the opposite was awaited while it ran (`clean`). `disturbed` holds the
servers to which a request was abandoned on the wire. No code in the plugin can take
such a request back, and a late detach names only an address, so the properties speak
of the other servers; `attach_late`, where requests land late on one of two servers, and
the theorems, which hold for any number of abandoned requests and of servers, show that the
exemption stays per server.

`Attachment` says the same as one specification: its state is which volumes are on which
server and what the orchestrator was last told; its steps are a question, an answer
(which must be true), an attachment, a detachment, a server disturbed and a server lost.
An attachment or detachment against the last answer is no step of it. `VolumeAttach` maps
to it by `on[s]` = the volumes at the addresses of `s` and `answer` = `ledger`
(`Promise`); a step of a handler that neither asks, answers nor changes a device is a
stutter. `KeepsPromise` is the refinement, checked in `attach_late` and proved.

### NodeVolume

State: the device (`size`, partition `table`, `part`, `fs`, `fsSize`, whether it holds
`data`), the `mounts` stacked on each path, `exists`. Each of blkid, parted, sfdisk,
mkfs, findmnt, mount, umount, growpart and resize2fs/xfs_growfs is a step with three
outcomes: done, failed, and done but reported as failed. Assumed of the tools
(external): parted makes no overlapping partition; mkfs.ext4 refuses a mounted device,
overwrites without asking when it has no terminal, and writes the superblock last;
rmdir of a mount point fails. findmnt that fails without output is "not mounted", as
in the code. os.MkdirAll, os.Stat and os.Remove may fail too; an os.Stat that fails before
os.Remove makes the unmount answer success without having looked at the path, which the
ledger records as `"unchecked"`: the properties about unmounts say nothing of such an answer, and
a mount may be left. The kubelet takes it for a success. It has one call per volume outstanding, publishes and expands what
it believes staged and unstages when nothing is published; its retry may overlap a goroutine
it gave up on. `Init` has blank volumes and volumes restored with data.

### BlockProvisioning

State: per storage its title, size and state, `attached`, `wire` (abandoned creates), `backups`. The
provisioner has one call per name outstanding and repeats the same request. A GiB is
two bytes, so that fractions of a GiB exist. `DetailsFail` is a failed `GetStorageDetails`,
whose error `GetBlockStorageByName` drops: the client returns empty details with it, their
size 0 is not the one that was asked for, and the answer is AlreadyExists. `disturbed` holds the names
whose create or clone was abandoned on the wire. Request validation (name,
capabilities, topology, tier, encryption) rejects before any state changes and is left
out; the encryption mismatch of a clone is one of the errors of `ApiError`.

### FileStorage

State: per file storage its name, size, whether it runs, has an address, and the state of
`/share-1` (none, without ACL, open). CreateVolume lists, reads the controller's own server and the
networks, creates, waits, lists the shares and makes the share or its ACL, one request per
action; the address is part of the answer and is never asked for again. What is found by
name is answered with at once (`ExistsResponse`). `partial` holds the file storages whose
first CreateVolume did not live to finish them; `BoundIsMountable` exempts them, and the
run `file_storage_share` shows what happens to them. `Zone` and `NodeZone` are the zone the
lookup compares with and the zone the create uses; the runs have them equal.

### Snapshots

State: volumes and backups with title, origin and state; `wire` as above. CreateSnapshot
is three requests and a wait; DeleteSnapshot is two requests, and answers OK for every
error that is not a `Problem` of the API: `DeleteUnanswered` is that path.
`DeletedIsGone` therefore speaks of deletions whose requests were answered. The API
(external) allows one backup of a volume at a time, answers before the backup is done, and
refuses to delete what is not online.

### Listing

State: what exists, and a walk (`start`, `size`, the entries `seen`). `Page` and
`NextStart` are `paginateStorage`. GetSnapshot takes the ID of any storage, as the code does not
ask for its type. The API lists in a fixed order; entries appear at any
place of it and disappear at any time, also between the two lists that a page of
ListVolumes is cut from. `WalkIsList` compares the walk with the list itself, for every
page size. An entry that appears may push another one onto the next page again, and one
that disappears may pull another one off it; `NoneMissed` and `NoneTwice` say that nothing
else goes wrong.

### PluginProcess

Processes start in order, at any time, each with the goroutines of `server.Run`: one per
server and one that waits for a signal. A UNIX listener is its path: `path` is the process
whose socket is there, and whoever removes the path removes another one's socket
(`ousted`). GracefulStop and Close before Serve make Serve return at once (Go's and
grpc's behaviour, external). `Kill` is a crash or a second signal; `End` forgets the
memory and leaves the socket. Removing the socket and Listen may fail for reasons of the
host (directory, permission, descriptors): `plugin[p]` is then `"failed"`. A Listen that lost the path
to another process is `"returned"`, like a Serve that was stopped. A `Run` that failed ends no other server,
as in the code, and leaves a process up, healthy and without gRPC. `NeverHalfDead` says when that
happens to a process alone: when the host refused it the socket, not because of what earlier
processes left. Errors of Accept are left out: grpc and net/http retry the temporary ones.

## Runs

| Run | Checks | Bounds | Result |
|---|---|---|---|
| `attach_concurrent` | TypeOK, PublishedIsAttached, UnpublishedIsDetached, RequestFindsServerStarted, DetachAddressIsCurrent | 2 handlers, 2 volumes, 1 server, 2 addresses, nothing on the wire | pass |
| `attach_late` | KeepsPromise | 1 handler, 1 volume, 2 servers, 1 address, 2 requests on the wire | pass |
| `attach_returns` | EveryCallReturns | 2 handlers, 1 server, 1 request on the wire, fairness | pass |
| `node_volume` | TypeOK, MountedShowsVolume, UnmountedIsBare, ExpandedIsGrown, DataKept, StageRecovers | 2 handlers, 1 target, 2 sizes, 2 stacked mounts | pass |
| `node_other_fs` | DataKept | a restored volume with another file system | **violated** |
| `provision_new` | TypeOK, OneVolumePerName, CapacityIsReal, BindingIsStable, CreateRecovers | 2 handlers, 1 name, 2 new storages | pass |
| `provision_clone` | CapacityIsReal | the same, clone requests | pass |
| `snapshots` | OneBackupPerName, SnapshotOfItsSource, DeletedIsGone, OnlyBackupsDeleted, SnapshotIsStable, CreateSnapshotRecovers | 2 handlers, 1 name, 2 volumes, 3 backups | pass |
| `file_storage` | OneFileStoragePerName, CapacityIsReal, BoundIsMountable, BindingIsStable, CreateRecovers | 2 handlers, 1 name, 2 file storages | pass |
| `file_storage_share` | ShareIsOpen | 1 handler, 1 file storage | **violated** |
| `listing` | NoneMissed, NoneTwice, WalkIsList, WalkEnds | 3 storages, 1 file storage, 2 backups, pages of 1, 2 and all, fairness | pass |
| `process` | TypeOK, ServingIsReachable, NeverHalfDead, NoRPCIsCut, AloneServes, SignalEnds | 2 processes, 1 RPC each, fairness | pass |

Why the bounds are enough. The interesting interleavings are between one call that is
awaited and one that is stale, or two that compete for a mutex: two handlers. A stale
address needs a second volume that takes it: two volumes, two addresses. Moving a volume
needs two servers, and a request that lands after its handler went on needs one on the wire, two of them a late
detach after a late attach (`attach_late`; one address is enough, because a detached volume that is attached again takes it again). A second volume of a name needs two UUIDs besides the source, a third backup the
case of a name that was freed in between. A path
mounted twice needs two layers, an expand two sizes. Four volumes in pages of one and two
give first, middle, last, full and partial pages, and tokens past the end. Two processes are what a
rollout or a restart has. Handlers, volumes, servers,
addresses, targets and new storages are interchangeable, hence the symmetry sets, which
no liveness run uses. `MaxInFlight`, `MaxLayers`, `MaxSize`, `MaxGB`,
`MaxBackups`, `MaxRPCs`, `N`, and the UUIDs that are given out once each are the only caps.
`MaxGB` bounds expands; it is at least the greatest size a create asks for. The theorems
below remove the bounds for all of the models.

Fairness. `attach_returns`: weak fairness of each goroutine's step, because every API
request has the client's 120 s timeout and every wait its own (15 minutes for servers,
an hour for storages), after which the handler moves on by `ApiError`; strong
fairness of taking the mutex, because `sync.Mutex` hands the lock to a waiter that has
starved for more than 1 ms. Nothing is assumed of the API, of callers or of
cancellation. `listing`: weak fairness of the walk: the caller asks for the page its token
names and a request ends, well or not; nothing of what appears or disappears. `process`: weak
fairness of the goroutines of each server and of the one that stops them, and that each RPC
ends (the timeouts above bound them); nothing of signals, crashes or starts.

Violated runs are disagreements between the code and its own documentation:

- `node_other_fs`: `filesystemExists` "returns true if the source device is already
  formatted" but looks for the requested type only; mkfs then overwrites the data.
- `file_storage_share`: a CreateVolume that fails after the file storage was made and
  before its share or ACL was is retried with success, and nothing makes them any more;
  `FEATURES.md:16` says the ACL "is automatically configured".

Other behaviour of the code that a reader of its documentation would not expect, which
the models have and no run is about:

- The limit check of a publish uses a device list read before the mutex, so two publishes
  at once exceed `MaxVolumesPerNode`.
- An expand to a fraction of a GiB is rounded down and answered with success; an NFS volume
  created with such a size is answered with AlreadyExists by every retry, which compares bytes with whole GiB.
- A capacity range from below the minimum up to it yields a size below the minimum
  (`CapacityWithinRange` says what is true of the size: it is within the range and the maximum).
- `ResizeBlockStorage` "Requires the volume to be attached to a server"; its only
  caller passes a clone that was just made.
- DeleteSnapshot answers OK when its requests time out, and the backup stays.
- ListSnapshots lists backups that are not cut yet (`Listing` leaves their state out).
- A gRPC server that fails, because the host refuses it the socket or another process has the
  path, leaves a process that reports itself healthy.
- An unmount whose os.Stat fails is answered with success; if findmnt had failed without output, or the
  path was mounted twice, the mount stays.
- A CreateVolume that finds its name and cannot read its details answers AlreadyExists.
- GetSnapshot, and ListSnapshots by ID, return a volume as a snapshot.

## Proofs

`VolumeAttachProofs` proves, for all finite and infinite sets of handlers, volumes and
servers, any finite set of addresses and any number of abandoned requests, from the
named assumptions `AttachAssumption` and `NoRequestAssumption`:

- `TypeCorrect`: `Spec => []TypeOK`
- `OperationsSerialized`: `Spec => []RequestFindsServerStarted`
- `DetachByCurrentAddress`: `Spec => []DetachAddressIsCurrent`
- `PublishAnswerHolds`: `Spec => []PublishedIsAttached`
- `UnpublishAnswerHolds`: `Spec => []UnpublishedIsDetached`

None of the last four is inductive. The invariant `IInv` adds: which handlers may hold a
mutex and that exactly the locked steps do (`LockOwned`); that deleted servers have no devices
and deleted volumes are on no server (`CloudOK`); that requests on the wire go
to disturbed servers only (`WireOK`); that a published answer excludes an unpublish in
progress that the orchestrator awaits, and the converse (`NoOpposite`); and, for each step of each
handler, what it has read that is still true (`Knows`) and what the ledger says about the cloud
(`Truth`). The heart of the argument: while a handler holds the mutex of an undisturbed
server nobody else can change that server's state or devices, so what it read under the
mutex stays current up to its request; what it read before is used only for refusals and
for "already attached", which is true as long as no opposite call was awaited. One lemma
per action shows that it preserves `IInv`; three facts and PTL give the theorems.

It also proves `ImplementsAttachment`: `Spec => KeepsPromise`, from
`IInv`. The initial states map to the initial state; each action is shown to be one step
of `Attachment` or a stutter. The answers are true by what `Knows` says of the handler that
gives them; an attachment against an "unpublished" answer would need an awaited publish,
which `NoOpposite` excludes; an address that is detached holds the handler's own volume by
`Knows`, unless the server is disturbed.

`PluginProcessProofs` proves `TypeCorrect`, `ServesAtPath`, `LoneProcessServes` and
`StopIsGraceful` (`Spec => []` of TypeOK, ServingIsReachable, NeverHalfDead and NoRPCIsCut)
for any number of processes and RPCs, from `ProcessAssumption`. The invariant adds: what
a process that has not started looks like; that a process is in `quit` exactly from
the signal on; that only a process that serves has RPCs in flight; that a listener is
at the path from Listen on and not only while it serves, unless stopped or ousted; and that the path
of a lone process is free between a clean-up that worked and its Listen, because only processes that are
up touch the path. Hence only the host can make a lone process fail (`LoneProcessServes`).

The other proof modules are laid out alike: the parts of `IInv`, a lemma for `Init`, lemmas
about the steps several actions share, a lemma per action, `Invariance`
(`Spec => []IInv`), and the theorems. Each theorem is for all sets of handlers, names and storages
(the storages finite where they are counted) and from the named assumption of its
module.

**Look-up-then-create** (`SnapshotsProofs`, `FileStorageProofs`, `BlockProvisioningProofs`):

| Theorem | Snapshots | FileStorage | BlockProvisioning |
|---|---|---|---|
| `TypeCorrect` | TypeOK | TypeOK | TypeOK |
| one per name | `CreatesOneBackup`: OneBackupPerName | `CreatesOneFileStorage`: OneFileStoragePerName | `CreatesOneVolume`: OneVolumePerName |
| `AnswerIsStable` | SnapshotIsStable | BindingIsStable | BindingIsStable |
| `RetrySucceeds` | CreateSnapshotRecovers | CreateRecovers | CreateRecovers |
| what an answer says | `AnswersWithItsSource`: SnapshotOfItsSource; `OkMeansGone`: DeletedIsGone | `AnswersWithRealCapacity`: CapacityIsReal; `WholeCapacityIsThere`; `AnswersWithMountable`: BoundIsMountable | `AnswersWithRealCapacity`: CapacityIsReal; `WholeCapacityIsThere` |
| what a delete deletes | `DeletesOnlyBackups`: OnlyBackupsDeleted | | |

The common argument. The caller has one call per name outstanding (`OneCallPerName`) and
requests are sent only by goroutines that are awaited; so what such a goroutine did not find
under a name is still missing when it creates (`StillMissing`), except that a request
abandoned on the wire may create it, which makes the name a disturbed one
(`WireIsDisturbed`). Hence `TitledOnce` (`NamedOnce`), from which the counting properties follow. UUIDs are
given out once, so what was answered for a name was made for it, or is gone
(`BoundIsItsOwn`). The rest is particular:

- `CapacityIsReal` lets an answer exceed the size by less than a GiB, because a create of a
  fraction answers with the bytes that were asked for and creates whole GiB.
  `WholeCapacityIsThere` follows from it: an answer in whole GiB is not more than what is there.
- `BlockProvisioning`: `AnswerIsStable` holds for disturbed names too, because a call that
  goes on to create knows that the volume answered with before is gone
  (`CreatesWhenGone`). `CapacityIsReal` rests on sizes that only grow, on what was made or
  modified having the size asked for (`HasItsSize`), and on a clone being answered with only
  after its resize.
- `FileStorage`: nobody is given a file storage that a call is still making
  (`MadeIsUnbound`), and one that no failed call left behind is being made or is ready
  (`WholeIsReady`). `CreatesOneFileStorage` and `AnswerIsStable` assume `NodeZone = Zone`: if the
  controller's server is not in the zone the controller is configured with, the lookup never finds
  what the create made. The other theorems do not need it.
- `RetrySucceeds`: a call without a fault of its own cannot end in an error, by cases over the
  actions that end it. `IInv` gives that the lookup finds at most one storage, of the size
  that was asked for.

**Node service** (`NodeVolumeProofs`): `TypeCorrect`, `MountAnswerHolds` (MountedShowsVolume),
`UnmountAnswerHolds` (UnmountedIsBare; of unmounts whose os.Stat worked), `ExpandAnswerHolds` (ExpandedIsGrown), `StageSucceeds`
(StageRecovers), and `FormatKeepsData` (DataKept), which assumes `RestoredFs = FsType`, the case that
`node_other_fs` shows to be necessary. The node service takes no lock. It is safe because
commands run under the context of the RPC and the kubelet waits for one RPC at a time
(`OneCall`): of all goroutines only the awaited one changes the disk and the mounts, so what its
probes found is still so when it acts on it (`DiskKnows`); an abandoned one only makes and
removes directories, and not those in use as mount points (`MountPointsExist`). The kubelet's view
is related to the node in `LedgerKnows`, `MountedIsMounted` and `MountedIsFormatted`; that an expand
never waits for more than the device has, in `SizesNest`. `StageSucceeds` needs that a call that
met neither a fault nor another goroutine is alone (`UntroubledIsAlone`).

**Capacity** (`CapacityProofs`): `CapacityWithinRange` and the lemmas on rounding that the
provisioning proofs cite, for every size of a GiB and all limits.

**Listing** (`ListingProofs`): `TypeCorrect`, `MissesNothing` (NoneMissed), `RepeatsNothing`
(NoneTwice) and `PagesAreTheList` (WalkIsList), for any lists and page sizes, from
`ListingAssumption`. What the API lists is written without recursion: the k-th entry is the
one whose place in the API's order has rank k among the places of what exists
(`InOrder`). `PageIs` and `PageHas` say that `Page` and `NextStart` cut a list into pages without
gap or overlap. `InOrderWithin` says what makes offsets sound: of two lists in the same order, one a
part of the other, the shorter has each entry at no later place. Hence, while nothing disappears, what
lasts and is before the offset was seen (`Behind`); while nothing appears, what is after it
was not (`Ahead`); while neither, what was seen is the list up to the offset (`Prefix`).
`BlocksAsRead` carries this through the two requests of a page of ListVolumes, by the same
flags.

Only model-checked:

- EveryCallReturns, WalkEnds, AloneServes and SignalEnds: liveness under fairness, out of the
  prover's reach.
- The two violated runs, and that the assumptions which
  `FormatKeepsData` and `CreatesOneFileStorage` add are needed.

## Not modelled

Identity and logger: no state that a property could be about. Configuration and zone
discovery: a bad one is a failed `Start` of `PluginProcess`, what they yield is a constant of the
models. The counters and histograms around the service interface: they change no
result. RPCs that only read (NodeGetVolumeStats, NodeGetInfo, capabilities,
ValidateVolumeCapabilities). Publish and unpublish of file storage, which are no-ops. Request
validation, which rejects before any state changes.

## Plan

1. One abstract specification of look-up-then-create (a name, what it is bound to, what exists)
   that `Snapshots`, `FileStorage` and `BlockProvisioning` implement, in place of the three
   separate statements of one-per-name and stability.
