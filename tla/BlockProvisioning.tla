-------------------------- MODULE BlockProvisioning -------------------------
(***************************************************************************)
(* Creating, cloning, expanding and deleting block storage: CreateVolume,  *)
(* ControllerExpandVolume and DeleteVolume (internal/controller) on top of *)
(* the block storage calls of internal/service.                            *)
(*                                                                         *)
(* The plugin remembers nothing: a volume is found again by its title.     *)
(* CreateVolume therefore lists, then creates, in separate API requests.   *)
(* The provisioner (external) has one call per name outstanding, gives up  *)
(* on it after a timeout and retries, while the goroutine of the old call  *)
(* may still run and its last request may still be on its way to the API.  *)
(***************************************************************************)
EXTENDS Capacity, FiniteSets

CONSTANTS
    Handlers,       \* goroutines that serve RPCs
    Names,          \* volume names (PVCs)
    Storages,       \* storage UUIDs, never used twice
    NoName, NoStorage,
    Source,         \* a storage that exists from the start
    SourceGB,       \* its size
    SourceState,    \* its state at first: maintenance, say, if it is being backed up
    Requests,       \* CreateVolume requests: required and limit bytes, and
                    \* whether the content source is Source
    ExpandRanges,   \* capacity ranges of expand requests
    StorageLabels,  \* the controller is configured with labels for storages
    MaxGB,          \* bound: storage sizes
    MaxBackups      \* bound: backups that a resize left behind

ASSUME ProvisionAssumption ==
    /\ NoName \notin Names
    /\ NoStorage \notin Storages
    /\ Source \in Storages
    /\ IsFiniteSet(Storages) /\ IsFiniteSet(Handlers)
    /\ MaxGB \in Nat /\ SizeGB(maxBytes) <= MaxGB /\ SourceGB \in 1 .. MaxGB
    /\ SourceState \in {"online", "maintenance"}
    /\ Requests \subseteq [required : Int, limit : Int, clone : BOOLEAN]
    /\ ExpandRanges \subseteq [required : Int, limit : Int]
    /\ StorageLabels \in BOOLEAN
    /\ MaxBackups \in Nat

VARIABLES
    \* the plugin process
    pc,         \* the next API request of each handler
    op,         \* the RPC it serves
    name,       \* the name it is about
    uuid,       \* the storage it works on
    want,       \* the capacity it is to provide, in bytes
    awaited,    \* handlers whose RPC context is live
    \* the UpCloud API
    storages,   \* storages that exist
    used,       \* UUIDs that were given out
    title, sizeGB, state,
    attached,   \* storages attached to a server
    wire,       \* names with an abandoned create or clone request
    backups,    \* backups made by ResizeStorageFilesystem that still exist
    \* the provisioner
    req,        \* its CreateVolume request for each name, the same every time
    bound,      \* the volume it was last given for each name
    granted,    \* the CapacityBytes of the last answer about each storage
    disturbed,  \* names for which a create was abandoned
    troubled    \* handlers that met a fault or another goroutine

request == <<op, name, awaited>>
cloud   == <<storages, used, title, sizeGB, state>>
side    == <<attached, wire, backups, req, disturbed>>
known   == <<bound, granted>>
vars    == <<pc, op, name, uuid, want, awaited, storages, used, title, sizeGB,
             state, attached, wire, backups, req, bound, granted,
             disturbed, troubled>>

Waiting == {"createWait", "sourceWait", "cloneWait", "labelWait", "resizeWait",
            "finalWait", "modifyWait"}

PCName == Waiting \union {"idle", "list", "details", "create", "source", "clone",
                          "label", "resize", "resizeFs", "deleteBackup",
                          "lookup", "modify", "delete"}

TypeOK ==
    /\ pc \in [Handlers -> PCName]
    /\ op \in [Handlers -> {"none", "create", "expand", "delete"}]
    /\ name \in [Handlers -> Names \union {NoName}]
    /\ uuid \in [Handlers -> Storages \union {NoStorage}]
    /\ want \in [Handlers -> Capacities]
    /\ awaited \subseteq Handlers
    /\ storages \subseteq used /\ used \subseteq Storages
    /\ title \in [Storages -> Names \union {NoName}]
    /\ sizeGB \in [Storages -> 0 .. MaxGB]
    /\ state \in [Storages -> {"online", "maintenance"}]
    /\ attached \subseteq storages
    /\ wire \subseteq Names
    /\ backups \in 0 .. MaxBackups
    /\ bound \in [Names -> Storages \union {NoStorage}]
    /\ req \in [Names -> Requests]
    /\ granted \in [Storages -> Nat]
    /\ disturbed \subseteq Names
    /\ troubled \subseteq Handlers

Init ==
    /\ pc = [h \in Handlers |-> "idle"]
    /\ op = [h \in Handlers |-> "none"]
    /\ name = [h \in Handlers |-> NoName]
    /\ uuid = [h \in Handlers |-> NoStorage]
    /\ want = [h \in Handlers |-> 0]
    /\ awaited = {}
    /\ storages = {Source}
    /\ used = {Source}
    /\ title = [u \in Storages |-> NoName]
    /\ sizeGB = [u \in Storages |-> IF u = Source THEN SourceGB ELSE 0]
    /\ state = [u \in Storages |-> IF u = Source THEN SourceState ELSE "online"]
    /\ attached = {}
    /\ wire = {}
    /\ backups = 0
    /\ req \in [Names -> Requests]
    /\ bound = [n \in Names |-> NoStorage]
    /\ granted = [u \in Storages |-> 0]
    /\ disturbed = {}
    /\ troubled = {}

-----------------------------------------------------------------------------
(***************************************************************************)
(* How a call begins, goes on and ends.                                    *)
(***************************************************************************)

\* An API request is sent only while the context is live.
Live(h) == h \in awaited

\* The provisioner has no other call for the name outstanding.
Call(h, o, n, u, first) ==
    /\ pc[h] = "idle"
    /\ \A g \in awaited : name[g] # n
    /\ pc' = [pc EXCEPT ![h] = first]
    /\ op' = [op EXCEPT ![h] = o]
    /\ name' = [name EXCEPT ![h] = n]
    /\ uuid' = [uuid EXCEPT ![h] = u]
    /\ awaited' = awaited \union {h}
    /\ troubled' = IF \E g \in Handlers : name[g] = n
                   THEN troubled \union {h} ELSE troubled \ {h}
    /\ UNCHANGED <<cloud, side, known>>

Return(h) ==
    /\ pc' = [pc EXCEPT ![h] = "idle"]
    /\ op' = [op EXCEPT ![h] = "none"]
    /\ name' = [name EXCEPT ![h] = NoName]
    /\ uuid' = [uuid EXCEPT ![h] = NoStorage]
    /\ want' = [want EXCEPT ![h] = 0]
    /\ awaited' = awaited \ {h}

ReturnError(h) == Return(h) /\ UNCHANGED <<known, troubled>>

ReturnFault(h) == Return(h) /\ troubled' = troubled \union {h} /\ UNCHANGED known

\* A response for storage u with CapacityBytes bytes; the provisioner reads it
\* if it still waits for it.
ReturnVolume(h, u, bytes) ==
    /\ Return(h)
    /\ bound' = IF Live(h) THEN [bound EXCEPT ![name[h]] = u] ELSE bound
    /\ granted' = IF Live(h) THEN [granted EXCEPT ![u] = bytes] ELSE granted
    /\ UNCHANGED troubled

\* h goes on to step next with storage u and capacity w.
Goto(h, next, u, w) ==
    /\ pc' = [pc EXCEPT ![h] = next]
    /\ uuid' = [uuid EXCEPT ![h] = u]
    /\ want' = [want EXCEPT ![h] = w]
    /\ UNCHANGED <<request, known, troubled>>

Continue(h, next) == Goto(h, next, uuid[h], want[h])

\* A request has had its effect; the answer may still be lost.
Then(h, next) == Continue(h, next) \/ ReturnFault(h)

\* The API makes a storage (external): it is in maintenance until it settles.
NewStorage(u, n, gb) ==
    /\ u \notin used
    /\ gb > 0
    /\ used' = used \union {u}
    /\ storages' = storages \union {u}
    /\ title' = [title EXCEPT ![u] = n]
    /\ sizeGB' = [sizeGB EXCEPT ![u] = gb]
    /\ state' = [state EXCEPT ![u] = "maintenance"]

\* ModifyStorage (external): only an online storage, and it never shrinks.
Modify(u, gb) ==
    /\ u \in storages
    /\ state[u] = "online"
    /\ gb >= sizeGB[u]
    /\ sizeGB' = [sizeGB EXCEPT ![u] = gb]
    /\ state' = [state EXCEPT ![u] = "maintenance"]
    /\ UNCHANGED <<storages, used, title>>

-----------------------------------------------------------------------------
(***************************************************************************)
(* CreateVolume.                                                           *)
(***************************************************************************)

CreateVolume(h, n) ==
    /\ Call(h, "create", n, NoStorage, "list")
    /\ UNCHANGED want

Titled(n) == {u \in storages : title[u] = n}

RequestedBytes(n) == ValidateCapacityRange(req[n].required, req[n].limit)

\* No volume has the title: createBlockStorageVolume.
CreateNew(h) == Goto(h, IF req[name[h]].clone THEN "source" ELSE "create",
                     NoStorage, RequestedBytes(name[h]))

\* Fault: with several volumes of that name the first is as good as any.
GetBlockStorageByNameAny(h) ==
    /\ pc[h] = "list"
    /\ Live(h)
    /\ \/ Titled(name[h]) = {} /\ CreateNew(h)
       \/ \E u \in Titled(name[h]) : Goto(h, "details", u, 0)
    /\ UNCHANGED <<cloud, side>>

\* GetBlockStorageByName: the list of storages, and what follows from how many
\* have the title: create one, look at it, or "fatal: duplicate volume".
GetBlockStorageByName(h) ==
    /\ pc[h] = "list"
    /\ Live(h)
    /\ \/ /\ Titled(name[h]) = {}
          /\ RequestedBytes(name[h]) # OutOfRange
          /\ CreateNew(h)
       \/ /\ Titled(name[h]) = {}
          /\ RequestedBytes(name[h]) = OutOfRange
          /\ ReturnError(h)
       \/ \E u \in Storages : Titled(name[h]) = {u} /\ Goto(h, "details", u, 0)
       \/ Cardinality(Titled(name[h])) > 1 /\ ReturnError(h)
    /\ UNCHANGED <<cloud, side>>

\* Fault: the size of the existing volume is not compared.
ExistsResponseAnySize(h) ==
    /\ pc[h] = "details"
    /\ Live(h)
    /\ uuid[h] \in storages
    /\ ReturnVolume(h, uuid[h], RequestedBytes(name[h]))
    /\ UNCHANGED <<cloud, side>>

\* Fault: a size in GiB is compared with one in bytes.
ExistsResponseComparesGB(h) ==
    /\ pc[h] = "details"
    /\ Live(h)
    /\ uuid[h] \in storages
    /\ \/ /\ sizeGB[uuid[h]] = RequestedBytes(name[h])
          /\ ReturnVolume(h, uuid[h], sizeGB[uuid[h]] * giB)
       \/ /\ sizeGB[uuid[h]] # RequestedBytes(name[h])
          /\ ReturnError(h)
    /\ UNCHANGED <<cloud, side>>

\* createVolumeExistsResponse, with the details of the one volume found.
CreateVolumeExistsResponse(h) ==
    /\ pc[h] = "details"
    /\ Live(h)
    /\ uuid[h] \in storages
    /\ \/ /\ sizeGB[uuid[h]] * giB = RequestedBytes(name[h])
          /\ ReturnVolume(h, uuid[h], sizeGB[uuid[h]] * giB)
       \/ /\ sizeGB[uuid[h]] * giB # RequestedBytes(name[h])
          /\ ReturnError(h)
    /\ UNCHANGED <<cloud, side>>

\* GetBlockStorageByName drops the error of GetStorageDetails and goes on with
\* the empty details that came with it; size 0 is not the one that was asked
\* for, and createVolumeExistsResponse answers AlreadyExists.
DetailsFail(h) ==
    /\ pc[h] = "details"
    /\ ReturnFault(h)
    /\ UNCHANGED <<cloud, side>>

\* Fault: the request is made with context.Background().
CreateBlockStorageBackground(h) ==
    /\ pc[h] = "create"
    /\ \E u \in Storages : /\ NewStorage(u, name[h], SizeGB(want[h]))
                           /\ Goto(h, "createWait", u, want[h])
    /\ UNCHANGED side

\* Fault: the size is sent in bytes.
CreateBlockStorageBytes(h) ==
    /\ pc[h] = "create"
    /\ Live(h)
    /\ \E u \in Storages : /\ NewStorage(u, name[h], want[h])
                           /\ Goto(h, "createWait", u, want[h]) \/ ReturnFault(h)
    /\ UNCHANGED side

\* CreateBlockStorage: CreateStorage.
CreateBlockStorage(h) ==
    /\ pc[h] = "create"
    /\ Live(h)
    /\ \E u \in Storages : /\ NewStorage(u, name[h], SizeGB(want[h]))
                           /\ Goto(h, "createWait", u, want[h]) \/ ReturnFault(h)
    /\ UNCHANGED side

\* createVolumeFromSource: GetBlockStorageByUUID; RequireBlockStorageOnline
\* waits only when this read did not find the source online.
FindSource(h) ==
    /\ pc[h] = "source"
    /\ Live(h)
    /\ \/ /\ Source \in storages
          /\ Goto(h, IF state[Source] = "online" THEN "clone" ELSE "sourceWait",
                  Source, want[h])
       \/ Source \notin storages /\ ReturnError(h)
    /\ UNCHANGED <<cloud, side>>

\* CloneBlockStorage: CloneStorage makes a copy of the source's size.
CloneBlockStorage(h) ==
    /\ pc[h] = "clone"
    /\ Live(h)
    /\ Source \in storages
    /\ \E u \in Storages : /\ NewStorage(u, name[h], sizeGB[Source])
                           /\ Goto(h, "cloneWait", u, want[h]) \/ ReturnFault(h)
    /\ UNCHANGED side

\* CloneBlockStorage: ModifyStorage sets the labels.
LabelClone(h) ==
    /\ pc[h] = "label"
    /\ Live(h)
    /\ Modify(uuid[h], sizeGB[uuid[h]])
    /\ Then(h, "labelWait")
    /\ UNCHANGED side

\* ResizeBlockStorage of a clone that is too small: ModifyStorage.
ResizeClone(h) ==
    /\ pc[h] = "resize"
    /\ Live(h)
    /\ Modify(uuid[h], SizeGB(want[h]))
    /\ Then(h, "resizeWait")
    /\ UNCHANGED side

\* ResizeBlockStorage: ResizeStorageFilesystem, which makes a backup first.
ResizeStorageFilesystem(h) ==
    /\ pc[h] = "resizeFs"
    /\ Live(h)
    /\ uuid[h] \in storages
    /\ backups < MaxBackups
    /\ backups' = backups + 1
    /\ Then(h, "deleteBackup")
    /\ UNCHANGED <<cloud, attached, wire, req, disturbed>>

\* ResizeBlockStorage: the backup is deleted.
DeleteResizeBackup(h) ==
    /\ pc[h] = "deleteBackup"
    /\ Live(h)
    /\ backups' = backups - 1
    /\ Then(h, "finalWait")
    /\ UNCHANGED <<cloud, attached, wire, req, disturbed>>

-----------------------------------------------------------------------------
(***************************************************************************)
(* ControllerExpandVolume and DeleteVolume, for a volume that is bound.    *)
(***************************************************************************)

ControllerExpandVolume(h, n, r) ==
    /\ bound[n] # NoStorage
    /\ Call(h, "expand", n, bound[n], "lookup")
    /\ want' = [want EXCEPT ![h] = ValidateCapacityRange(r.required, r.limit)]

\* Fault: the answer is given without the resize.
ExpandBlockStorageSkipped(h) ==
    /\ pc[h] = "lookup"
    /\ Live(h)
    /\ uuid[h] \in storages
    /\ ReturnVolume(h, uuid[h], want[h])
    /\ UNCHANGED <<cloud, side>>

\* lookupVolume, then expandBlockStorage up to ResizeBlockDevice.
ExpandBlockStorage(h) ==
    /\ pc[h] = "lookup"
    /\ Live(h)
    /\ \/ /\ uuid[h] \in storages /\ want[h] # OutOfRange
          /\ SizeGB(want[h]) <= sizeGB[uuid[h]]
          /\ ReturnVolume(h, uuid[h], sizeGB[uuid[h]] * giB)
       \/ /\ uuid[h] \in storages /\ want[h] # OutOfRange
          /\ SizeGB(want[h]) > sizeGB[uuid[h]]
          /\ Continue(h, "modify")
       \/ /\ uuid[h] \notin storages \/ want[h] = OutOfRange
          /\ ReturnError(h)
    /\ UNCHANGED <<cloud, side>>

\* ResizeBlockDevice: ModifyStorage.
ResizeBlockDevice(h) ==
    /\ pc[h] = "modify"
    /\ Live(h)
    /\ Modify(uuid[h], SizeGB(want[h]))
    /\ Then(h, "modifyWait")
    /\ UNCHANGED side

DeleteVolume(h, n) ==
    /\ bound[n] # NoStorage
    /\ Call(h, "delete", n, bound[n], "delete")
    /\ UNCHANGED want

\* DeleteBlockStorage: the API refuses what is attached; 404 is success.
DeleteBlockStorage(h) ==
    /\ pc[h] = "delete"
    /\ Live(h)
    /\ uuid[h] \notin attached
    /\ storages' = storages \ {uuid[h]}
    /\ \/ /\ Return(h)
          /\ bound' = [bound EXCEPT ![name[h]] = NoStorage]
          /\ UNCHANGED <<granted, troubled>>
       \/ ReturnFault(h)
    /\ UNCHANGED <<used, title, sizeGB, state, side>>

-----------------------------------------------------------------------------

\* The last of the waits of an RPC, when its result is the response.
LastWait(h) ==
    \/ pc[h] \in {"createWait", "finalWait", "modifyWait"}
    \/ pc[h] = (IF StorageLabels THEN "labelWait" ELSE "cloneWait")
       /\ SizeGB(want[h]) <= sizeGB[uuid[h]]

\* waitForStorageOnline (and RequireBlockStorageOnline of the source).  The
\* answer to CreateVolume has the requested bytes, the one to an expand the
\* size in GiB.
WaitForStorageOnline(h) ==
    /\ pc[h] \in Waiting
    /\ Live(h)
    /\ uuid[h] \in storages
    /\ state[uuid[h]] = "online"
    /\ IF LastWait(h)
       THEN ReturnVolume(h, uuid[h],
                         IF op[h] = "create" THEN want[h] ELSE SizeGB(want[h]) * giB)
       ELSE Continue(h, CASE pc[h] = "sourceWait" -> "clone"
                          [] pc[h] = "cloneWait"  -> IF StorageLabels THEN "label" ELSE "resize"
                          [] pc[h] = "labelWait"  -> "resize"
                          [] pc[h] = "resizeWait" -> "resizeFs")
    /\ UNCHANGED <<cloud, side>>

\* A request fails or is refused, or a wait times out.
ApiError(h) ==
    /\ pc[h] \notin {"idle", "details"}
    /\ ReturnFault(h)
    /\ UNCHANGED <<cloud, side>>

\* The context ends while CreateStorage or CloneStorage is on its way.
Abandon(h) ==
    /\ pc[h] \in {"create", "clone"}
    /\ Live(h)
    /\ wire' = wire \union {name[h]}
    /\ disturbed' = disturbed \union {name[h]}
    /\ ReturnFault(h)
    /\ UNCHANGED <<cloud, attached, backups, req>>

\* The sidecar's deadline passes.
Cancel(h) ==
    /\ Live(h)
    /\ awaited' = awaited \ {h}
    /\ UNCHANGED <<pc, op, name, uuid, want, cloud, side, known, troubled>>

\* The controller pod is restarted.
Crash ==
    /\ \E h \in Handlers : pc[h] # "idle"
    /\ pc' = [h \in Handlers |-> "idle"]
    /\ op' = [h \in Handlers |-> "none"]
    /\ name' = [h \in Handlers |-> NoName]
    /\ uuid' = [h \in Handlers |-> NoStorage]
    /\ want' = [h \in Handlers |-> 0]
    /\ awaited' = {}
    /\ troubled' = Handlers
    /\ UNCHANGED <<cloud, side, known>>

-----------------------------------------------------------------------------
(***************************************************************************)
(* The environment (external).                                             *)
(***************************************************************************)

StorageSettles(u) ==
    /\ state[u] = "maintenance"
    /\ state' = [state EXCEPT ![u] = "online"]
    /\ UNCHANGED <<pc, request, uuid, want, storages, used, title, sizeGB, side,
                   known, troubled>>

\* An abandoned request reaches the API, or is lost.
Lands(n) ==
    /\ n \in wire
    /\ wire' = wire \ {n}
    /\ \/ \E u \in Storages :
            IF req[n].clone
            THEN Source \in storages /\ NewStorage(u, n, sizeGB[Source])
            ELSE NewStorage(u, n, SizeGB(RequestedBytes(n)))
       \/ UNCHANGED cloud
    /\ UNCHANGED <<pc, request, uuid, want, attached, backups, req, known,
                   disturbed, troubled>>

\* ControllerPublishVolume and ControllerUnpublishVolume of bound volumes.
AttachmentChanges(u) ==
    /\ u \in storages
    /\ \/ /\ \E n \in Names : bound[n] = u
          /\ u \notin attached
          /\ attached' = attached \union {u}
       \/ /\ u \in attached
          /\ attached' = attached \ {u}
    /\ UNCHANGED <<pc, request, uuid, want, cloud, wire, backups, req, known,
                   disturbed, troubled>>

\* Somebody deletes a storage in the control panel.
StorageDeleted(u) ==
    /\ u \in storages \ attached
    /\ storages' = storages \ {u}
    /\ UNCHANGED <<pc, request, uuid, want, used, title, sizeGB, state, side,
                   known, troubled>>

-----------------------------------------------------------------------------

Calls(h) == \E n \in Names :
               \/ CreateVolume(h, n)
               \/ DeleteVolume(h, n)
               \/ \E r \in ExpandRanges : ControllerExpandVolume(h, n, r)

CreateStep(h) == \/ GetBlockStorageByName(h) \/ CreateVolumeExistsResponse(h)
                 \/ CreateBlockStorage(h) \/ DetailsFail(h)

CloneStep(h) == \/ FindSource(h) \/ CloneBlockStorage(h) \/ LabelClone(h)
                \/ ResizeClone(h) \/ ResizeStorageFilesystem(h) \/ DeleteResizeBackup(h)

Step(h) == \/ CreateStep(h) \/ CloneStep(h) \/ ExpandBlockStorage(h)
           \/ ResizeBlockDevice(h) \/ DeleteBlockStorage(h)
           \/ WaitForStorageOnline(h) \/ ApiError(h) \/ Abandon(h) \/ Cancel(h)

Environment == \/ \E u \in Storages : \/ StorageSettles(u) \/ AttachmentChanges(u)
                                      \/ StorageDeleted(u)
               \/ \E n \in Names : Lands(n)
               \/ Crash

Next == (\E h \in Handlers : Calls(h) \/ Step(h)) \/ Environment

Spec == Init /\ [][Next]_vars

-----------------------------------------------------------------------------
(***************************************************************************)
(* Properties.                                                             *)
(***************************************************************************)

\* CreateVolume looks for the name and creates in two requests, with no lock:
\* still a name has one volume, with retries overlapping the calls they
\* replace and restarts in between, unless a create was abandoned on the wire.
OneVolumePerName ==
    \A n \in Names \ disturbed : Cardinality(Titled(n)) <= 1

\* Even when a create that was abandoned has produced a second volume of the
\* name, CreateVolume never answers with another volume than before while that
\* one exists: it fails instead.
BindingIsStable ==
    [][\A n \in Names : bound[n] \in storages /\ bound'[n] # bound[n]
                        => bound'[n] = NoStorage /\ bound[n] \notin storages']_vars

\* The CapacityBytes of the last CreateVolume or ControllerExpandVolume answer
\* about a volume is what the volume has, up to the part of a GiB by which
\* CreateVolume rounds down; a clone is not reported with the size it was
\* still to be resized to.
CapacityIsReal ==
    \A u \in storages : granted[u] < (sizeGB[u] + 1) * giB

\* A CreateVolume that itself meets no fault leaves its name with a volume,
\* whatever failures, timeouts and restarts left behind, when nothing was
\* abandoned on the wire and the request is for a new volume of whole GiB
\* within the limits.
CreateRecovers ==
    [][\A h \in awaited :
          /\ op[h] = "create" /\ pc'[h] = "idle"
          /\ h \notin troubled' /\ name[h] \notin disturbed'
          /\ ~ req[name[h]].clone
          /\ RequestedBytes(name[h]) >= minBytes
          /\ RequestedBytes(name[h]) % giB = 0
          => bound'[name[h]] # NoStorage]_vars

=============================================================================
