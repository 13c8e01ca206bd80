---------------------------- MODULE VolumeAttach ----------------------------
(***************************************************************************)
(* Attaching and detaching block storage: ControllerPublishVolume and      *)
(* ControllerUnpublishVolume (internal/controller) on top of               *)
(* AttachBlockStorage and DetachBlockStorage (internal/service).           *)
(*                                                                         *)
(* gRPC runs every call in a goroutine of its own, so calls interleave at  *)
(* each UpCloud API request and at the mutex the service keeps per server. *)
(* A handler is one such goroutine; pc says which request it makes next.   *)
(* The UpCloud API is external: it puts a server into maintenance while it *)
(* attaches or detaches a device and refuses both until it is started      *)
(* again.  A request whose caller has given up (the RPC deadline passed,   *)
(* the connection broke, the process died) may still reach the API later.  *)
(***************************************************************************)
EXTENDS Naturals, FiniteSets

CONSTANTS
    Handlers,           \* goroutines that serve RPCs at the same time
    Volumes,            \* block storage UUIDs
    Servers,            \* server UUIDs; a node's hostname names its server
    Slots,              \* device addresses of a server (virtio:1, ...)
    NoHandler, NoVolume, NoServer, NoRequest,
    MaxVolumesPerNode,  \* config.MaxVolumesPerNode
    RootDisks,          \* devices of a server that are not CSI volumes
    MaxInFlight         \* bound: abandoned requests on the wire at a time

ASSUME AttachAssumption ==
    /\ NoHandler \notin Handlers
    /\ NoVolume \notin Volumes
    /\ NoServer \notin Servers
    /\ MaxVolumesPerNode \in Nat
    /\ RootDisks \in Nat
    /\ MaxInFlight \in Nat
    /\ IsFiniteSet(Slots)

\* A request on the wire: attach names the volume, detach only the address.
Requests ==
    [kind : {"attach"}, srv : Servers, vol : Volumes]
        \union [kind : {"detach"}, srv : Servers, slot : Slots]

ASSUME NoRequestAssumption == NoRequest \notin Requests

VARIABLES
    \* the plugin process
    pc,         \* the next step of each handler, "idle" when it serves no RPC
    op,         \* the RPC it serves
    vol,        \* the VolumeId of the request
    srv,        \* the server it works on
    awaited,    \* handlers whose RPC context is not cancelled
    dev,        \* sd.StorageDevices as the handler read it
    uuids,      \* volume.ServerUUIDs as read; for unpublishAll, those left
    holder,     \* nodeSync: who holds the mutex of each server
    \* the UpCloud API
    servers,    \* the servers that exist
    volumes,    \* the storages that exist
    state,      \* the state of each server
    devices,    \* the volume at each address of each server
    wire,       \* abandoned requests the API may still receive
    \* observation: what the container orchestrator knows
    ledger,     \* the last unambiguous answer for each volume and server
    clean,      \* awaited handlers no contrary awaited RPC has overlapped
    disturbed   \* servers for which some request was abandoned

request == <<op, vol, awaited, clean>>
reads   == <<dev, uuids>>
cloud   == <<servers, volumes, state, devices>>
vars    == <<pc, op, vol, srv, awaited, dev, uuids, holder,
             servers, volumes, state, devices, wire, ledger, clean, disturbed>>

SlotMap  == [Slots -> Volumes \union {NoVolume}]
NoDevice == [a \in Slots |-> NoVolume]

OpName == {"none", "publish", "unpublish", "unpublishAll"}

\* Steps that hold the mutex of srv[h].
Locked == {"attachWait", "attachCall", "attachSettle",
           "detachRead", "detachWait", "detachCall", "detachSettle"}

\* Steps whose next thing is a request to the API (or a wait that polls it).
ApiStep == Locked \union {"publishServer", "publishVolume", "publishOnline",
                          "unpublishVolume", "unpublishServer", "allVolume"}

PCName == ApiStep \union {"idle", "lock", "nextServer"}

VolumesOn(s) == {v \in Volumes : \E a \in Slots : devices[s][a] = v}
ServerUUIDs(v) == {s \in Servers : \E a \in Slots : devices[s][a] = v}

TypeOK ==
    /\ pc \in [Handlers -> PCName]
    /\ op \in [Handlers -> OpName]
    /\ vol \in [Handlers -> Volumes \union {NoVolume}]
    /\ srv \in [Handlers -> Servers \union {NoServer}]
    /\ awaited \subseteq Handlers
    /\ dev \in [Handlers -> SlotMap]
    /\ uuids \in [Handlers -> SUBSET Servers]
    /\ holder \in [Servers -> Handlers \union {NoHandler}]
    /\ servers \subseteq Servers
    /\ volumes \subseteq Volumes
    /\ state \in [Servers -> {"started", "maintenance"}]
    /\ devices \in [Servers -> SlotMap]
    /\ wire \in [1 .. MaxInFlight -> Requests \union {NoRequest}]
    /\ ledger \in [Volumes -> [Servers -> {"unknown", "published", "unpublished"}]]
    /\ clean \subseteq awaited
    /\ disturbed \subseteq Servers

Init ==
    /\ pc = [h \in Handlers |-> "idle"]
    /\ op = [h \in Handlers |-> "none"]
    /\ vol = [h \in Handlers |-> NoVolume]
    /\ srv = [h \in Handlers |-> NoServer]
    /\ awaited = {}
    /\ dev = [h \in Handlers |-> NoDevice]
    /\ uuids = [h \in Handlers |-> {}]
    /\ holder = [s \in Servers |-> NoHandler]
    /\ servers = Servers
    /\ volumes = Volumes
    /\ state = [s \in Servers |-> "started"]
    /\ devices = [s \in Servers |-> NoDevice]
    /\ wire = [i \in 1 .. MaxInFlight |-> NoRequest]
    /\ ledger = [v \in Volumes |-> [s \in Servers |-> "unknown"]]
    /\ clean = {}
    /\ disturbed = {}

-----------------------------------------------------------------------------
(***************************************************************************)
(* What the orchestrator learns.  An answer counts when its RPC was still  *)
(* awaited and no RPC that asks for the opposite was awaited at any time   *)
(* while it ran; a new RPC makes an opposite earlier answer unknown.       *)
(***************************************************************************)

\* RPC o on server s asks for the opposite of RPC p on server t.
Opposes(o, s, p, t) ==
    \/ o = "publish" /\ (p = "unpublishAll" \/ (p = "unpublish" /\ t = s))
    \/ p = "publish" /\ (o = "unpublishAll" \/ (o = "unpublish" /\ t = s))

\* g is awaited and asks for the opposite of RPC o on volume v and server s.
Contrary(g, o, v, s) ==
    g \in awaited /\ vol[g] = v /\ Opposes(o, s, op[g], srv[g])

Start(h, o, v, s, first) ==
    /\ pc[h] = "idle"
    /\ pc' = [pc EXCEPT ![h] = first]
    /\ op' = [op EXCEPT ![h] = o]
    /\ vol' = [vol EXCEPT ![h] = v]
    /\ srv' = [srv EXCEPT ![h] = s]
    /\ awaited' = awaited \union {h}
    /\ clean' = {g \in clean : ~ Contrary(g, o, v, s)}
                  \union (IF \E g \in Handlers : Contrary(g, o, v, s) THEN {} ELSE {h})
    /\ UNCHANGED <<reads, holder, cloud, wire, disturbed>>

Unlock(h) == holder' = [s \in Servers |-> IF holder[s] = h THEN NoHandler ELSE holder[s]]

\* The goroutine ends; the deferred mutex.Unlock runs if it holds a mutex.
Return(h) ==
    /\ pc' = [pc EXCEPT ![h] = "idle"]
    /\ op' = [op EXCEPT ![h] = "none"]
    /\ vol' = [vol EXCEPT ![h] = NoVolume]
    /\ srv' = [srv EXCEPT ![h] = NoServer]
    /\ awaited' = awaited \ {h}
    /\ clean' = clean \ {h}
    /\ dev' = [dev EXCEPT ![h] = NoDevice]
    /\ uuids' = [uuids EXCEPT ![h] = {}]
    /\ Unlock(h)

\* Fault: an error path returns without the deferred Unlock.
ReturnErrorKeepsLock(h) ==
    /\ pc' = [pc EXCEPT ![h] = "idle"]
    /\ op' = [op EXCEPT ![h] = "none"]
    /\ vol' = [vol EXCEPT ![h] = NoVolume]
    /\ srv' = [srv EXCEPT ![h] = NoServer]
    /\ awaited' = awaited \ {h}
    /\ clean' = clean \ {h}
    /\ dev' = [dev EXCEPT ![h] = NoDevice]
    /\ uuids' = [uuids EXCEPT ![h] = {}]
    /\ UNCHANGED <<holder, ledger>>

ReturnError(h) == Return(h) /\ UNCHANGED ledger

\* The answer to h is about volume v and server s.
Answers(h, v, s) == vol[h] = v /\ (op[h] = "unpublishAll" \/ srv[h] = s)

ReturnOK(h) ==
    /\ Return(h)
    /\ ledger' = [v \in Volumes |-> [s \in Servers |->
                    IF h \in clean /\ Answers(h, v, s)
                    THEN IF op[h] = "publish" THEN "published" ELSE "unpublished"
                    ELSE ledger[v][s]]]

\* h goes on to step next, having changed nothing but what it remembers.
Goto(h, next) ==
    /\ pc' = [pc EXCEPT ![h] = next]
    /\ UNCHANGED <<request, ledger>>

-----------------------------------------------------------------------------
(***************************************************************************)
(* The UpCloud API (external).                                             *)
(***************************************************************************)

ApiAttach(s, v, a) ==
    /\ s \in servers
    /\ state[s] = "started"
    /\ v \in volumes
    /\ ServerUUIDs(v) = {}
    /\ devices[s][a] = NoVolume
    /\ devices' = [devices EXCEPT ![s] = [@ EXCEPT ![a] = v]]
    /\ state' = [state EXCEPT ![s] = "maintenance"]

ApiDetach(s, a) ==
    /\ s \in servers
    /\ state[s] = "started"
    /\ devices[s][a] # NoVolume
    /\ devices' = [devices EXCEPT ![s] = [@ EXCEPT ![a] = NoVolume]]
    /\ state' = [state EXCEPT ![s] = "maintenance"]

ServerSettles(s) ==
    /\ state[s] = "maintenance"
    /\ state' = [state EXCEPT ![s] = "started"]
    /\ UNCHANGED <<pc, request, srv, reads, holder, servers, volumes, devices,
                   wire, ledger, disturbed>>

ServerDeleted(s) ==
    /\ s \in servers
    /\ servers' = servers \ {s}
    /\ devices' = [devices EXCEPT ![s] = NoDevice]
    /\ UNCHANGED <<pc, request, srv, reads, holder, volumes, state, wire,
                   ledger, disturbed>>

\* Storage is deleted only while it is attached to no server.
VolumeDeleted(v) ==
    /\ v \in volumes
    /\ ServerUUIDs(v) = {}
    /\ volumes' = volumes \ {v}
    /\ UNCHANGED <<pc, request, srv, reads, holder, servers, state, devices,
                   wire, ledger, disturbed>>

\* An abandoned request arrives; nobody reads the answer.
Lands(i) ==
    /\ wire[i] # NoRequest
    /\ wire' = [wire EXCEPT ![i] = NoRequest]
    /\ \/ /\ wire[i].kind = "attach"
          /\ \E a \in Slots : ApiAttach(wire[i].srv, wire[i].vol, a)
       \/ /\ wire[i].kind = "detach"
          /\ ApiDetach(wire[i].srv, wire[i].slot)
       \/ UNCHANGED <<state, devices>>
    /\ UNCHANGED <<pc, request, srv, reads, holder, servers, volumes,
                   ledger, disturbed>>

-----------------------------------------------------------------------------
(***************************************************************************)
(* ControllerPublishVolume.                                                *)
(***************************************************************************)

ControllerPublishVolume(h, v, s) ==
    /\ Start(h, "publish", v, s, "publishServer")
    /\ ledger' = [ledger EXCEPT ![v][s] = IF @ = "unpublished" THEN "unknown" ELSE @]

\* findPublishTarget: GetServerByHostname, whose device list is kept.
FindPublishServer(h) ==
    /\ pc[h] = "publishServer"
    /\ h \in awaited
    /\ \/ /\ srv[h] \in servers
          /\ dev' = [dev EXCEPT ![h] = devices[srv[h]]]
          /\ Goto(h, "publishVolume")
          /\ UNCHANGED <<srv, uuids, holder>>
       \/ /\ srv[h] \notin servers
          /\ ReturnError(h)
    /\ UNCHANGED <<cloud, wire, disturbed>>

\* findPublishTarget: GetBlockStorageByUUID.
FindPublishVolume(h) ==
    /\ pc[h] = "publishVolume"
    /\ h \in awaited
    /\ \/ /\ vol[h] \in volumes
          /\ uuids' = [uuids EXCEPT ![h] = ServerUUIDs(vol[h])]
          /\ Goto(h, "publishOnline")
          /\ UNCHANGED <<srv, dev, holder>>
       \/ /\ vol[h] \notin volumes
          /\ ReturnError(h)
    /\ UNCHANGED <<cloud, wire, disturbed>>

DeviceCount(d) == RootDisks + Cardinality({a \in Slots : d[a] # NoVolume})

\* attachVolumeToServer up to the call of AttachBlockStorage, once
\* RequireBlockStorageOnline has returned: it decides on what was read before.
AttachVolumeToServer(h) ==
    /\ pc[h] = "publishOnline"
    /\ \/ /\ srv[h] \in uuids[h]
          /\ ReturnOK(h)
       \/ /\ srv[h] \notin uuids[h]
          /\ uuids[h] # {} \/ DeviceCount(dev[h]) > MaxVolumesPerNode
          /\ ReturnError(h)
       \/ /\ uuids[h] = {}
          /\ DeviceCount(dev[h]) <= MaxVolumesPerNode
          /\ dev' = [dev EXCEPT ![h] = NoDevice]   \* not used again
          /\ Goto(h, "lock")
          /\ UNCHANGED <<srv, uuids, holder>>
    /\ UNCHANGED <<cloud, wire, disturbed>>

\* Fault: every call makes a mutex of its own (Store in place of LoadOrStore).
LockOwnMutex(h) ==
    /\ pc[h] = "lock"
    /\ holder' = [holder EXCEPT ![srv[h]] = h]
    /\ Goto(h, IF op[h] = "publish" THEN "attachWait" ELSE "detachRead")
    /\ UNCHANGED <<srv, reads, cloud, wire, disturbed>>

\* mutex.Lock of AttachBlockStorage and DetachBlockStorage: it blocks
\* whether or not the context is still live.
LockServer(h) ==
    /\ pc[h] = "lock"
    /\ holder[srv[h]] = NoHandler
    /\ holder' = [holder EXCEPT ![srv[h]] = h]
    /\ Goto(h, IF op[h] = "publish" THEN "attachWait" ELSE "detachRead")
    /\ UNCHANGED <<srv, reads, cloud, wire, disturbed>>

\* waitForServerOnline returned without an error.
ServerOnline(h) == h \in awaited /\ srv[h] \in servers /\ state[srv[h]] = "started"

\* Fault: the attach does not wait for the server to be online.
AttachNoWait(h) ==
    /\ pc[h] = "attachWait"
    /\ h \in awaited
    /\ Goto(h, "attachCall")
    /\ UNCHANGED <<srv, reads, holder, cloud, wire, disturbed>>

AttachWait(h) ==
    /\ pc[h] = "attachWait"
    /\ ServerOnline(h)
    /\ Goto(h, "attachCall")
    /\ UNCHANGED <<srv, reads, holder, cloud, wire, disturbed>>

\* Fault: the request is made with context.Background().
AttachCallBackground(h) ==
    /\ pc[h] = "attachCall"
    /\ \E a \in Slots : ApiAttach(srv[h], vol[h], a)
    /\ Goto(h, "attachSettle")
    /\ UNCHANGED <<srv, reads, holder, servers, volumes, wire, disturbed>>

\* Fault: a refusal of the API counts as success.
AttachCallRefusedIsOK(h) ==
    /\ pc[h] = "attachCall"
    /\ h \in awaited
    /\ \/ /\ \E a \in Slots : ApiAttach(srv[h], vol[h], a)
          /\ Goto(h, "attachSettle")
          /\ UNCHANGED <<srv, reads, holder>>
       \/ /\ vol[h] \notin volumes
          /\ ReturnOK(h)
          /\ UNCHANGED <<state, devices>>
    /\ UNCHANGED <<servers, volumes, wire, disturbed>>

\* AttachStorage is answered; its answer lists the new device.
AttachCall(h) ==
    /\ pc[h] = "attachCall"
    /\ h \in awaited
    /\ \E a \in Slots : ApiAttach(srv[h], vol[h], a)
    /\ Goto(h, "attachSettle")
    /\ UNCHANGED <<srv, reads, holder, servers, volumes, wire, disturbed>>

AttachSettle(h) ==
    /\ pc[h] = "attachSettle"
    /\ ServerOnline(h)
    /\ ReturnOK(h)
    /\ UNCHANGED <<cloud, wire, disturbed>>

-----------------------------------------------------------------------------
(***************************************************************************)
(* ControllerUnpublishVolume, for one node and, with an empty node ID, for *)
(* every node the volume is attached to.                                   *)
(***************************************************************************)

ControllerUnpublishVolume(h, v, s) ==
    /\ Start(h, "unpublish", v, s, "unpublishVolume")
    /\ ledger' = [ledger EXCEPT ![v][s] = IF @ = "published" THEN "unknown" ELSE @]

ControllerUnpublishVolumeAll(h, v) ==
    /\ Start(h, "unpublishAll", v, NoServer, "allVolume")
    /\ ledger' = [ledger EXCEPT ![v] = [s \in Servers |->
                    IF @[s] = "published" THEN "unknown" ELSE @[s]]]

\* Fault: every error counts as "not found".
FindUnpublishVolumeAnyError(h) ==
    /\ pc[h] = "unpublishVolume"
    /\ h \in awaited
    /\ \/ /\ vol[h] \in volumes
          /\ Goto(h, "unpublishServer")
          /\ UNCHANGED <<srv, reads, holder>>
       \/ ReturnOK(h)
    /\ UNCHANGED <<cloud, wire, disturbed>>

\* detachVolumeFromNode: GetBlockStorageByUUID, "not found" is success.
FindUnpublishVolume(h) ==
    /\ pc[h] = "unpublishVolume"
    /\ h \in awaited
    /\ \/ /\ vol[h] \in volumes
          /\ Goto(h, "unpublishServer")
          /\ UNCHANGED <<srv, reads, holder>>
       \/ /\ vol[h] \notin volumes
          /\ ReturnOK(h)
    /\ UNCHANGED <<cloud, wire, disturbed>>

\* detachVolumeFromNode: GetServerByHostname, "not found" is success.
FindUnpublishServer(h) ==
    /\ pc[h] = "unpublishServer"
    /\ h \in awaited
    /\ \/ /\ srv[h] \in servers
          /\ Goto(h, "lock")
          /\ UNCHANGED <<srv, reads, holder>>
       \/ /\ srv[h] \notin servers
          /\ ReturnOK(h)
    /\ UNCHANGED <<cloud, wire, disturbed>>

\* unpublishVolumeFromAllNodes: the list of servers is read once.
FindAllServers(h) ==
    /\ pc[h] = "allVolume"
    /\ h \in awaited
    /\ \/ /\ vol[h] \in volumes
          /\ uuids' = [uuids EXCEPT ![h] = ServerUUIDs(vol[h])]
          /\ Goto(h, "nextServer")
          /\ UNCHANGED <<srv, dev, holder>>
       \/ /\ vol[h] \notin volumes
          /\ ReturnOK(h)
    /\ UNCHANGED <<cloud, wire, disturbed>>

\* Fault: DetachBlockStorage is called with its arguments swapped.
NextServerSwapped(h) ==
    /\ pc[h] = "nextServer"
    /\ \/ /\ uuids[h] = {}
          /\ ReturnOK(h)
       \/ \E s \in uuids[h] :
            /\ srv' = [srv EXCEPT ![h] = vol[h]]
            /\ vol' = [vol EXCEPT ![h] = s]
            /\ pc' = [pc EXCEPT ![h] = "lock"]
            /\ UNCHANGED <<op, awaited, clean, ledger, reads, holder>>
    /\ UNCHANGED <<cloud, wire, disturbed>>

\* The head of the loop of unpublishVolumeFromAllNodes.
NextServer(h) ==
    /\ pc[h] = "nextServer"
    /\ \/ /\ uuids[h] = {}
          /\ ReturnOK(h)
       \/ \E s \in uuids[h] :
            /\ srv' = [srv EXCEPT ![h] = s]
            /\ Goto(h, "lock")
            /\ UNCHANGED <<reads, holder>>
    /\ UNCHANGED <<cloud, wire, disturbed>>

\* DetachBlockStorage has nothing left to do on srv[h]: the RPC succeeds, or
\* the loop over all nodes goes on with the mutex released.
Detached(h) ==
    \/ /\ op[h] = "unpublish"
       /\ ReturnOK(h)
    \/ /\ op[h] = "unpublishAll"
       /\ uuids' = [uuids EXCEPT ![h] = @ \ {srv[h]}]
       /\ dev' = [dev EXCEPT ![h] = NoDevice]
       /\ srv' = [srv EXCEPT ![h] = NoServer]
       /\ Unlock(h)
       /\ Goto(h, "nextServer")

\* DetachBlockStorage: GetServerDetails under the mutex.
DetachRead(h) ==
    /\ pc[h] = "detachRead"
    /\ h \in awaited
    /\ srv[h] \in servers
    /\ dev' = [dev EXCEPT ![h] = devices[srv[h]]]
    /\ Goto(h, IF state[srv[h]] = "started" THEN "detachCall" ELSE "detachWait")
    /\ UNCHANGED <<srv, uuids, holder, cloud, wire, disturbed>>

DetachWait(h) ==
    /\ pc[h] = "detachWait"
    /\ ServerOnline(h)
    /\ Goto(h, "detachCall")
    /\ UNCHANGED <<srv, reads, holder, cloud, wire, disturbed>>

\* The addresses at which the device list read in DetachRead has the volume.
AddressesOf(h) == {a \in Slots : dev[h][a] = vol[h]}

\* The device list does not have the volume: ErrServerStorageNotFound.
DetachNotFound(h) ==
    /\ pc[h] = "detachCall"
    /\ AddressesOf(h) = {}
    /\ Detached(h)
    /\ UNCHANGED <<cloud, wire, disturbed>>

\* DetachStorage is answered; if the answer still lists the volume it fails.
DetachCall(h) ==
    /\ pc[h] = "detachCall"
    /\ h \in awaited
    /\ \E a \in AddressesOf(h) : ApiDetach(srv[h], a)
    /\ \/ /\ \A a \in Slots : devices'[srv[h]][a] # vol[h]
          /\ Goto(h, "detachSettle")
          /\ UNCHANGED <<srv, reads, holder>>
       \/ /\ \E a \in Slots : devices'[srv[h]][a] = vol[h]
          /\ ReturnError(h)
    /\ UNCHANGED <<servers, volumes, wire, disturbed>>

DetachSettle(h) ==
    /\ pc[h] = "detachSettle"
    /\ ServerOnline(h)
    /\ Detached(h)
    /\ UNCHANGED <<cloud, wire, disturbed>>

-----------------------------------------------------------------------------
(***************************************************************************)
(* Failures.                                                               *)
(***************************************************************************)

\* An API request fails without effect, is refused, or a wait times out;
\* with a cancelled context this is all a request can do.
ApiError(h) ==
    /\ pc[h] \in ApiStep
    /\ ReturnError(h)
    /\ UNCHANGED <<cloud, wire, disturbed>>

\* The context ends while AttachStorage or DetachStorage is on its way: the
\* handler returns and unlocks, the API may still execute the request.
Abandon(h) ==
    /\ h \in awaited
    /\ \E i \in 1 .. MaxInFlight :
         /\ wire[i] = NoRequest
         /\ \/ /\ pc[h] = "attachCall"
               /\ wire' = [wire EXCEPT ![i] =
                             [kind |-> "attach", srv |-> srv[h], vol |-> vol[h]]]
            \/ /\ pc[h] = "detachCall"
               /\ \E a \in AddressesOf(h) :
                    wire' = [wire EXCEPT ![i] =
                               [kind |-> "detach", srv |-> srv[h], slot |-> a]]
    /\ disturbed' = disturbed \union {srv[h]}
    /\ ReturnError(h)
    /\ UNCHANGED cloud

\* The RPC deadline of the sidecar passes: the orchestrator stops waiting.
Cancel(h) ==
    /\ pc[h] # "idle"
    /\ h \in awaited
    /\ awaited' = awaited \ {h}
    /\ clean' = clean \ {h}
    /\ UNCHANGED <<pc, op, vol, srv, reads, holder, cloud, wire, ledger,
                   disturbed>>

\* The controller pod dies and starts again: goroutines and mutexes are gone.
Crash ==
    /\ \E h \in Handlers : pc[h] # "idle"
    /\ pc' = [h \in Handlers |-> "idle"]
    /\ op' = [h \in Handlers |-> "none"]
    /\ vol' = [h \in Handlers |-> NoVolume]
    /\ srv' = [h \in Handlers |-> NoServer]
    /\ awaited' = {}
    /\ clean' = {}
    /\ dev' = [h \in Handlers |-> NoDevice]
    /\ uuids' = [h \in Handlers |-> {}]
    /\ holder' = [s \in Servers |-> NoHandler]
    /\ UNCHANGED <<cloud, wire, ledger, disturbed>>

-----------------------------------------------------------------------------

PublishStep(h) == FindPublishServer(h) \/ FindPublishVolume(h) \/ AttachVolumeToServer(h)

UnpublishStep(h) == \/ FindUnpublishVolume(h) \/ FindUnpublishServer(h)
                    \/ FindAllServers(h) \/ NextServer(h)

AttachBlockStorage(h) == AttachWait(h) \/ AttachCall(h) \/ AttachSettle(h)

DetachBlockStorage(h) == \/ DetachRead(h) \/ DetachWait(h) \/ DetachNotFound(h)
                         \/ DetachCall(h) \/ DetachSettle(h)

\* What a goroutine does next, apart from taking the mutex.
Step(h) == \/ PublishStep(h) \/ UnpublishStep(h)
           \/ AttachBlockStorage(h) \/ DetachBlockStorage(h)
           \/ ApiError(h)

Call(h) == \E v \in Volumes :
              \/ \E s \in Servers : \/ ControllerPublishVolume(h, v, s)
                                    \/ ControllerUnpublishVolume(h, v, s)
              \/ ControllerUnpublishVolumeAll(h, v)

Environment == \/ \E s \in Servers : ServerSettles(s) \/ ServerDeleted(s)
               \/ \E v \in Volumes : VolumeDeleted(v)
               \/ \E i \in 1 .. MaxInFlight : Lands(i)
               \/ Crash

Next == \/ \E h \in Handlers : \/ Call(h) \/ Step(h) \/ LockServer(h)
                               \/ Abandon(h) \/ Cancel(h)
        \/ Environment

Spec == Init /\ [][Next]_vars

\* Goroutines run on, every request and wait ends within its timeout, and
\* sync.Mutex hands the lock to a waiter that would otherwise starve.
Fairness == \A h \in Handlers : WF_vars(Step(h)) /\ SF_vars(LockServer(h))

FairSpec == Spec /\ Fairness

-----------------------------------------------------------------------------
(***************************************************************************)
(* Properties.                                                             *)
(***************************************************************************)

\* A volume that ControllerPublishVolume reported as attached to a node stays
\* attached until an unpublish is asked for, whatever the other handlers
\* (cancelled ones included) are doing; the answer is trustworthy unless a
\* request to that server was abandoned on the wire.
PublishedIsAttached ==
    \A v \in Volumes, s \in servers \ disturbed :
        ledger[v][s] = "published" => v \in VolumesOn(s)

\* After a successful ControllerUnpublishVolume the volume is not attached to
\* the node, and no earlier publish that the orchestrator gave up on attaches
\* it again behind its back.
UnpublishedIsDetached ==
    \A v \in Volumes, s \in Servers \ disturbed :
        ledger[v][s] = "unpublished" => v \notin VolumesOn(s)

\* AttachBlockStorage and DetachBlockStorage respect "only one attach or
\* detach can run against a server at a time": whenever a handler is about to
\* issue its request the server is started, also after another handler's wait
\* timed out in mid-maintenance or the process was restarted.
RequestFindsServerStarted ==
    \A h \in Handlers :
        /\ pc[h] \in {"attachCall", "detachCall"}
        /\ srv[h] \in servers \ disturbed
        => state[srv[h]] = "started"

\* DetachBlockStorage detaches by an address it read before it waited for the
\* server: that address still holds the volume when the request goes out.
DetachAddressIsCurrent ==
    \A h \in Handlers :
        /\ pc[h] \in {"detachWait", "detachCall"}
        /\ srv[h] \in servers \ disturbed
        => dev[h] = devices[srv[h]]

\* The handlers, their mutexes and the API together keep the promise of
\* module Attachment: every step, of a cancelled handler or of a late request
\* too, is one that the orchestrator's last reliable answer allows; a request
\* that lands late voids the answers about its own server and no others.
Promise == INSTANCE Attachment
             WITH on <- [s \in Servers |-> VolumesOn(s)], answer <- ledger

KeepsPromise == Promise!Spec

\* Every RPC is answered, that is, every handler is idle again and again: no
\* error path keeps the mutex of a server, and the loop over all nodes ends.
EveryCallReturns == \A h \in Handlers : []<>(pc[h] = "idle")

=============================================================================
