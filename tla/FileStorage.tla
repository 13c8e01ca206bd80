----------------------------- MODULE FileStorage ----------------------------
(***************************************************************************)
(* File storage (NFS): CreateVolume, ControllerExpandVolume and            *)
(* DeleteVolume of type nfs (internal/controller) on top of the file       *)
(* storage calls of internal/service.                                      *)
(*                                                                         *)
(* A file storage is usable after four requests: CreateFileStorage, the    *)
(* wait until it runs, the list of its shares, and the share or its ACL.   *)
(* The address a node mounts is part of the answer to CreateVolume and is  *)
(* never asked for again.  A file storage is found again by its name; what *)
(* is found is answered with at once.  The provisioner (external) has one  *)
(* call per name outstanding, gives up on it and retries.                  *)
(***************************************************************************)
EXTENDS Capacity, FiniteSets

CONSTANTS
    Handlers,       \* goroutines that serve RPCs
    Names,          \* volume names (PVCs)
    Services,       \* UUIDs of file storages, never used twice
    NoName, NoService,
    Zone,           \* the zone the controller is configured with
    NodeZone,       \* the zone of the server it runs on
    Requests,       \* capacity ranges of CreateVolume requests
    ExpandRanges    \* capacity ranges of expand requests

ASSUME FileStorageAssumption ==
    /\ NoName \notin Names
    /\ NoService \notin Services
    /\ Requests \union ExpandRanges \subseteq [required : Int, limit : Int]
    /\ IsFiniteSet(Services)

VARIABLES
    \* the plugin process
    pc,         \* the next API request of each handler
    op,         \* the RPC it serves
    name,       \* the name it is about
    uuid,       \* the file storage it works on
    want,       \* the capacity it is to provide, in bytes
    address,    \* handlers that read an IP address of their file storage
    awaited,    \* handlers whose RPC context is live
    \* the UpCloud API
    services,   \* file storages that exist
    used,       \* UUIDs that were given out
    fsName, sizeGiB,
    running,    \* file storages in the state running
    withIP,     \* file storages that were assigned an IP address
    share,      \* /share-1 of each: it does not exist, or without or with ACL
    wire,       \* names with an abandoned CreateFileStorage request
    \* the provisioner, and what is to be observed
    req,        \* its CreateVolume request for each name, the same every time
    bound,      \* the volume it was last given for each name
    granted,    \* the CapacityBytes it was last given for it
    nfsServer,  \* names whose volume came with the address of an NFS server
    partial,    \* file storages whose first CreateVolume was cut short
    disturbed,  \* names for which a CreateFileStorage was abandoned
    troubled    \* handlers that met a fault or another goroutine

request == <<op, name, awaited>>
cloud   == <<services, used, fsName, sizeGiB, running, withIP, share>>
side    == <<wire, req, disturbed>>
known   == <<bound, granted, nfsServer>>
vars    == <<pc, op, name, uuid, want, address, awaited, services, used, fsName,
             sizeGiB, running, withIP, share, wire, req, bound, granted,
             nfsServer, partial, disturbed, troubled>>

PCName == {"idle", "list", "server", "networks", "create", "createWait", "shares",
           "createShare", "createACL", "lookup", "modify", "modifyWait", "delete"}

TypeOK ==
    /\ pc \in [Handlers -> PCName]
    /\ op \in [Handlers -> {"none", "create", "expand", "delete"}]
    /\ name \in [Handlers -> Names \union {NoName}]
    /\ uuid \in [Handlers -> Services \union {NoService}]
    /\ want \in [Handlers -> Capacities]
    /\ address \subseteq Handlers /\ awaited \subseteq Handlers
    /\ services \subseteq used /\ used \subseteq Services
    /\ fsName \in [Services -> Names \union {NoName}]
    /\ sizeGiB \in [Services -> Sizes]
    /\ running \subseteq services /\ withIP \subseteq services
    /\ share \in [Services -> {"none", "bare", "open"}]
    /\ wire \subseteq Names
    /\ req \in [Names -> Requests]
    /\ bound \in [Names -> Services \union {NoService}]
    /\ granted \in [Names -> Nat]
    /\ nfsServer \subseteq Names
    /\ partial \subseteq Services
    /\ disturbed \subseteq Names
    /\ troubled \subseteq Handlers

Init ==
    /\ pc = [h \in Handlers |-> "idle"]
    /\ op = [h \in Handlers |-> "none"]
    /\ name = [h \in Handlers |-> NoName]
    /\ uuid = [h \in Handlers |-> NoService]
    /\ want = [h \in Handlers |-> 0]
    /\ address = {} /\ awaited = {}
    /\ services = {} /\ used = {}
    /\ fsName = [u \in Services |-> NoName]
    /\ sizeGiB = [u \in Services |-> 0]
    /\ running = {} /\ withIP = {}
    /\ share = [u \in Services |-> "none"]
    /\ wire = {}
    /\ req \in [Names -> Requests]
    /\ bound = [n \in Names |-> NoService]
    /\ granted = [n \in Names |-> 0]
    /\ nfsServer = {} /\ partial = {} /\ disturbed = {} /\ troubled = {}

-----------------------------------------------------------------------------
(***************************************************************************)
(* How a call begins, goes on and ends.                                    *)
(***************************************************************************)

\* An API request is sent only while the context is live.
Live(h) == h \in awaited

\* The provisioner has no other call for the name outstanding.
Call(h, o, n, u, w, first) ==
    /\ pc[h] = "idle"
    /\ \A g \in awaited : name[g] # n
    /\ pc' = [pc EXCEPT ![h] = first]
    /\ op' = [op EXCEPT ![h] = o]
    /\ name' = [name EXCEPT ![h] = n]
    /\ uuid' = [uuid EXCEPT ![h] = u]
    /\ want' = [want EXCEPT ![h] = w]
    /\ awaited' = awaited \union {h}
    /\ troubled' = IF \E g \in Handlers : name[g] = n
                   THEN troubled \union {h} ELSE troubled \ {h}
    /\ UNCHANGED <<address, cloud, side, known, partial>>

Return(h) ==
    /\ pc' = [pc EXCEPT ![h] = "idle"]
    /\ op' = [op EXCEPT ![h] = "none"]
    /\ name' = [name EXCEPT ![h] = NoName]
    /\ uuid' = [uuid EXCEPT ![h] = NoService]
    /\ want' = [want EXCEPT ![h] = 0]
    /\ address' = address \ {h}
    /\ awaited' = awaited \ {h}

ReturnError(h) == Return(h) /\ UNCHANGED <<known, partial, troubled>>

\* The file storages that calls of the handlers H leave behind half made.
Unfinished(H) == {uuid[h] : h \in {g \in H : op[g] = "create"}} \ {NoService}

\* The call fails after it made the file storages U, if any.
Fail(h, U) ==
    /\ Return(h)
    /\ partial' = partial \union U
    /\ troubled' = troubled \union {h}
    /\ UNCHANGED known

ReturnFault(h) == Fail(h, Unfinished({h}))

\* A response for file storage u, with an nfsServer or an empty one; the
\* provisioner reads it if it still waits for it.
ReturnVolume(h, u, bytes, addressed) ==
    /\ Return(h)
    /\ bound' = IF Live(h) THEN [bound EXCEPT ![name[h]] = u] ELSE bound
    /\ granted' = IF Live(h) THEN [granted EXCEPT ![name[h]] = bytes] ELSE granted
    /\ nfsServer' = CASE ~ Live(h) -> nfsServer
                      [] Live(h) /\ addressed -> nfsServer \union {name[h]}
                      [] OTHER -> nfsServer \ {name[h]}
    /\ UNCHANGED <<partial, troubled>>

Goto(h, next, u, w) ==
    /\ pc' = [pc EXCEPT ![h] = next]
    /\ uuid' = [uuid EXCEPT ![h] = u]
    /\ want' = [want EXCEPT ![h] = w]
    /\ UNCHANGED <<request, address, known, partial, troubled>>

Continue(h, next) == Goto(h, next, uuid[h], want[h])

-----------------------------------------------------------------------------
(***************************************************************************)
(* CreateVolume.                                                           *)
(***************************************************************************)

CreateVolume(h, n) == Call(h, "create", n, NoService, 0, "list")

Named(n) == {u \in services : fsName[u] = n}

\* What CreateVolume recognises: every file storage is made in NodeZone.
Found(n) == IF NodeZone = Zone THEN Named(n) ELSE {}

RequestedBytes(n) == ValidateCapacityRange(req[n].required, req[n].limit)

\* createFileStorageExistsResponse: answered whatever the file storage's state,
\* shares and address are.
ExistsResponse(h, u) ==
    IF RequestedBytes(name[h]) # OutOfRange /\ sizeGiB[u] * giB = RequestedBytes(name[h])
    THEN ReturnVolume(h, u, sizeGiB[u] * giB, u \in withIP)
    ELSE ReturnError(h)

\* No file storage has the name: createFileStorageVolume.
CreateNew(h) ==
    IF RequestedBytes(name[h]) = OutOfRange
    THEN ReturnError(h)
    ELSE Goto(h, "server", NoService, RequestedBytes(name[h]))

\* Fault: a file storage that does not run yet is taken for none.
GetFileStoragesRunning(h) ==
    /\ pc[h] = "list"
    /\ Live(h)
    /\ \/ Found(name[h]) \intersect running = {} /\ CreateNew(h)
       \/ \E u \in Found(name[h]) \intersect running : ExistsResponse(h, u)
    /\ UNCHANGED <<cloud, side>>

\* Fault: a size in GiB is compared with one in bytes.
GetFileStoragesComparesGiB(h) ==
    /\ pc[h] = "list"
    /\ Live(h)
    /\ \/ Found(name[h]) = {} /\ CreateNew(h)
       \/ \E u \in Found(name[h]) :
             IF sizeGiB[u] = RequestedBytes(name[h])
             THEN ReturnVolume(h, u, sizeGiB[u] * giB, u \in withIP)
             ELSE ReturnError(h)
    /\ UNCHANGED <<cloud, side>>

\* GetFileStorages, and what follows from the first that matches.
GetFileStorages(h) ==
    /\ pc[h] = "list"
    /\ Live(h)
    /\ \/ Found(name[h]) = {} /\ CreateNew(h)
       \/ \E u \in Found(name[h]) : ExistsResponse(h, u)
    /\ UNCHANGED <<cloud, side>>

\* The node's server, then the list of networks.
DiscoverClusterNetwork(h) ==
    /\ pc[h] \in {"server", "networks"}
    /\ Live(h)
    /\ Continue(h, IF pc[h] = "server" THEN "networks" ELSE "create")
    /\ UNCHANGED <<cloud, side>>

\* The API makes a file storage (external).  Whether it comes with a share at
\* /share-1 the code leaves open.
NewService(u, n, gib) ==
    /\ u \notin used
    /\ gib > 0
    /\ used' = used \union {u}
    /\ services' = services \union {u}
    /\ fsName' = [fsName EXCEPT ![u] = n]
    /\ sizeGiB' = [sizeGiB EXCEPT ![u] = gib]
    /\ \E s \in {"none", "bare"} : share' = [share EXCEPT ![u] = s]
    /\ UNCHANGED <<running, withIP>>

\* Fault: the request is made with context.Background().
CreateFileStorageBackground(h) ==
    /\ pc[h] = "create"
    /\ \E u \in Services :
          /\ NewService(u, name[h], SizeGB(want[h]))
          /\ Goto(h, "createWait", u, want[h])
    /\ UNCHANGED side

\* CreateFileStorage: the first request.  Its answer may be lost.
CreateFileStorage(h) ==
    /\ pc[h] = "create"
    /\ Live(h)
    /\ \E u \in Services :
          /\ NewService(u, name[h], SizeGB(want[h]))
          /\ Goto(h, "createWait", u, want[h]) \/ Fail(h, {u})
    /\ UNCHANGED side

\* waitForFileStorageRunning; the details it ends with are the ones whose IP
\* address is used.
WaitForFileStorageRunning(h) ==
    /\ pc[h] \in {"createWait", "modifyWait"}
    /\ Live(h)
    /\ uuid[h] \in running
    /\ IF pc[h] = "modifyWait"
       THEN ReturnVolume(h, uuid[h], sizeGiB[uuid[h]] * giB, name[h] \in nfsServer)
       ELSE /\ pc' = [pc EXCEPT ![h] = "shares"]
            /\ address' = IF uuid[h] \in withIP THEN address \union {h} ELSE address
            /\ UNCHANGED <<request, uuid, want, known, partial, troubled>>
    /\ UNCHANGED <<cloud, side>>

\* The response, or the error that there is no IP address.
CreateResponse(h) == IF h \in address
                     THEN ReturnVolume(h, uuid[h], want[h], TRUE)
                     ELSE ReturnFault(h)

\* Fault: a share that exists is taken to have its ACL.
GetFileStorageSharesTrusting(h) ==
    /\ pc[h] = "shares"
    /\ Live(h)
    /\ uuid[h] \in services
    /\ IF share[uuid[h]] = "none" THEN Continue(h, "createShare") ELSE CreateResponse(h)
    /\ UNCHANGED <<cloud, side>>

\* CreateFileStorageShareACL: the list of shares.
GetFileStorageShares(h) ==
    /\ pc[h] = "shares"
    /\ Live(h)
    /\ uuid[h] \in services
    /\ Continue(h, IF share[uuid[h]] = "none" THEN "createShare" ELSE "createACL")
    /\ UNCHANGED <<cloud, side>>

\* CreateFileStorageShareACL: a share with the ACL, or the ACL of the share.
CreateFileStorageShareACL(h) ==
    /\ pc[h] \in {"createShare", "createACL"}
    /\ Live(h)
    /\ uuid[h] \in services
    /\ share' = [share EXCEPT ![uuid[h]] = "open"]
    /\ CreateResponse(h) \/ ReturnFault(h)
    /\ UNCHANGED <<services, used, fsName, sizeGiB, running, withIP, side>>

-----------------------------------------------------------------------------
(***************************************************************************)
(* ControllerExpandVolume and DeleteVolume, for a volume that is bound.    *)
(***************************************************************************)

ControllerExpandVolume(h, n, r) ==
    /\ bound[n] # NoService
    /\ Call(h, "expand", n, bound[n], ValidateCapacityRange(r.required, r.limit), "lookup")

\* Fault: the answer is given before the resize.
ExpandFileStorageEarly(h) ==
    /\ pc[h] = "lookup"
    /\ Live(h)
    /\ uuid[h] \in services
    /\ ReturnVolume(h, uuid[h], want[h], name[h] \in nfsServer)
    /\ UNCHANGED <<cloud, side>>

\* lookupVolume, then expandFileStorage up to ModifyFileStorage.
ExpandFileStorage(h) ==
    /\ pc[h] = "lookup"
    /\ Live(h)
    /\ \/ /\ uuid[h] \in services /\ want[h] # OutOfRange
          /\ IF SizeGB(want[h]) <= sizeGiB[uuid[h]]
             THEN ReturnVolume(h, uuid[h], sizeGiB[uuid[h]] * giB, name[h] \in nfsServer)
             ELSE Continue(h, "modify")
       \/ /\ uuid[h] \notin services \/ want[h] = OutOfRange
          /\ ReturnError(h)
    /\ UNCHANGED <<cloud, side>>

\* ModifyFileStorage: the request.  The API (external) never shrinks a file
\* storage.
ModifyFileStorage(h) ==
    /\ pc[h] = "modify"
    /\ Live(h)
    /\ uuid[h] \in services
    /\ SizeGB(want[h]) >= sizeGiB[uuid[h]]
    /\ sizeGiB' = [sizeGiB EXCEPT ![uuid[h]] = SizeGB(want[h])]
    /\ running' = running \ {uuid[h]}
    /\ Continue(h, "modifyWait") \/ ReturnFault(h)
    /\ UNCHANGED <<services, used, fsName, withIP, share, side>>

DeleteVolume(h, n) ==
    /\ bound[n] # NoService
    /\ Call(h, "delete", n, bound[n], 0, "delete")

\* DeleteFileStorage at the API (external).
RemoveService(u) ==
    /\ services' = services \ {u}
    /\ fsName' = [fsName EXCEPT ![u] = NoName]
    /\ sizeGiB' = [sizeGiB EXCEPT ![u] = 0]
    /\ running' = running \ {u} /\ withIP' = withIP \ {u}
    /\ share' = [share EXCEPT ![u] = "none"]
    /\ UNCHANGED used

\* DeleteFileStorage: not found is success.
DeleteFileStorage(h) ==
    /\ pc[h] = "delete"
    /\ Live(h)
    /\ RemoveService(uuid[h])
    /\ \/ /\ Return(h)
          /\ bound' = [bound EXCEPT ![name[h]] = NoService]
          /\ granted' = [granted EXCEPT ![name[h]] = 0]
          /\ nfsServer' = nfsServer \ {name[h]}
          /\ UNCHANGED <<partial, troubled>>
       \/ ReturnFault(h)
    /\ UNCHANGED side

-----------------------------------------------------------------------------
(***************************************************************************)
(* Faults and the environment.                                             *)
(***************************************************************************)

\* A request fails or is refused, or a wait times out.
ApiError(h) ==
    /\ pc[h] # "idle"
    /\ ReturnFault(h)
    /\ UNCHANGED <<cloud, side>>

\* The context ends while CreateFileStorage is on its way.
Abandon(h) ==
    /\ pc[h] = "create"
    /\ Live(h)
    /\ wire' = wire \union {name[h]}
    /\ disturbed' = disturbed \union {name[h]}
    /\ ReturnFault(h)
    /\ UNCHANGED <<cloud, req>>

\* The sidecar's deadline passes.
Cancel(h) ==
    /\ Live(h)
    /\ awaited' = awaited \ {h}
    /\ partial' = partial \union Unfinished({h})
    /\ UNCHANGED <<pc, op, name, uuid, want, address, cloud, side, known, troubled>>

\* The controller pod is restarted.
Crash ==
    /\ \E h \in Handlers : pc[h] # "idle"
    /\ pc' = [h \in Handlers |-> "idle"]
    /\ op' = [h \in Handlers |-> "none"]
    /\ name' = [h \in Handlers |-> NoName]
    /\ uuid' = [h \in Handlers |-> NoService]
    /\ want' = [h \in Handlers |-> 0]
    /\ address' = {} /\ awaited' = {}
    /\ partial' = partial \union Unfinished(Handlers)
    /\ troubled' = Handlers
    /\ UNCHANGED <<cloud, side, known>>

\* An abandoned request reaches the API, or is lost.
Lands(n) ==
    /\ n \in wire
    /\ wire' = wire \ {n}
    /\ \/ \E u \in Services : /\ NewService(u, n, SizeGB(RequestedBytes(n)))
                              /\ partial' = partial \union {u}
       \/ UNCHANGED <<cloud, partial>>
    /\ UNCHANGED <<pc, request, uuid, want, address, req, known, disturbed, troubled>>

\* A file storage starts, or it is assigned its IP address.
ServiceStarts(u) ==
    /\ u \in services
    /\ \/ u \notin running /\ running' = running \union {u} /\ UNCHANGED withIP
       \/ u \notin withIP /\ withIP' = withIP \union {u} /\ UNCHANGED running
    /\ UNCHANGED <<pc, request, uuid, want, address, services, used, fsName,
                   sizeGiB, share, side, known, partial, troubled>>

\* Somebody deletes a file storage in the control panel.
ServiceDeleted(u) ==
    /\ u \in services
    /\ RemoveService(u)
    /\ UNCHANGED <<pc, request, uuid, want, address, side, known, partial, troubled>>

-----------------------------------------------------------------------------

Calls(h) == \E n \in Names : \/ CreateVolume(h, n) \/ DeleteVolume(h, n)
                             \/ \E r \in ExpandRanges : ControllerExpandVolume(h, n, r)

Step(h) == \/ GetFileStorages(h) \/ DiscoverClusterNetwork(h) \/ CreateFileStorage(h)
           \/ WaitForFileStorageRunning(h) \/ GetFileStorageShares(h)
           \/ CreateFileStorageShareACL(h) \/ ExpandFileStorage(h)
           \/ ModifyFileStorage(h) \/ DeleteFileStorage(h)
           \/ ApiError(h) \/ Abandon(h) \/ Cancel(h)

Environment == \/ \E u \in Services : ServiceStarts(u) \/ ServiceDeleted(u)
               \/ \E n \in Names : Lands(n)
               \/ Crash

Next == (\E h \in Handlers : Calls(h) \/ Step(h)) \/ Environment

Spec == Init /\ [][Next]_vars

-----------------------------------------------------------------------------
(***************************************************************************)
(* Properties.                                                             *)
(***************************************************************************)

\* CreateVolume looks for the name and creates in separate requests, with no
\* lock: still a name has one file storage, with retries overlapping the calls
\* they replace and restarts in between, unless a create was abandoned on the
\* wire.  It takes for granted that NodeZone = Zone: the lookup compares with the
\* zone of the configuration, the create uses the zone of the controller's server.
OneFileStoragePerName ==
    \A n \in Names \ disturbed : Cardinality(Named(n)) <= 1

\* The CapacityBytes of the last answer is what the file storage has, up to the
\* part of a GiB by which CreateVolume rounds down, also after an expand that
\* read the size before another one changed it.
CapacityIsReal ==
    \A n \in Names : bound[n] \in services => granted[n] < (sizeGiB[bound[n]] + 1) * giB

\* A volume that was answered with can be mounted: it has the share with its
\* ACL, and the answer named its server, unless the call that made the file
\* storage did not live to give that answer itself.
BoundIsMountable ==
    \A n \in Names : bound[n] \in services \ partial
                     => share[bound[n]] = "open" /\ n \in nfsServer

\* While the volume that was answered for a name exists, CreateVolume answers
\* with no other one (unless a create was abandoned on the wire).
BindingIsStable ==
    [][\A n \in Names \ disturbed :
          bound[n] \in services /\ bound'[n] # bound[n] => bound[n] \notin services']_vars

\* A CreateVolume that itself meets no fault succeeds, whatever earlier
\* attempts left behind, when nothing was abandoned on the wire and the request
\* is for whole GiB within the limits that no expand has changed.
CreateRecovers ==
    [][\A h \in awaited :
          /\ op[h] = "create" /\ pc'[h] = "idle"
          /\ h \notin troubled' /\ name[h] \notin disturbed'
          /\ RequestedBytes(name[h]) >= minBytes
          /\ RequestedBytes(name[h]) % giB = 0
          /\ \A u \in Named(name[h]) : sizeGiB[u] = SizeGB(RequestedBytes(name[h]))
          => bound'[name[h]] # NoService]_vars

\* "The share's ACL is automatically configured to allow all IP addresses
\* read-write access": so it is for every volume that was answered with.
ShareIsOpen ==
    \A n \in Names : bound[n] \in services => share[bound[n]] = "open"

=============================================================================
