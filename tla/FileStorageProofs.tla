-------------------------- MODULE FileStorageProofs -------------------------
(***************************************************************************)
(* The properties of FileStorage, for any number of goroutines, names and  *)
(* file storages, and any capacity.                                        *)
(*                                                                         *)
(* That a name has one file storage rests on the lookup finding it, hence  *)
(* on the controller's server being in the zone the controller is          *)
(* configured with; the other properties do not.  That a volume can be     *)
(* mounted rests on who may have answered with it: while the call that     *)
(* makes a file storage is waited for, no other call for the name is, so   *)
(* nobody is given the volume before that call has its share and address.  *)
(***************************************************************************)
EXTENDS FileStorage, CapacityProofs, FiniteSetTheorems

Making == {"createWait", "shares", "createShare", "createACL"}

\* What a goroutine knows at each point of its RPC.
HandlerKnows ==
    \A h \in Handlers :
        /\ pc[h] = "idle" => name[h] = NoName /\ op[h] = "none" /\ h \notin awaited
        /\ pc[h] # "idle" => name[h] \in Names
        /\ pc[h] \in {"list", "server", "networks", "create"}
           => op[h] = "create" /\ uuid[h] = NoService
        /\ pc[h] \in {"server", "networks", "create"} => want[h] = RequestedBytes(name[h])
        /\ pc[h] \in Making => op[h] = "create" /\ uuid[h] \in used
        /\ pc[h] \in {"lookup", "modify", "modifyWait"}
           => op[h] = "expand" /\ uuid[h] \in used
        /\ pc[h] = "delete" => op[h] = "delete" /\ uuid[h] \in used
        /\ h \in address => pc[h] \in {"shares", "createShare", "createACL"}

\* The provisioner waits for one call per name.
OneCallPerName ==
    \A g, h \in awaited : name[g] = name[h] => g = h

WireIsDisturbed == wire \subseteq disturbed

\* Between the lookup and the create nobody else creates under the name.
StillMissing ==
    NodeZone = Zone =>
        \A h \in awaited :
            pc[h] \in {"server", "networks", "create"} /\ name[h] \notin disturbed
            => \A u \in services : fsName[u] # name[h]

NamedOnce ==
    NodeZone = Zone =>
        \A u, v \in services :
            fsName[u] = fsName[v] /\ fsName[u] \in Names \ disturbed => u = v

\* CreateVolume works on the file storage it made, which has what it asked for
\* as long as it exists.
MakesItsOwn ==
    \A h \in Handlers :
        pc[h] \in Making /\ uuid[h] \in services =>
            /\ fsName[uuid[h]] = name[h]
            /\ SizeGB(want[h]) <= sizeGiB[uuid[h]]
            /\ h \in address => uuid[h] \in withIP

\* UUIDs are not reused: what a name is bound to was made for it, or is gone.
BoundIsItsOwn ==
    \A n \in Names :
        /\ bound[n] # NoService => bound[n] \in used
        /\ bound[n] \in services => fsName[bound[n]] = n

\* ControllerExpandVolume and DeleteVolume are about the volume of the name.
ActsOnBound ==
    \A h \in awaited : op[h] \in {"expand", "delete"} => uuid[h] = bound[name[h]]

\* Nobody was given the file storage that a call is still making.
MadeIsUnbound ==
    \A h \in awaited, n \in Names : pc[h] \in Making => bound[n] # uuid[h]

\* A file storage that no failed call left behind is being made, or is ready.
WholeIsReady ==
    \A u \in services \ partial :
        \/ \E h \in awaited : pc[h] \in Making /\ uuid[h] = u
        \/ share[u] = "open" /\ u \in withIP

IInv == /\ TypeOK
        /\ HandlerKnows
        /\ OneCallPerName
        /\ WireIsDisturbed
        /\ StillMissing
        /\ NamedOnce
        /\ MakesItsOwn
        /\ BoundIsItsOwn
        /\ ActsOnBound
        /\ MadeIsUnbound
        /\ WholeIsReady
        /\ CapacityIsReal
        /\ BoundIsMountable

-----------------------------------------------------------------------------

\* Capacities and sizes are within the maximum.
LEMMA SizesBounded ==
  /\ 0 \in Capacities /\ 0 \in Sizes
  /\ Capacities \subseteq Nat /\ Sizes \subseteq Nat
  /\ \A r \in Requests \union ExpandRanges :
        ValidateCapacityRange(r.required, r.limit) \in Capacities
  /\ \A w \in Capacities : SizeGB(w) \in Sizes
<1>1. ASSUME NEW r \in Requests \union ExpandRanges
      PROVE  ValidateCapacityRange(r.required, r.limit) \in Capacities
  <2>1. r.required \in Int /\ r.limit \in Int
    BY FileStorageAssumption
  <2> QED BY <2>1, CapacityType DEF Capacities
<1>2. ASSUME NEW w \in Capacities PROVE SizeGB(w) \in Sizes
  BY SizeMonotone, SizeDivides, CapacityAssumption DEF Capacities, Sizes
<1>3. SizeGB(maxBytes) \in Nat
  BY CapacityAssumption, SizeDivides
<1> QED BY <1>1, <1>2, <1>3, CapacityAssumption DEF Capacities, Sizes

\* The request of a name asks for a number of bytes.
LEMMA RequestedBounded ==
  ASSUME TypeOK, NEW n \in Names
  PROVE  RequestedBytes(n) \in Capacities
  BY SizesBounded DEF TypeOK, RequestedBytes

\* What a file storage's size in bytes is.
LEMMA BytesOfSize ==
  ASSUME TypeOK, NEW u \in Services
  PROVE  /\ sizeGiB[u] \in Nat
         /\ sizeGiB[u] * giB \in Nat
         /\ sizeGiB[u] * giB < (sizeGiB[u] + 1) * giB
<1>1. sizeGiB[u] \in Nat
  BY SizesBounded DEF TypeOK
<1>2. sizeGiB[u] * giB \in Nat /\ (sizeGiB[u] + 1) * giB = sizeGiB[u] * giB + giB
  BY <1>1, SizeScales
<1> QED BY <1>1, <1>2, CapacityAssumption

\* The state before the first RPC satisfies the invariant.
LEMMA InitIInv == Init => IInv
<1> SUFFICES ASSUME Init PROVE IInv
  OBVIOUS
<1> USE FileStorageAssumption, CapacityAssumption, SizesBounded DEF Init, Making
<1>1. TypeOK
  BY DEF TypeOK, PCName
<1>2. HandlerKnows /\ OneCallPerName /\ WireIsDisturbed /\ StillMissing /\ NamedOnce
  BY DEF HandlerKnows, OneCallPerName, WireIsDisturbed, StillMissing, NamedOnce
<1>3. MakesItsOwn /\ BoundIsItsOwn /\ ActsOnBound /\ MadeIsUnbound /\ WholeIsReady
  BY DEF MakesItsOwn, BoundIsItsOwn, ActsOnBound, MadeIsUnbound, WholeIsReady
<1>4. CapacityIsReal /\ BoundIsMountable
  BY DEF CapacityIsReal, BoundIsMountable
<1> QED BY <1>1, <1>2, <1>3, <1>4 DEF IInv

\* The plugin's and the provisioner's part of TypeOK.
CallsOK ==
    /\ pc \in [Handlers -> PCName]
    /\ op \in [Handlers -> {"none", "create", "expand", "delete"}]
    /\ name \in [Handlers -> Names \union {NoName}]
    /\ uuid \in [Handlers -> Services \union {NoService}]
    /\ want \in [Handlers -> Capacities]
    /\ address \subseteq Handlers /\ awaited \subseteq Handlers
    /\ bound \in [Names -> Services \union {NoService}]
    /\ granted \in [Names -> Nat]
    /\ nfsServer \subseteq Names
    /\ partial \subseteq Services
    /\ troubled \subseteq Handlers

\* However an RPC ends, that part stays well typed.
LEMMA ReturnTypes ==
  ASSUME TypeOK, NEW h \in Handlers, name[h] \in Names,
         \/ \E u \in Services, bytes \in Nat, a \in BOOLEAN : ReturnVolume(h, u, bytes, a)
         \/ ReturnFault(h)
         \/ ReturnError(h)
  PROVE  CallsOK'
<1> 0 \in Capacities
  BY SizesBounded
<1>1. Return(h)
  BY DEF ReturnVolume, ReturnFault, ReturnError, Fail
<1>2. /\ pc' \in [Handlers -> PCName]
      /\ op' \in [Handlers -> {"none", "create", "expand", "delete"}]
      /\ name' \in [Handlers -> Names \union {NoName}]
      /\ uuid' \in [Handlers -> Services \union {NoService}]
      /\ want' \in [Handlers -> Capacities]
      /\ address' \subseteq Handlers /\ awaited' \subseteq Handlers
  BY <1>1 DEF TypeOK, PCName, Return
<1>3. /\ bound' \in [Names -> Services \union {NoService}]
      /\ granted' \in [Names -> Nat]
      /\ nfsServer' \subseteq Names
  BY DEF TypeOK, ReturnVolume, ReturnFault, ReturnError, Fail, known
<1>4. partial' \subseteq Services /\ troubled' \subseteq Handlers
  BY DEF TypeOK, ReturnVolume, ReturnFault, ReturnError, Fail, Unfinished, known
<1> QED BY <1>2, <1>3, <1>4 DEF CallsOK

\* Every step leaves the state well typed.
LEMMA TypeStep == TypeOK /\ HandlerKnows /\ [Next]_vars => TypeOK'
<1> SUFFICES ASSUME TypeOK, HandlerKnows, [Next]_vars PROVE TypeOK'
  OBVIOUS
<1> 0 \in Capacities /\ 0 \in Sizes
  BY SizesBounded
<1> USE DEF TypeOK, PCName
<1> USE DEF request, cloud, side, known
<1>1. ASSUME NEW h \in Handlers, NEW n \in Names, CreateVolume(h, n) \/ DeleteVolume(h, n)
      PROVE  TypeOK'
  BY <1>1 DEF CreateVolume, DeleteVolume, Call
<1>2. ASSUME NEW h \in Handlers, NEW n \in Names, NEW r \in ExpandRanges,
             ControllerExpandVolume(h, n, r)
      PROVE  TypeOK'
  BY <1>2, SizesBounded DEF ControllerExpandVolume, Call
<1>3. ASSUME NEW h \in Handlers, GetFileStorages(h) PROVE TypeOK'
  <2>1. name[h] \in Names /\ RequestedBytes(name[h]) \in Capacities
    BY <1>3, RequestedBounded DEF GetFileStorages, HandlerKnows
  <2>2. \A u \in Services : sizeGiB[u] * giB \in Nat
    BY BytesOfSize
  <2> QED BY <1>3, <2>1, <2>2 DEF GetFileStorages, CreateNew, ExistsResponse, ReturnVolume,
                                  ReturnError, Goto, Return, Found, Named
<1>4. ASSUME NEW h \in Handlers, DiscoverClusterNetwork(h) \/ GetFileStorageShares(h)
      PROVE  TypeOK'
  BY <1>4 DEF DiscoverClusterNetwork, GetFileStorageShares, Continue, Goto
<1>5. ASSUME NEW h \in Handlers, CreateFileStorage(h) PROVE TypeOK'
  <2>1. SizeGB(want[h]) \in Sizes
    BY SizesBounded
  <2> QED BY <1>5, <2>1 DEF CreateFileStorage, NewService, Goto, Fail, Return, HandlerKnows
<1>6. ASSUME NEW h \in Handlers, WaitForFileStorageRunning(h) PROVE TypeOK'
  <2>1. sizeGiB[uuid[h]] * giB \in Nat
    BY <1>6, BytesOfSize DEF WaitForFileStorageRunning
  <2> QED BY <1>6, <2>1 DEF WaitForFileStorageRunning, ReturnVolume, Return, HandlerKnows
<1>7. ASSUME NEW h \in Handlers, CreateFileStorageShareACL(h) PROVE TypeOK'
  <2>1. CallsOK'
    BY <1>7, ReturnTypes, SizesBounded DEF CreateFileStorageShareACL, CreateResponse, HandlerKnows
  <2> QED BY <1>7, <2>1 DEF CreateFileStorageShareACL, CallsOK
<1>8. ASSUME NEW h \in Handlers, ExpandFileStorage(h) PROVE TypeOK'
  <2>1. uuid[h] \in Services => sizeGiB[uuid[h]] * giB \in Nat
    BY BytesOfSize
  <2>2. name[h] \in Names
    BY <1>8 DEF ExpandFileStorage, HandlerKnows
  <2>3. CASE Continue(h, "modify")
    BY <1>8, <2>3 DEF ExpandFileStorage, Continue, Goto
  <2>4. CASE ~ Continue(h, "modify")
    <3>1. CallsOK'
      <4>1. \/ ReturnError(h)
            \/ /\ uuid[h] \in Services
               /\ ReturnVolume(h, uuid[h], sizeGiB[uuid[h]] * giB, name[h] \in nfsServer)
        BY <1>8, <2>4 DEF ExpandFileStorage
      <4>2. CASE ReturnError(h)
        BY <2>2, <4>2, ReturnTypes
      <4>3. CASE /\ uuid[h] \in Services
                 /\ ReturnVolume(h, uuid[h], sizeGiB[uuid[h]] * giB, name[h] \in nfsServer)
        BY <2>1, <2>2, <4>3 DEF ReturnVolume, Return, CallsOK
      <4> QED BY <4>1, <4>2, <4>3
    <3> QED BY <1>8, <3>1 DEF ExpandFileStorage, CallsOK
  <2> QED BY <2>3, <2>4
<1>9. ASSUME NEW h \in Handlers, ModifyFileStorage(h) PROVE TypeOK'
  <2>1. SizeGB(want[h]) \in Sizes
    BY SizesBounded
  <2> QED BY <1>9, <2>1 DEF ModifyFileStorage, Continue, Goto, ReturnFault, Fail, Unfinished,
                            Return
<1>10. ASSUME NEW h \in Handlers, DeleteFileStorage(h) PROVE TypeOK'
  <2>1. CallsOK'
    <3>1. CASE ReturnFault(h)
      BY <1>10, <3>1, ReturnTypes DEF DeleteFileStorage, HandlerKnows
    <3>2. CASE ~ ReturnFault(h)
      BY <1>10, <3>2 DEF DeleteFileStorage, Return, CallsOK
    <3> QED BY <3>1, <3>2
  <2> QED BY <1>10, <2>1 DEF DeleteFileStorage, RemoveService, CallsOK
<1>11. ASSUME NEW h \in Handlers, ApiError(h) \/ Abandon(h) \/ Cancel(h) PROVE TypeOK'
  BY <1>11 DEF ApiError, Abandon, Cancel, ReturnFault, Fail, Unfinished, Return, HandlerKnows
<1>12. ASSUME NEW n \in Names, Lands(n) PROVE TypeOK'
  <2>1. SizeGB(RequestedBytes(n)) \in Sizes
    BY RequestedBounded, SizesBounded
  <2> QED BY <1>12, <2>1 DEF Lands, NewService
<1>13. ASSUME NEW u \in Services, ServiceStarts(u) PROVE TypeOK'
  BY <1>13 DEF ServiceStarts
<1>14. ASSUME NEW u \in Services, ServiceDeleted(u) PROVE TypeOK'
  BY <1>14 DEF ServiceDeleted, RemoveService
<1>15. CASE Crash \/ UNCHANGED vars
  BY <1>15 DEF Crash, Unfinished, vars
<1> QED
  BY <1>1, <1>2, <1>3, <1>4, <1>5, <1>6, <1>7, <1>8, <1>9, <1>10, <1>11, <1>12, <1>13,
     <1>14, <1>15 DEF Next, Calls, Step, Environment

\* The provisioner repeats its request unchanged.
LEMMA RequestsStay ==
  ASSUME [Next]_vars
  PROVE  req' = req /\ \A n \in Names : RequestedBytes(n)' = RequestedBytes(n)
<1>1. ASSUME NEW h \in Handlers, Calls(h) PROVE req' = req
  BY <1>1 DEF Calls, CreateVolume, DeleteVolume, ControllerExpandVolume, Call, side
<1>2. ASSUME NEW h \in Handlers, Step(h) PROVE req' = req
  BY <1>2 DEF Step, GetFileStorages, DiscoverClusterNetwork, CreateFileStorage,
              WaitForFileStorageRunning, GetFileStorageShares, CreateFileStorageShareACL,
              ExpandFileStorage, ModifyFileStorage, DeleteFileStorage, ApiError, Abandon,
              Cancel, side
<1>3. ASSUME Environment PROVE req' = req
  BY <1>3 DEF Environment, ServiceStarts, ServiceDeleted, Lands, Crash, side
<1>4. req' = req
  BY <1>1, <1>2, <1>3 DEF Next, vars
<1> QED BY <1>4 DEF RequestedBytes

\* A call begins: it is the only one for its name that is waited for.
LEMMA CallStep ==
  ASSUME IInv, TypeOK', NEW h \in Handlers, Calls(h), req' = req
  PROVE  IInv'
<1> USE FileStorageAssumption DEF IInv, Making
<1>1. PICK n \in Names, o \in {"create", "expand", "delete"},
            u \in Services \union {NoService}, w \in Capacities,
            first \in {"list", "lookup", "delete"} :
        /\ Call(h, o, n, u, w, first)
        /\ \/ first = "list" /\ o = "create" /\ u = NoService
           \/ first = "lookup" /\ o = "expand" /\ u = bound[n] /\ u # NoService
           \/ first = "delete" /\ o = "delete" /\ u = bound[n] /\ u # NoService
  BY SizesBounded DEF Calls, CreateVolume, DeleteVolume, ControllerExpandVolume, TypeOK
<1> USE <1>1 DEF request, cloud, side, known, Call
<1>2. HandlerKnows'
  BY DEF TypeOK, HandlerKnows, BoundIsItsOwn, RequestedBytes
<1>3. OneCallPerName' /\ WireIsDisturbed'
  BY DEF TypeOK, OneCallPerName, WireIsDisturbed
<1>4. StillMissing' /\ NamedOnce'
  BY DEF TypeOK, HandlerKnows, StillMissing, NamedOnce
<1>5. MakesItsOwn' /\ BoundIsItsOwn' /\ ActsOnBound' /\ MadeIsUnbound'
  BY DEF TypeOK, HandlerKnows, MakesItsOwn, BoundIsItsOwn, ActsOnBound, MadeIsUnbound
<1>6. WholeIsReady' /\ CapacityIsReal' /\ BoundIsMountable'
  BY DEF TypeOK, HandlerKnows, WholeIsReady, CapacityIsReal, BoundIsMountable
<1> QED BY <1>2, <1>3, <1>4, <1>5, <1>6

\* The lookup ends in an answer, or it found nothing and goes on.
LEMMA ListStep ==
  ASSUME IInv, TypeOK', NEW h \in Handlers, GetFileStorages(h), req' = req
  PROVE  IInv'
<1> USE FileStorageAssumption DEF IInv, Making, request, cloud, side, known
<1>1. /\ pc[h] = "list" /\ h \in awaited /\ name[h] \in Names
      /\ uuid[h] = NoService /\ op[h] = "create" /\ h \notin address
  BY DEF GetFileStorages, Live, HandlerKnows
<1>2. CASE Found(name[h]) = {} /\ Goto(h, "server", NoService, RequestedBytes(name[h]))
  <2> USE <1>1, <1>2 DEF Goto, GetFileStorages
  <2>1. HandlerKnows'
    BY DEF TypeOK, HandlerKnows, RequestedBytes
  <2>2. OneCallPerName' /\ WireIsDisturbed' /\ NamedOnce'
    BY DEF TypeOK, OneCallPerName, WireIsDisturbed, NamedOnce
  <2>3. StillMissing'
    BY DEF TypeOK, StillMissing, Found, Named
  <2>4. MakesItsOwn' /\ BoundIsItsOwn' /\ ActsOnBound' /\ MadeIsUnbound'
    BY DEF TypeOK, MakesItsOwn, BoundIsItsOwn, ActsOnBound, MadeIsUnbound
  <2>5. WholeIsReady' /\ CapacityIsReal' /\ BoundIsMountable'
    BY DEF TypeOK, WholeIsReady, CapacityIsReal, BoundIsMountable
  <2> QED BY <2>1, <2>2, <2>3, <2>4, <2>5
<1>3. CASE ReturnError(h)
  <2> USE <1>1, <1>3 DEF ReturnError, Return, GetFileStorages
  <2>1. HandlerKnows'
    BY DEF TypeOK, HandlerKnows, RequestedBytes
  <2>2. OneCallPerName' /\ WireIsDisturbed' /\ NamedOnce' /\ StillMissing'
    BY DEF TypeOK, OneCallPerName, WireIsDisturbed, NamedOnce, StillMissing
  <2>3. MakesItsOwn' /\ BoundIsItsOwn' /\ ActsOnBound' /\ MadeIsUnbound'
    BY DEF TypeOK, MakesItsOwn, BoundIsItsOwn, ActsOnBound, MadeIsUnbound
  <2>4. WholeIsReady' /\ CapacityIsReal' /\ BoundIsMountable'
    BY DEF TypeOK, WholeIsReady, CapacityIsReal, BoundIsMountable
  <2> QED BY <2>1, <2>2, <2>3, <2>4
<1>4. ASSUME NEW u \in Found(name[h]), ReturnVolume(h, u, sizeGiB[u] * giB, u \in withIP)
      PROVE  IInv'
  <2>1. u \in services /\ fsName[u] = name[h] /\ u \in Services /\ u # NoService
    BY DEF Found, Named, TypeOK
  <2> USE <1>1, <1>4, <2>1 DEF ReturnVolume, Return, GetFileStorages, Live
  <2>2. HandlerKnows'
    BY DEF TypeOK, HandlerKnows, RequestedBytes
  <2>3. OneCallPerName' /\ WireIsDisturbed' /\ NamedOnce' /\ StillMissing'
    BY DEF TypeOK, OneCallPerName, WireIsDisturbed, NamedOnce, StillMissing
  <2>4. MakesItsOwn' /\ BoundIsItsOwn' /\ ActsOnBound'
    BY DEF TypeOK, MakesItsOwn, BoundIsItsOwn, ActsOnBound, OneCallPerName, HandlerKnows
  \* A call that is making u has the same name, so it is not waited for.
  <2>5. \A g \in awaited : ~ (pc[g] \in Making /\ uuid[g] = u)
    BY DEF TypeOK, MakesItsOwn, OneCallPerName
  <2>6. MadeIsUnbound'
    BY <2>5 DEF TypeOK, MadeIsUnbound
  <2>7. WholeIsReady'
    BY DEF TypeOK, WholeIsReady
  <2>8. BoundIsMountable'
    BY <2>5 DEF TypeOK, WholeIsReady, BoundIsMountable
  <2>9. CapacityIsReal'
    <3>1. sizeGiB[u] * giB < (sizeGiB[u] + 1) * giB
      BY BytesOfSize
    <3>2. /\ bound' = [bound EXCEPT ![name[h]] = u]
          /\ granted' = [granted EXCEPT ![name[h]] = sizeGiB[u] * giB]
          /\ sizeGiB' = sizeGiB /\ services' = services
      OBVIOUS
    <3> HIDE <1>4
    <3> QED BY <1>1, <3>1, <3>2 DEF TypeOK, CapacityIsReal
  <2> QED BY <2>2, <2>3, <2>4, <2>6, <2>7, <2>8, <2>9
<1> QED BY <1>2, <1>3, <1>4 DEF GetFileStorages, CreateNew, ExistsResponse

\* Steps that only move a call on.
LEMMA MoveStep ==
  ASSUME IInv, TypeOK', NEW h \in Handlers, req' = req,
         DiscoverClusterNetwork(h) \/ GetFileStorageShares(h)
  PROVE  IInv'
<1> USE FileStorageAssumption DEF IInv, Making, request, cloud, side, known
<1>1. h \in awaited /\ name[h] \in Names
  BY DEF DiscoverClusterNetwork, GetFileStorageShares, Live, HandlerKnows
<1>2. \/ /\ pc[h] \in {"server", "networks"}
         /\ pc'[h] \in {"networks", "create"}
      \/ pc[h] = "shares" /\ pc'[h] \in {"createShare", "createACL"}
  BY DEF DiscoverClusterNetwork, GetFileStorageShares, Continue, Goto, TypeOK
<1>3. /\ pc' = [pc EXCEPT ![h] = pc'[h]]
      /\ uuid' = uuid /\ want' = want
      /\ UNCHANGED <<request, address, known, partial, troubled, cloud, side>>
  BY DEF DiscoverClusterNetwork, GetFileStorageShares, Continue, Goto, TypeOK
<1> USE <1>1, <1>2, <1>3
<1>4. HandlerKnows'
  BY DEF TypeOK, HandlerKnows, RequestedBytes
<1>5. OneCallPerName' /\ WireIsDisturbed' /\ NamedOnce' /\ StillMissing'
  BY DEF TypeOK, OneCallPerName, WireIsDisturbed, NamedOnce, StillMissing
<1>6. MakesItsOwn' /\ BoundIsItsOwn' /\ ActsOnBound' /\ MadeIsUnbound'
  BY DEF TypeOK, MakesItsOwn, BoundIsItsOwn, ActsOnBound, MadeIsUnbound
<1>7. WholeIsReady' /\ CapacityIsReal' /\ BoundIsMountable'
  BY DEF TypeOK, WholeIsReady, CapacityIsReal, BoundIsMountable
<1> QED BY <1>4, <1>5, <1>6, <1>7

\* The file storage is the first of its name, and nobody else is about to make
\* one; if the answer is lost, it counts as left behind.
LEMMA CreateStep ==
  ASSUME IInv, TypeOK', NEW h \in Handlers, CreateFileStorage(h), req' = req
  PROVE  IInv'
<1> USE FileStorageAssumption DEF IInv, Making, request, cloud, side, known
<1>1. /\ pc[h] = "create" /\ h \in awaited /\ name[h] \in Names /\ uuid[h] = NoService
      /\ op[h] = "create" /\ h \notin address
  BY DEF CreateFileStorage, Live, HandlerKnows
<1>2. PICK u \in Services :
        /\ NewService(u, name[h], SizeGB(want[h]))
        /\ Goto(h, "createWait", u, want[h]) \/ Fail(h, {u})
  BY DEF CreateFileStorage
<1>3. /\ \A n \in Names : bound[n] # u
      /\ \A g \in Handlers : pc[g] \in Making => uuid[g] # u
      /\ u \notin services
  BY <1>2 DEF TypeOK, BoundIsItsOwn, HandlerKnows, NewService
<1>4. SizeGB(want[h]) \in Nat
  BY SizesBounded DEF TypeOK
<1> USE <1>1, <1>2, <1>3, <1>4 DEF CreateFileStorage, NewService, Goto, Fail, Return
<1>5. HandlerKnows'
  BY DEF TypeOK, HandlerKnows, RequestedBytes
<1>6. OneCallPerName' /\ WireIsDisturbed'
  BY DEF TypeOK, OneCallPerName, WireIsDisturbed
<1>7. NamedOnce'
  BY DEF TypeOK, NamedOnce, StillMissing
<1>8. StillMissing'
  BY DEF TypeOK, StillMissing, OneCallPerName
<1>9. MakesItsOwn'
  BY DEF TypeOK, MakesItsOwn
<1>10. BoundIsItsOwn' /\ ActsOnBound' /\ MadeIsUnbound'
  BY DEF TypeOK, BoundIsItsOwn, ActsOnBound, MadeIsUnbound
<1>11. WholeIsReady'
  BY DEF TypeOK, WholeIsReady
<1>12. CapacityIsReal' /\ BoundIsMountable'
  BY DEF TypeOK, CapacityIsReal, BoundIsMountable
<1> QED BY <1>5, <1>6, <1>7, <1>8, <1>9, <1>10, <1>11, <1>12

\* An expand that ends, with the size that the file storage has; the address
\* stays known if it was.
LEMMA ExpandedStep ==
  ASSUME IInv, TypeOK', NEW h \in Handlers, req' = req, h \in awaited,
         op[h] = "expand", pc[h] \in {"lookup", "modifyWait"}, uuid[h] \in services,
         ReturnVolume(h, uuid[h], sizeGiB[uuid[h]] * giB, name[h] \in nfsServer),
         UNCHANGED <<cloud, side>>
  PROVE  IInv'
<1> USE FileStorageAssumption DEF IInv, Making, cloud, side
<1>1. /\ name[h] \in Names /\ bound[name[h]] = uuid[h]
      /\ pc' = [pc EXCEPT ![h] = "idle"] /\ op' = [op EXCEPT ![h] = "none"]
      /\ name' = [name EXCEPT ![h] = NoName] /\ uuid' = [uuid EXCEPT ![h] = NoService]
      /\ want' = [want EXCEPT ![h] = 0] /\ h \notin address
      /\ address' = address \ {h} /\ awaited' = awaited \ {h}
      /\ bound' = bound /\ nfsServer' = nfsServer
      /\ granted' = [granted EXCEPT ![name[h]] = sizeGiB[uuid[h]] * giB]
      /\ partial' = partial
  BY DEF ReturnVolume, Return, Live, TypeOK, HandlerKnows, ActsOnBound
<1> USE <1>1
<1>2. HandlerKnows'
  BY DEF TypeOK, HandlerKnows, RequestedBytes
<1>3. OneCallPerName' /\ WireIsDisturbed' /\ NamedOnce' /\ StillMissing'
  BY DEF TypeOK, OneCallPerName, WireIsDisturbed, NamedOnce, StillMissing
<1>4. MakesItsOwn' /\ BoundIsItsOwn' /\ ActsOnBound' /\ MadeIsUnbound'
  BY DEF TypeOK, MakesItsOwn, BoundIsItsOwn, ActsOnBound, MadeIsUnbound
<1>5. WholeIsReady' /\ BoundIsMountable'
  BY DEF TypeOK, WholeIsReady, BoundIsMountable
<1>6. CapacityIsReal'
  <2>1. sizeGiB[uuid[h]] * giB < (sizeGiB[uuid[h]] + 1) * giB
    BY BytesOfSize DEF TypeOK
  <2> QED BY <2>1 DEF TypeOK, CapacityIsReal
<1> QED BY <1>2, <1>3, <1>4, <1>5, <1>6

\* The wait ends.
LEMMA WaitStep ==
  ASSUME IInv, TypeOK', NEW h \in Handlers, WaitForFileStorageRunning(h), req' = req
  PROVE  IInv'
<1> USE FileStorageAssumption DEF IInv, Making, request, cloud, side, known
<1>1. CASE pc[h] = "modifyWait"
  <2>1. /\ h \in awaited /\ op[h] = "expand" /\ uuid[h] \in services
        /\ ReturnVolume(h, uuid[h], sizeGiB[uuid[h]] * giB, name[h] \in nfsServer)
        /\ UNCHANGED <<cloud, side>>
    BY <1>1 DEF WaitForFileStorageRunning, HandlerKnows, Live, TypeOK
  <2> QED BY <1>1, <2>1, ExpandedStep
<1>2. CASE pc[h] = "createWait"
  <2>1. h \in awaited /\ name[h] \in Names /\ uuid[h] \in services /\ uuid[h] \in Services
    BY <1>2 DEF WaitForFileStorageRunning, HandlerKnows, Live, TypeOK
  <2> USE <1>2, <2>1 DEF WaitForFileStorageRunning
  <2>2. HandlerKnows'
    BY DEF TypeOK, HandlerKnows, RequestedBytes
  <2>3. OneCallPerName' /\ WireIsDisturbed' /\ NamedOnce' /\ StillMissing'
    BY DEF TypeOK, OneCallPerName, WireIsDisturbed, NamedOnce, StillMissing
  <2>4. MakesItsOwn' /\ BoundIsItsOwn' /\ ActsOnBound' /\ MadeIsUnbound'
    BY DEF TypeOK, MakesItsOwn, BoundIsItsOwn, ActsOnBound, MadeIsUnbound, HandlerKnows
  <2>5. WholeIsReady' /\ CapacityIsReal' /\ BoundIsMountable'
    BY DEF TypeOK, WholeIsReady, CapacityIsReal, BoundIsMountable
  <2> QED BY <2>2, <2>3, <2>4, <2>5
<1> QED BY <1>1, <1>2 DEF WaitForFileStorageRunning

\* A call fails with the API as it is; what it was making is left behind.
LEMMA FailStep ==
  ASSUME IInv, TypeOK', NEW h \in Handlers, req' = req, pc[h] # "idle",
         ReturnFault(h), UNCHANGED cloud, disturbed \subseteq disturbed',
         wire' \subseteq disturbed'
  PROVE  IInv'
<1> USE FileStorageAssumption DEF IInv, Making, cloud, known
<1>1. name[h] \in Names
  BY DEF HandlerKnows
<1>2. /\ Return(h) /\ UNCHANGED known /\ partial \subseteq partial'
      /\ pc[h] \in Making => uuid[h] \in partial'
  BY DEF ReturnFault, Fail, Unfinished, HandlerKnows, TypeOK
<1> USE <1>1, <1>2 DEF Return
<1>3. HandlerKnows'
  BY DEF TypeOK, HandlerKnows, RequestedBytes
<1>4. OneCallPerName' /\ WireIsDisturbed' /\ NamedOnce' /\ StillMissing'
  BY DEF TypeOK, OneCallPerName, WireIsDisturbed, NamedOnce, StillMissing
<1>5. MakesItsOwn' /\ BoundIsItsOwn' /\ ActsOnBound' /\ MadeIsUnbound'
  BY DEF TypeOK, MakesItsOwn, BoundIsItsOwn, ActsOnBound, MadeIsUnbound
<1>6. WholeIsReady' /\ CapacityIsReal' /\ BoundIsMountable'
  BY DEF TypeOK, WholeIsReady, CapacityIsReal, BoundIsMountable
<1> QED BY <1>3, <1>4, <1>5, <1>6

\* The last request of CreateVolume.  With the address it was given the answer is
\* complete; if it fails, the file storage counts as left behind.
LEMMA ShareStep ==
  ASSUME IInv, TypeOK', NEW h \in Handlers, CreateFileStorageShareACL(h), req' = req
  PROVE  IInv'
<1> USE FileStorageAssumption DEF IInv, Making, request, cloud, side, known
<1>1. /\ pc[h] \in {"createShare", "createACL"} /\ h \in awaited /\ name[h] \in Names
      /\ uuid[h] \in services /\ uuid[h] \in Services /\ op[h] = "create"
  BY DEF CreateFileStorageShareACL, Live, HandlerKnows, TypeOK
<1>2. /\ fsName[uuid[h]] = name[h]
      /\ h \in address => uuid[h] \in withIP
      /\ want[h] < (sizeGiB[uuid[h]] + 1) * giB
  <2>1. SizeGB(want[h]) <= sizeGiB[uuid[h]] /\ want[h] \in Nat /\ sizeGiB[uuid[h]] \in Nat
    BY <1>1, SizesBounded DEF MakesItsOwn, TypeOK
  <2>2. want[h] < (sizeGiB[uuid[h]] + 1) * giB
    BY <2>1, SizeRoundsDown
  <2> QED BY <1>1, <2>2 DEF MakesItsOwn
<1>3. /\ Return(h)
      /\ share' = [share EXCEPT ![uuid[h]] = "open"]
      /\ UNCHANGED <<services, used, fsName, sizeGiB, running, withIP, side>>
      /\ \/ /\ ReturnVolume(h, uuid[h], want[h], TRUE) /\ h \in address
         \/ ReturnFault(h)
  BY DEF CreateFileStorageShareACL, CreateResponse, ReturnVolume, ReturnFault, Fail
<1>4. HandlerKnows'
  BY <1>1, <1>3 DEF TypeOK, HandlerKnows, RequestedBytes, Return
<1>5. OneCallPerName' /\ WireIsDisturbed' /\ NamedOnce' /\ StillMissing'
  BY <1>1, <1>3 DEF TypeOK, OneCallPerName, WireIsDisturbed, NamedOnce, StillMissing, Return
<1>6. MakesItsOwn'
  BY <1>1, <1>3 DEF TypeOK, MakesItsOwn, Return
\* No other call that is waited for has the name, or makes this file storage.
<1>7. \A g \in awaited : g # h => name[g] # name[h] /\ (pc[g] \in Making => uuid[g] # uuid[h])
  <2>1. ASSUME NEW g \in awaited, g # h
        PROVE  name[g] # name[h] /\ (pc[g] \in Making => uuid[g] # uuid[h])
    BY <1>1, <1>2, <2>1 DEF OneCallPerName, MakesItsOwn, TypeOK
  <2> QED BY <2>1
<1>8. CASE ReturnVolume(h, uuid[h], want[h], TRUE) /\ h \in address
  <2>1. /\ bound' = [bound EXCEPT ![name[h]] = uuid[h]]
        /\ granted' = [granted EXCEPT ![name[h]] = want[h]]
        /\ nfsServer' = nfsServer \union {name[h]}
        /\ partial' = partial
    BY <1>1, <1>8 DEF ReturnVolume, Live
  <2> USE <1>1, <1>2, <1>3, <1>7, <1>8, <2>1 DEF Return
  <2> HIDE <1>8
  <2>2. BoundIsItsOwn' /\ ActsOnBound' /\ MadeIsUnbound'
    BY DEF TypeOK, BoundIsItsOwn, ActsOnBound, MadeIsUnbound, HandlerKnows
  <2>3. WholeIsReady' /\ BoundIsMountable'
    BY <1>8 DEF TypeOK, WholeIsReady, BoundIsMountable
  <2>4. CapacityIsReal'
    BY DEF TypeOK, CapacityIsReal
  <2> QED BY <1>4, <1>5, <1>6, <2>2, <2>3, <2>4
<1>9. CASE ReturnFault(h)
  <2>1. UNCHANGED known /\ partial' = partial \union {uuid[h]}
    BY <1>1, <1>9 DEF ReturnFault, Fail, Unfinished, TypeOK
  <2> USE <1>1, <1>3, <2>1 DEF Return
  <2>2. BoundIsItsOwn' /\ ActsOnBound' /\ MadeIsUnbound'
    BY DEF TypeOK, BoundIsItsOwn, ActsOnBound, MadeIsUnbound
  <2>3. WholeIsReady' /\ BoundIsMountable' /\ CapacityIsReal'
    BY DEF TypeOK, WholeIsReady, BoundIsMountable, CapacityIsReal
  <2> QED BY <1>4, <1>5, <1>6, <2>2, <2>3
<1> QED BY <1>3, <1>8, <1>9

\* ControllerExpandVolume reads the size: it is done, fails or goes on.
LEMMA LookupStep ==
  ASSUME IInv, TypeOK', NEW h \in Handlers, ExpandFileStorage(h), req' = req
  PROVE  IInv'
<1> USE FileStorageAssumption DEF IInv, Making, request, cloud, side, known
<1>1. /\ pc[h] = "lookup" /\ h \in awaited /\ name[h] \in Names /\ op[h] = "expand"
      /\ h \notin address
      /\ UNCHANGED <<cloud, side>>
  BY DEF ExpandFileStorage, Live, HandlerKnows
<1>2. CASE uuid[h] \in services
           /\ ReturnVolume(h, uuid[h], sizeGiB[uuid[h]] * giB, name[h] \in nfsServer)
  BY <1>1, <1>2, ExpandedStep
<1>3. CASE Continue(h, "modify") \/ ReturnError(h)
  <2> USE <1>1, <1>3 DEF Continue, Goto, ReturnError, Return
  <2>1. HandlerKnows'
    BY DEF TypeOK, HandlerKnows, RequestedBytes
  <2>2. OneCallPerName' /\ WireIsDisturbed' /\ NamedOnce' /\ StillMissing'
    BY DEF TypeOK, OneCallPerName, WireIsDisturbed, NamedOnce, StillMissing
  <2>3. MakesItsOwn' /\ BoundIsItsOwn' /\ ActsOnBound' /\ MadeIsUnbound'
    BY DEF TypeOK, MakesItsOwn, BoundIsItsOwn, ActsOnBound, MadeIsUnbound
  <2>4. WholeIsReady' /\ CapacityIsReal' /\ BoundIsMountable'
    BY DEF TypeOK, WholeIsReady, CapacityIsReal, BoundIsMountable
  <2> QED BY <2>1, <2>2, <2>3, <2>4
<1> QED BY <1>2, <1>3 DEF ExpandFileStorage

\* A file storage never shrinks, so what was answered about it stays true.
LEMMA ModifyStep ==
  ASSUME IInv, TypeOK', NEW h \in Handlers, ModifyFileStorage(h), req' = req
  PROVE  IInv'
<1> USE FileStorageAssumption DEF IInv, Making, request, cloud, side, known
<1>1. /\ pc[h] = "modify" /\ h \in awaited /\ name[h] \in Names /\ op[h] = "expand"
      /\ uuid[h] \in services /\ uuid[h] \in Services /\ h \notin address
      /\ SizeGB(want[h]) >= sizeGiB[uuid[h]]
      /\ sizeGiB' = [sizeGiB EXCEPT ![uuid[h]] = SizeGB(want[h])]
      /\ running' = running \ {uuid[h]}
      /\ UNCHANGED <<services, used, fsName, withIP, share, side>>
  BY DEF ModifyFileStorage, Live, HandlerKnows, TypeOK
<1>10. UNCHANGED known /\ partial' = partial
  <2>1. Unfinished({h}) = {}
    BY <1>1 DEF Unfinished
  <2> QED BY <2>1 DEF ModifyFileStorage, Continue, Goto, ReturnFault, Fail
<1>2. \/ /\ pc' = [pc EXCEPT ![h] = "modifyWait"]
         /\ UNCHANGED <<op, name, uuid, want, address, awaited>>
      \/ Return(h)
  BY DEF ModifyFileStorage, Continue, Goto, ReturnFault, Fail, TypeOK
<1>3. \A u \in Services : /\ sizeGiB[u] \in Nat /\ sizeGiB'[u] \in Nat
                          /\ sizeGiB[u] <= sizeGiB'[u]
  <2> SUFFICES ASSUME NEW u \in Services
               PROVE  /\ sizeGiB[u] \in Nat /\ sizeGiB'[u] \in Nat
                      /\ sizeGiB[u] <= sizeGiB'[u]
    OBVIOUS
  <2>1. sizeGiB[u] \in Nat /\ sizeGiB'[u] \in Nat
    BY SizesBounded DEF TypeOK
  <2>2. sizeGiB'[u] = IF u = uuid[h] THEN SizeGB(want[h]) ELSE sizeGiB[u]
    BY <1>1 DEF TypeOK
  <2> QED BY <1>1, <2>1, <2>2
<1> USE <1>1, <1>10, <1>2 DEF Return
<1>4. HandlerKnows'
  BY DEF TypeOK, HandlerKnows, RequestedBytes
<1>5. OneCallPerName' /\ WireIsDisturbed' /\ NamedOnce' /\ StillMissing'
  BY DEF TypeOK, OneCallPerName, WireIsDisturbed, NamedOnce, StillMissing
<1>6. BoundIsItsOwn' /\ ActsOnBound' /\ MadeIsUnbound'
  BY DEF TypeOK, BoundIsItsOwn, ActsOnBound, MadeIsUnbound
<1>7. MakesItsOwn'
  <2> SUFFICES ASSUME NEW g \in Handlers, pc'[g] \in Making, uuid'[g] \in services
               PROVE  /\ fsName[uuid[g]] = name[g]
                      /\ SizeGB(want[g]) <= sizeGiB'[uuid[g]]
                      /\ g \in address => uuid[g] \in withIP
                      /\ uuid'[g] = uuid[g] /\ name'[g] = name[g] /\ want'[g] = want[g]
    BY DEF TypeOK, MakesItsOwn
  <2>1. /\ pc[g] \in Making /\ uuid[g] \in services /\ uuid'[g] = uuid[g]
        /\ name'[g] = name[g] /\ want'[g] = want[g]
    BY DEF TypeOK
  <2>2. /\ fsName[uuid[g]] = name[g]
        /\ SizeGB(want[g]) <= sizeGiB[uuid[g]]
        /\ g \in address => uuid[g] \in withIP
        /\ SizeGB(want[g]) \in Nat
        /\ uuid[g] \in Services
    BY <2>1, SizesBounded DEF TypeOK, MakesItsOwn
  <2> QED BY <1>3, <2>1, <2>2
<1>8. WholeIsReady' /\ BoundIsMountable'
  <2>1. \A g \in awaited : pc[g] \in Making
                           => g \in awaited' /\ pc'[g] = pc[g] /\ uuid'[g] = uuid[g]
    BY DEF TypeOK
  <2>2. WholeIsReady'
    BY <2>1 DEF WholeIsReady
  <2> QED BY <2>2 DEF BoundIsMountable
<1>9. CapacityIsReal'
  <2> SUFFICES ASSUME NEW n \in Names, bound[n] \in services
               PROVE  granted[n] < (sizeGiB'[bound[n]] + 1) * giB
    BY DEF CapacityIsReal
  <2>1. bound[n] \in Services
    BY DEF TypeOK
  <2>2. /\ sizeGiB[bound[n]] \in Nat /\ sizeGiB'[bound[n]] \in Nat
        /\ sizeGiB[bound[n]] <= sizeGiB'[bound[n]]
    BY <1>3, <2>1
  <2>3. /\ (sizeGiB[bound[n]] + 1) * giB <= (sizeGiB'[bound[n]] + 1) * giB
        /\ (sizeGiB[bound[n]] + 1) * giB \in Nat /\ (sizeGiB'[bound[n]] + 1) * giB \in Nat
    <3>1. /\ sizeGiB[bound[n]] + 1 \in Nat /\ sizeGiB'[bound[n]] + 1 \in Nat
          /\ sizeGiB[bound[n]] + 1 <= sizeGiB'[bound[n]] + 1
      BY <2>2
    <3> QED BY <3>1, SizeScales
  <2>4. granted[n] < (sizeGiB[bound[n]] + 1) * giB /\ granted[n] \in Nat
    BY DEF CapacityIsReal, TypeOK
  <2> QED BY <2>3, <2>4
<1> QED BY <1>4, <1>5, <1>6, <1>7, <1>8, <1>9

\* A file storage disappears: deleted by DeleteVolume, or by somebody else.
LEMMA RemoveStep ==
  ASSUME IInv, TypeOK', NEW u \in Services, RemoveService(u), req' = req,
         UNCHANGED <<side, partial>>,
         \/ UNCHANGED <<pc, op, name, uuid, want, address, awaited, known>>
         \/ \E h \in Handlers :
              /\ pc[h] = "delete" /\ h \in awaited /\ uuid[h] = u
              /\ Return(h)
              /\ \/ UNCHANGED known
                 \/ /\ bound' = [bound EXCEPT ![name[h]] = NoService]
                    /\ granted' = [granted EXCEPT ![name[h]] = 0]
                    /\ nfsServer' = nfsServer \ {name[h]}
  PROVE  IInv'
<1> USE FileStorageAssumption DEF IInv, Making, side, known, RemoveService, Return
<1>1. HandlerKnows'
  BY DEF TypeOK, HandlerKnows, RequestedBytes
<1>2. OneCallPerName' /\ WireIsDisturbed'
  BY DEF TypeOK, OneCallPerName, WireIsDisturbed
<1>3. NamedOnce' /\ StillMissing'
  BY DEF TypeOK, NamedOnce, StillMissing, HandlerKnows
<1>4. MakesItsOwn'
  BY DEF TypeOK, MakesItsOwn
<1>5. BoundIsItsOwn'
  BY DEF TypeOK, BoundIsItsOwn, HandlerKnows
<1>6. ActsOnBound'
  BY DEF TypeOK, ActsOnBound, OneCallPerName, HandlerKnows
<1>7. MadeIsUnbound'
  BY DEF TypeOK, MadeIsUnbound, HandlerKnows
<1>8. WholeIsReady'
  BY DEF TypeOK, WholeIsReady
<1>9. BoundIsMountable'
  BY DEF TypeOK, BoundIsMountable, HandlerKnows
<1>10. CapacityIsReal'
  BY DEF TypeOK, CapacityIsReal, HandlerKnows
<1> QED BY <1>1, <1>2, <1>3, <1>4, <1>5, <1>6, <1>7, <1>8, <1>9, <1>10

\* The API acts on its own: an abandoned create lands, a file storage starts.
LEMMA CloudStep ==
  ASSUME IInv, TypeOK', req' = req,
         \/ \E n \in Names : Lands(n)
         \/ \E u \in Services : ServiceStarts(u)
  PROVE  IInv'
<1> USE FileStorageAssumption DEF IInv, Making, request, cloud, side, known
<1>1. ASSUME NEW n \in Names, n \in disturbed, NEW u \in Services,
             NewService(u, n, SizeGB(RequestedBytes(n))), partial' = partial \union {u},
             wire' \subseteq wire, UNCHANGED <<pc, request, uuid, want, address, req, known, disturbed>>
      PROVE  IInv'
  <2>1. /\ \A m \in Names : bound[m] # u
        /\ \A g \in Handlers : pc[g] \in Making => uuid[g] # u
        /\ u \notin services
    BY <1>1 DEF TypeOK, BoundIsItsOwn, HandlerKnows, NewService
  <2> USE <1>1, <2>1 DEF NewService
  <2>2. HandlerKnows' /\ OneCallPerName' /\ WireIsDisturbed'
    BY DEF TypeOK, HandlerKnows, RequestedBytes, OneCallPerName, WireIsDisturbed
  <2>3. NamedOnce' /\ StillMissing'
    BY DEF TypeOK, NamedOnce, StillMissing
  <2>4. MakesItsOwn' /\ BoundIsItsOwn' /\ ActsOnBound' /\ MadeIsUnbound'
    BY DEF TypeOK, MakesItsOwn, BoundIsItsOwn, ActsOnBound, MadeIsUnbound
  <2>5. WholeIsReady' /\ CapacityIsReal' /\ BoundIsMountable'
    BY DEF TypeOK, WholeIsReady, CapacityIsReal, BoundIsMountable
  <2> QED BY <2>2, <2>3, <2>4, <2>5
<1>2. ASSUME UNCHANGED <<services, used, fsName, sizeGiB, share, partial, disturbed, pc,
                         request, uuid, want, address, req, known>>,
             wire' \subseteq wire, withIP \subseteq withIP'
      PROVE  IInv'
  <2> USE <1>2
  <2>1. HandlerKnows' /\ OneCallPerName' /\ WireIsDisturbed'
    BY DEF HandlerKnows, RequestedBytes, OneCallPerName, WireIsDisturbed
  <2>2. NamedOnce' /\ StillMissing'
    BY DEF NamedOnce, StillMissing
  <2>3. MakesItsOwn' /\ BoundIsItsOwn' /\ ActsOnBound' /\ MadeIsUnbound'
    BY DEF MakesItsOwn, BoundIsItsOwn, ActsOnBound, MadeIsUnbound
  <2>4. WholeIsReady' /\ CapacityIsReal' /\ BoundIsMountable'
    BY DEF WholeIsReady, CapacityIsReal, BoundIsMountable
  <2> QED BY <2>1, <2>2, <2>3, <2>4
<1>3. ASSUME NEW n \in Names, Lands(n) PROVE IInv'
  <2>1. n \in disturbed
    BY <1>3 DEF Lands, WireIsDisturbed
  <2> QED BY <1>1, <1>2, <1>3, <2>1 DEF Lands
<1>4. ASSUME NEW u \in Services, ServiceStarts(u) PROVE IInv'
  BY <1>2, <1>4 DEF ServiceStarts
<1> QED BY <1>3, <1>4

\* A deadline passes, or the pod is restarted: what was being made is left behind.
LEMMA InterruptStep ==
  ASSUME IInv, TypeOK', req' = req, (\E h \in Handlers : Cancel(h)) \/ Crash
  PROVE  IInv'
<1> USE FileStorageAssumption DEF IInv, Making, request, cloud, side, known
<1>1. CASE Crash
  <2>1. /\ partial \subseteq partial'
        /\ \A h \in Handlers : pc[h] \in Making => uuid[h] \in partial'
    BY <1>1 DEF Crash, Unfinished, HandlerKnows, TypeOK
  <2> USE <1>1, <2>1 DEF Crash
  <2>2. HandlerKnows' /\ OneCallPerName' /\ WireIsDisturbed'
    BY DEF HandlerKnows, RequestedBytes, OneCallPerName, WireIsDisturbed
  <2>3. NamedOnce' /\ StillMissing'
    BY DEF NamedOnce, StillMissing
  <2>4. MakesItsOwn' /\ BoundIsItsOwn' /\ ActsOnBound' /\ MadeIsUnbound'
    BY DEF MakesItsOwn, BoundIsItsOwn, ActsOnBound, MadeIsUnbound
  <2>5. WholeIsReady' /\ CapacityIsReal' /\ BoundIsMountable'
    BY DEF TypeOK, WholeIsReady, CapacityIsReal, BoundIsMountable
  <2> QED BY <2>2, <2>3, <2>4, <2>5
<1>2. ASSUME NEW h \in Handlers, Cancel(h) PROVE IInv'
  <2>1. partial \subseteq partial' /\ (pc[h] \in Making => uuid[h] \in partial')
    BY <1>2 DEF Cancel, Unfinished, HandlerKnows, TypeOK
  <2> USE <1>2, <2>1 DEF Cancel
  <2>2. HandlerKnows' /\ OneCallPerName' /\ WireIsDisturbed'
    BY DEF HandlerKnows, RequestedBytes, OneCallPerName, WireIsDisturbed
  <2>3. NamedOnce' /\ StillMissing'
    BY DEF NamedOnce, StillMissing
  <2>4. MakesItsOwn' /\ BoundIsItsOwn' /\ ActsOnBound' /\ MadeIsUnbound'
    BY DEF MakesItsOwn, BoundIsItsOwn, ActsOnBound, MadeIsUnbound
  <2>5. WholeIsReady' /\ CapacityIsReal' /\ BoundIsMountable'
    BY DEF TypeOK, WholeIsReady, CapacityIsReal, BoundIsMountable
  <2> QED BY <2>2, <2>3, <2>4, <2>5
<1> QED BY <1>1, <1>2

\* Every step preserves the invariant.
LEMMA NextIInv == IInv /\ [Next]_vars => IInv'
<1> SUFFICES ASSUME IInv, [Next]_vars PROVE IInv'
  OBVIOUS
<1>1. TypeOK' /\ req' = req
  BY TypeStep, RequestsStay DEF IInv
<1>2. ASSUME NEW h \in Handlers, ApiError(h) \/ Abandon(h) PROVE IInv'
  <2>1. /\ pc[h] # "idle" /\ ReturnFault(h) /\ UNCHANGED cloud
        /\ disturbed \subseteq disturbed' /\ wire' \subseteq disturbed'
    BY <1>2 DEF ApiError, Abandon, side, IInv, WireIsDisturbed
  <2> QED BY <1>1, <2>1, FailStep
<1>3. ASSUME NEW h \in Handlers, DeleteFileStorage(h) PROVE IInv'
  <2>1. /\ pc[h] = "delete" /\ h \in awaited /\ uuid[h] \in Services /\ op[h] = "delete"
    BY <1>3 DEF DeleteFileStorage, Live, IInv, TypeOK, HandlerKnows
  <2>2. Unfinished({h}) = {}
    BY <2>1 DEF Unfinished
  <2>3. /\ RemoveService(uuid[h]) /\ Return(h) /\ UNCHANGED <<side, partial>>
        /\ \/ UNCHANGED known
           \/ /\ bound' = [bound EXCEPT ![name[h]] = NoService]
              /\ granted' = [granted EXCEPT ![name[h]] = 0]
              /\ nfsServer' = nfsServer \ {name[h]}
    BY <1>3, <2>2 DEF DeleteFileStorage, ReturnFault, Fail
  <2> QED BY <1>1, <2>1, <2>3, RemoveStep
<1>4. ASSUME NEW u \in Services, ServiceDeleted(u) PROVE IInv'
  BY <1>1, <1>4, RemoveStep DEF ServiceDeleted, request
<1>5. CASE UNCHANGED vars
  BY <1>1, <1>5
  DEF vars, IInv, HandlerKnows, RequestedBytes, OneCallPerName, WireIsDisturbed, StillMissing,
      NamedOnce, MakesItsOwn, BoundIsItsOwn, ActsOnBound, MadeIsUnbound, WholeIsReady,
      CapacityIsReal, BoundIsMountable
<1> QED
  BY <1>1, <1>2, <1>3, <1>4, <1>5, CallStep, ListStep, MoveStep, CreateStep, WaitStep,
     ShareStep, LookupStep, ModifyStep, CloudStep, InterruptStep
  DEF Next, Step, Environment

-----------------------------------------------------------------------------

\* The invariant holds in every reachable state.
LEMMA Invariance == Spec => []IInv
  BY InitIInv, NextIInv, PTL DEF Spec

\* A set in which no two elements differ has at most one.
LEMMA AtMostOne ==
  ASSUME NEW S, IsFiniteSet(S), \A x, y \in S : x = y
  PROVE  Cardinality(S) <= 1
<1>1. CASE S = {}
  BY <1>1, FS_EmptySet
<1>2. CASE S # {}
  <2>1. PICK x \in S : TRUE
    BY <1>2
  <2>2. S = {x}
    BY <2>1
  <2> QED BY <2>2, FS_Singleton
<1> QED BY <1>1, <1>2

\* Every reachable state is well typed; what is asked of the API is within the
\* maximum size.
THEOREM TypeCorrect == Spec => []TypeOK
<1>1. IInv => TypeOK
  BY DEF IInv
<1> QED BY Invariance, <1>1, PTL

\* A name has one file storage although CreateVolume's list and CreateFileStorage
\* are separate requests, whatever retries, cancellations, crashes and lost
\* answers come between them, unless a create was abandoned on the wire.  It
\* takes a controller that runs in the zone it is configured with: in another
\* one GetFileStorages never finds what CreateVolume made.
THEOREM CreatesOneFileStorage ==
  ASSUME NodeZone = Zone
  PROVE  Spec => []OneFileStoragePerName
<1>1. IInv => OneFileStoragePerName
  <2> SUFFICES ASSUME IInv, NEW n \in Names \ disturbed PROVE Cardinality(Named(n)) <= 1
    BY DEF OneFileStoragePerName
  <2>1. IsFiniteSet(Named(n))
    <3>1. Named(n) \in SUBSET Services
      BY DEF IInv, TypeOK, Named
    <3> QED BY <3>1, FileStorageAssumption, FS_Subset
  <2>2. \A u, v \in Named(n) : u = v
    BY DEF IInv, NamedOnce, Named
  <2> QED BY <2>1, <2>2, AtMostOne
<1> QED BY Invariance, <1>1, PTL

\* CapacityBytes of the last answer is what the file storage has, up to the part
\* of a GiB that is rounded down.  The bound is not exact for a capacity that is
\* not whole GiB: CreateVolume answers with the bytes that were asked for.
THEOREM AnswersWithRealCapacity == Spec => []CapacityIsReal
<1>1. IInv => CapacityIsReal
  BY DEF IInv
<1> QED BY Invariance, <1>1, PTL

\* A capacity in whole GiB that CreateVolume or ControllerExpandVolume answered
\* with is there in full.
WholeCapacity ==
    \A n \in Names : bound[n] \in services /\ granted[n] % giB = 0
                     => granted[n] <= sizeGiB[bound[n]] * giB

\* An answer in whole GiB is exact: all of the capacity that was answered with
\* is there, after a create, a retry that found the name, or an expand.
THEOREM WholeCapacityIsThere == Spec => []WholeCapacity
<1>1. IInv => WholeCapacity
  <2> SUFFICES ASSUME IInv, NEW n \in Names, bound[n] \in services, granted[n] % giB = 0
               PROVE  granted[n] <= sizeGiB[bound[n]] * giB
    BY DEF WholeCapacity
  <2>1. granted[n] \in Nat /\ sizeGiB[bound[n]] \in Nat
    BY CapacityAssumption, SizeDivides DEF IInv, TypeOK, Sizes
  <2>2. granted[n] < (sizeGiB[bound[n]] + 1) * giB
    BY DEF IInv, CapacityIsReal
  <2> QED BY <2>1, <2>2, WholeGiBFits
<1> QED BY Invariance, <1>1, PTL

\* A volume that was answered with has its share, its ACL and the address of its
\* server, unless the call that made it was cut short.
THEOREM AnswersWithMountable == Spec => []BoundIsMountable
<1>1. IInv => BoundIsMountable
  BY DEF IInv
<1> QED BY Invariance, <1>1, PTL

\* CreateVolume answers with no other volume while the one it gave exists.
THEOREM AnswerIsStable ==
  ASSUME NodeZone = Zone
  PROVE  Spec => BindingIsStable
<1> DEFINE Stable == \A n \in Names \ disturbed :
                        bound[n] \in services /\ bound'[n] # bound[n] => bound[n] \notin services'
<1>1. IInv /\ [Next]_vars => [Stable]_vars
  <2> SUFFICES ASSUME IInv, Next, NEW n \in Names \ disturbed,
                      bound[n] \in services, bound'[n] # bound[n]
               PROVE  bound[n] \notin services'
    OBVIOUS
  <2> USE DEF IInv, request, cloud, side, known
  <2>1. ASSUME NEW h \in Handlers, NEW u \in services, fsName[u] = name[h], name[h] \in Names,
               NEW bytes, NEW a, ReturnVolume(h, u, bytes, a)
        PROVE  FALSE
    <3>1. bound' = bound \/ bound' = [bound EXCEPT ![name[h]] = u]
      BY <2>1 DEF ReturnVolume
    <3>2. name[h] = n
      BY <2>1, <3>1 DEF TypeOK
    <3>3. bound[n] = u
      BY <2>1, <3>2 DEF BoundIsItsOwn, NamedOnce
    <3> QED BY <3>1, <3>2, <3>3 DEF TypeOK
  <2>2. ASSUME NEW h \in Handlers, GetFileStorages(h) PROVE FALSE
    <3>1. name[h] \in Names
      BY <2>2 DEF GetFileStorages, HandlerKnows
    <3>2. ~ UNCHANGED bound
      OBVIOUS
    <3>3. PICK u \in Found(name[h]) : ReturnVolume(h, u, sizeGiB[u] * giB, u \in withIP)
      BY <2>2, <3>2 DEF GetFileStorages, CreateNew, Goto, ExistsResponse, ReturnError
    <3>4. u \in services /\ fsName[u] = name[h]
      BY DEF Found, Named
    <3> QED BY <2>1, <3>1, <3>3, <3>4
  <2>3. ASSUME NEW h \in Handlers, CreateFileStorageShareACL(h) PROVE FALSE
    <3>1. /\ name[h] \in Names /\ uuid[h] \in services /\ fsName[uuid[h]] = name[h]
      BY <2>3 DEF CreateFileStorageShareACL, HandlerKnows, MakesItsOwn, Making
    <3>2. ReturnVolume(h, uuid[h], want[h], TRUE)
      BY <2>3 DEF CreateFileStorageShareACL, CreateResponse, ReturnFault, Fail
    <3> QED BY <2>1, <3>1, <3>2
  <2>4. ASSUME NEW h \in Handlers, WaitForFileStorageRunning(h) \/ ExpandFileStorage(h)
        PROVE  FALSE
    <3>1. /\ name[h] \in Names /\ h \in awaited /\ uuid[h] \in services
          /\ op[h] \in {"expand", "delete"}
          /\ ReturnVolume(h, uuid[h], sizeGiB[uuid[h]] * giB, name[h] \in nfsServer)
      BY <2>4 DEF WaitForFileStorageRunning, ExpandFileStorage, Live, Continue, Goto,
                  ReturnError, HandlerKnows, TypeOK
    <3>2. fsName[uuid[h]] = name[h]
      BY <3>1 DEF ActsOnBound, BoundIsItsOwn
    <3> QED BY <2>1, <3>1, <3>2
  <2>5. ASSUME NEW h \in Handlers, DeleteFileStorage(h) PROVE bound[n] \notin services'
    <3>1. /\ h \in awaited /\ uuid[h] = bound[name[h]] /\ name[h] \in Names
          /\ services' = services \ {uuid[h]}
      BY <2>5 DEF DeleteFileStorage, RemoveService, Live, HandlerKnows, ActsOnBound
    <3>2. bound' = bound \/ bound' = [bound EXCEPT ![name[h]] = NoService]
      BY <2>5 DEF DeleteFileStorage, ReturnFault, Fail
    <3> QED BY <3>1, <3>2 DEF TypeOK
  <2>6. ASSUME NEW h \in Handlers,
               \/ Calls(h) \/ DiscoverClusterNetwork(h) \/ CreateFileStorage(h)
               \/ GetFileStorageShares(h) \/ ModifyFileStorage(h) \/ ApiError(h)
               \/ Abandon(h) \/ Cancel(h)
        PROVE  FALSE
    BY <2>6 DEF Calls, CreateVolume, DeleteVolume, ControllerExpandVolume, Call,
                DiscoverClusterNetwork, CreateFileStorage, GetFileStorageShares,
                ModifyFileStorage, ApiError, Abandon, Cancel, Continue, Goto, ReturnFault, Fail
  <2>7. CASE Environment
    BY <2>7 DEF Environment, ServiceStarts, ServiceDeleted, Lands, Crash
  <2> QED BY <2>2, <2>3, <2>4, <2>5, <2>6, <2>7 DEF Next, Step
<1> QED BY Invariance, <1>1, PTL DEF Spec, BindingIsStable

\* A CreateVolume that meets no fault succeeds, whatever earlier attempts left
\* behind, when the request is for whole GiB that no expand has changed.
THEOREM RetrySucceeds == Spec => CreateRecovers
<1> DEFINE Asked(h) == /\ op[h] = "create" /\ pc'[h] = "idle"
                       /\ h \notin troubled' /\ name[h] \notin disturbed'
                       /\ RequestedBytes(name[h]) >= minBytes
                       /\ RequestedBytes(name[h]) % giB = 0
                       /\ \A u \in Named(name[h]) :
                             sizeGiB[u] = SizeGB(RequestedBytes(name[h]))
           Recovers == \A h \in awaited : Asked(h) => bound'[name[h]] # NoService
<1>1. IInv /\ [Next]_vars => [Recovers]_vars
  <2> SUFFICES ASSUME IInv, Next, NEW h \in awaited, Asked(h)
               PROVE  bound'[name[h]] # NoService
    OBVIOUS
  <2>0. h \in Handlers /\ pc[h] # "idle" /\ name[h] \in Names /\ op[h] = "create"
        /\ pc'[h] = "idle" /\ h \notin troubled'
    BY DEF IInv, TypeOK, HandlerKnows
  <2> USE <2>0, FileStorageAssumption DEF IInv, request, cloud, side, known
  <2>1. CASE GetFileStorages(h)
    <3>1. RequestedBytes(name[h]) # OutOfRange
      BY CapacityAssumption, RequestedBounded, SizesBounded DEF OutOfRange
    <3>2. \A u \in Found(name[h]) : sizeGiB[u] * giB = RequestedBytes(name[h])
      <4>1. RequestedBytes(name[h]) \in Nat
        BY RequestedBounded, SizesBounded
      <4>2. SizeGB(RequestedBytes(name[h])) * giB = RequestedBytes(name[h])
        BY <4>1, WholeGiB
      <4> QED BY <4>2 DEF Found
    <3>3. PICK u \in Found(name[h]) : ReturnVolume(h, u, sizeGiB[u] * giB, u \in withIP)
      BY <2>1, <3>1, <3>2 DEF GetFileStorages, CreateNew, Goto, ExistsResponse, TypeOK
    <3>4. u \in Services
      BY DEF Found, Named, TypeOK
    <3> QED BY <3>3, <3>4 DEF ReturnVolume, Live, TypeOK
  <2>2. CASE CreateFileStorageShareACL(h)
    <3>1. ReturnVolume(h, uuid[h], want[h], TRUE) /\ uuid[h] \in Services
      BY <2>2 DEF CreateFileStorageShareACL, CreateResponse, ReturnFault, Fail, TypeOK
    <3> QED BY <3>1 DEF ReturnVolume, Live, TypeOK
  <2>3. CASE \/ Calls(h) \/ DiscoverClusterNetwork(h) \/ CreateFileStorage(h)
             \/ GetFileStorageShares(h) \/ ApiError(h) \/ Abandon(h) \/ Cancel(h)
    BY <2>3 DEF Calls, CreateVolume, DeleteVolume, ControllerExpandVolume, Call,
                DiscoverClusterNetwork, CreateFileStorage, GetFileStorageShares, ApiError,
                Abandon, Cancel, Continue, Goto, ReturnFault, Fail, TypeOK
  <2>4. CASE \/ WaitForFileStorageRunning(h) \/ ExpandFileStorage(h)
             \/ ModifyFileStorage(h) \/ DeleteFileStorage(h)
    BY <2>4 DEF WaitForFileStorageRunning, ExpandFileStorage, ModifyFileStorage,
                DeleteFileStorage, HandlerKnows, TypeOK
  <2>5. ASSUME NEW g \in Handlers, g # h, Calls(g) \/ Step(g) PROVE FALSE
    <3>1. pc' = [pc EXCEPT ![g] = pc'[g]]
      <4>1. CASE Calls(g)
        BY <4>1 DEF Calls, CreateVolume, DeleteVolume, ControllerExpandVolume, Call, TypeOK
      <4>2. CASE \/ GetFileStorages(g) \/ DiscoverClusterNetwork(g) \/ CreateFileStorage(g)
                 \/ WaitForFileStorageRunning(g) \/ GetFileStorageShares(g)
        BY <4>2 DEF GetFileStorages, DiscoverClusterNetwork, CreateFileStorage,
                    WaitForFileStorageRunning, GetFileStorageShares, CreateNew,
                    ExistsResponse, Continue, Goto, Fail, ReturnVolume, ReturnError, Return,
                    TypeOK
      <4>3. CASE \/ CreateFileStorageShareACL(g) \/ ExpandFileStorage(g)
                 \/ ModifyFileStorage(g) \/ DeleteFileStorage(g)
                 \/ ApiError(g) \/ Abandon(g) \/ Cancel(g)
        BY <4>3 DEF CreateFileStorageShareACL, CreateResponse, ExpandFileStorage,
                    ModifyFileStorage, DeleteFileStorage, ApiError, Abandon, Cancel,
                    Continue, Goto, Fail, ReturnFault, ReturnVolume, ReturnError, Return,
                    TypeOK
      <4> QED BY <2>5, <4>1, <4>2, <4>3 DEF Step
    <3> QED BY <2>5, <3>1 DEF TypeOK
  <2>6. CASE Environment
    BY <2>6 DEF Environment, ServiceStarts, ServiceDeleted, Lands, Crash
  <2> QED BY <2>1, <2>2, <2>3, <2>4, <2>5, <2>6 DEF Next, Step
<1> QED BY Invariance, <1>1, PTL DEF Spec, CreateRecovers

=============================================================================
