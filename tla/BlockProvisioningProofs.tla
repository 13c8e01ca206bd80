----------------------- MODULE BlockProvisioningProofs ----------------------
(***************************************************************************)
(* The properties of BlockProvisioning, for any number of goroutines,      *)
(* names and storages, any capacity and any source of a clone.             *)
(*                                                                         *)
(* A name has one volume because a call that found none is the only one    *)
(* that is waited for.  That CreateVolume answers with no other volume     *)
(* than before also holds for names with an abandoned create: a call that  *)
(* goes on to create knows that the volume it answered with is gone.       *)
(* Capacities are real because a storage never shrinks and CreateVolume    *)
(* answers for a clone only when the clone has grown.                      *)
(***************************************************************************)
EXTENDS BlockProvisioning, CapacityProofs, FiniteSetTheorems

\* A call has made its storage, by cloning, and has resized it.
Resized == {"resizeWait", "resizeFs", "deleteBackup", "finalWait"}
Cloned == {"cloneWait", "label", "labelWait", "resize"} \union Resized
Made == {"createWait"} \union Cloned

\* What a goroutine knows at each point of its RPC.
HandlerKnows ==
    \A h \in Handlers :
        /\ pc[h] = "idle" => name[h] = NoName /\ op[h] = "none" /\ h \notin awaited
        /\ pc[h] # "idle" => name[h] \in Names
        /\ pc[h] \in {"list", "details", "create", "source", "sourceWait", "clone"} \union Made
           => op[h] = "create"
        /\ pc[h] = "create" => want[h] = RequestedBytes(name[h])
        /\ pc[h] \in {"source", "sourceWait", "clone"} \union Cloned => req[name[h]].clone
        /\ pc[h] = "create" => ~ req[name[h]].clone
        /\ pc[h] \in {"lookup", "modify", "modifyWait"} => op[h] = "expand"
        /\ pc[h] = "delete" => op[h] = "delete"
        /\ pc[h] \in {"lookup", "modify", "modifyWait", "delete", "details"} \union Made
           => uuid[h] \in used

\* CreateVolume works on a storage with its title.
WorksOnItsOwn ==
    \A h \in Handlers : pc[h] \in {"details"} \union Made => title[uuid[h]] = name[h]

\* What was made or modified has the size that was asked for.
HasItsSize ==
    \A h \in Handlers : pc[h] \in {"createWait", "modifyWait"} \union Resized
                        => SizeGB(want[h]) <= sizeGB[uuid[h]]

\* The provisioner waits for one call per name.
OneCallPerName ==
    \A g, h \in awaited : name[g] = name[h] => g = h

WireIsDisturbed == wire \subseteq disturbed

\* Between the lookup and the create nobody else creates under the name.
StillMissing ==
    \A h \in awaited :
        pc[h] \in {"create", "source", "sourceWait", "clone"} /\ name[h] \notin disturbed
        => \A u \in storages : title[u] # name[h]

TitledOnce ==
    \A u, v \in storages : title[u] = title[v] /\ title[u] \in Names \ disturbed => u = v

\* UUIDs are not reused: what a name is bound to was made for it.
BoundIsItsOwn ==
    \A n \in Names : bound[n] # NoStorage => bound[n] \in used /\ title[bound[n]] = n

\* ControllerExpandVolume and DeleteVolume are about the volume of the name.
ActsOnBound ==
    \A h \in awaited : op[h] \in {"expand", "delete"} => uuid[h] = bound[name[h]]

\* A call that creates found no volume, so the one answered with before is gone;
\* a call that found one volume found that one.
CreatesWhenGone ==
    \A h \in awaited :
        op[h] = "create" /\ pc[h] # "list" /\ bound[name[h]] \in storages
        => pc[h] = "details" /\ uuid[h] = bound[name[h]]

\* Only a bound volume is expanded.
UnboundIsAsRequested ==
    \A u \in storages :
        /\ title[u] \in Names \ disturbed
        /\ ~ req[title[u]].clone
        /\ bound[title[u]] # u
        => sizeGB[u] = SizeGB(RequestedBytes(title[u]))

\* A storage of gb GiB has the bytes, up to a part of a GiB.
Holds(gb, bytes) == bytes < (gb + 1) * giB

GrantedIsReal ==
    /\ \A u \in Storages \ used : granted[u] = 0
    /\ \A u \in used : Holds(sizeGB[u], granted[u])

\* Every call that is about to delete its backup has one to delete.
BackupsCounted ==
    Cardinality({h \in Handlers : pc[h] = "deleteBackup"}) <= backups

Knowledge == HandlerKnows /\ WorksOnItsOwn /\ HasItsSize

IInv == /\ TypeOK
        /\ Knowledge
        /\ OneCallPerName
        /\ WireIsDisturbed
        /\ StillMissing
        /\ TitledOnce
        /\ BoundIsItsOwn
        /\ ActsOnBound
        /\ CreatesWhenGone
        /\ UnboundIsAsRequested
        /\ GrantedIsReal
        /\ BackupsCounted

-----------------------------------------------------------------------------

\* Capacities and sizes are within the maximum.
LEMMA SizesBounded ==
  /\ 0 \in Capacities /\ 0 \in 0 .. MaxGB /\ SourceGB \in 0 .. MaxGB
  /\ Capacities \subseteq Nat /\ 0 .. MaxGB \subseteq Nat
  /\ \A w \in Capacities : SizeGB(w) \in 0 .. MaxGB
<1>1. ASSUME NEW w \in Capacities PROVE SizeGB(w) \in 0 .. MaxGB
  <2>1. w \in Nat /\ maxBytes \in Nat /\ w <= maxBytes
    BY CapacityAssumption DEF Capacities
  <2>2. SizeGB(w) \in Nat /\ SizeGB(maxBytes) \in Nat /\ SizeGB(w) <= SizeGB(maxBytes)
    BY <2>1, SizeDivides, SizeMonotone
  <2> QED BY <2>2, ProvisionAssumption
<1> QED BY <1>1, CapacityAssumption, ProvisionAssumption DEF Capacities

\* The ranges of all requests yield a capacity.
LEMMA RangesBounded ==
  /\ \A r \in Requests : ValidateCapacityRange(r.required, r.limit) \in Capacities
  /\ \A r \in ExpandRanges : ValidateCapacityRange(r.required, r.limit) \in Capacities
<1>1. ASSUME NEW r \in Requests
      PROVE  ValidateCapacityRange(r.required, r.limit) \in Capacities
  <2>1. r.required \in Int /\ r.limit \in Int
    <3>1. r \in [required : Int, limit : Int, clone : BOOLEAN]
      BY ProvisionAssumption
    <3> QED BY <3>1
  <2> QED BY <2>1, CapacityType DEF Capacities
<1>2. ASSUME NEW r \in ExpandRanges
      PROVE  ValidateCapacityRange(r.required, r.limit) \in Capacities
  <2>1. r.required \in Int /\ r.limit \in Int
    BY ProvisionAssumption
  <2> QED BY <2>1, CapacityType DEF Capacities
<1> QED BY <1>1, <1>2

\* The request of a name asks for a number of bytes.
LEMMA RequestedBounded ==
  ASSUME TypeOK, NEW n \in Names
  PROVE  RequestedBytes(n) \in Capacities
  BY RangesBounded DEF TypeOK, RequestedBytes

\* When a storage has the bytes.
LEMMA HoldsFacts ==
  /\ \A gb \in Nat : gb * giB \in Nat /\ Holds(gb, 0) /\ Holds(gb, gb * giB)
  /\ \A bytes \in Nat, gb \in Nat :
        SizeGB(bytes) <= gb => Holds(gb, bytes) /\ Holds(gb, SizeGB(bytes) * giB)
  /\ \A bytes \in Nat, s \in Nat, t \in Nat : s <= t /\ Holds(s, bytes) => Holds(t, bytes)
<1>1. ASSUME NEW gb \in Nat PROVE gb * giB \in Nat /\ Holds(gb, 0) /\ Holds(gb, gb * giB)
  <2>1. gb * giB \in Nat /\ (gb + 1) * giB = gb * giB + giB
    BY SizeScales
  <2> QED BY <2>1, CapacityAssumption DEF Holds
<1>2. ASSUME NEW bytes \in Nat, NEW gb \in Nat, SizeGB(bytes) <= gb
      PROVE  Holds(gb, bytes) /\ Holds(gb, SizeGB(bytes) * giB)
  BY <1>2, SizeRoundsDown DEF Holds
<1>3. ASSUME NEW bytes \in Nat, NEW s \in Nat, NEW t \in Nat, s <= t, Holds(s, bytes)
      PROVE  Holds(t, bytes)
  <2>1. s + 1 \in Nat /\ t + 1 \in Nat /\ s + 1 <= t + 1
    BY <1>3
  <2>2. /\ (s + 1) * giB <= (t + 1) * giB
        /\ (s + 1) * giB \in Nat /\ (t + 1) * giB \in Nat
    BY <2>1, SizeScales
  <2> QED BY <1>3, <2>2 DEF Holds
<1> QED BY <1>1, <1>2, <1>3

\* The state before the first RPC satisfies the invariant.
LEMMA InitIInv == Init => IInv
<1> SUFFICES ASSUME Init PROVE IInv
  OBVIOUS
<1> USE ProvisionAssumption DEF Init, Resized, Cloned, Made
<1>1. TypeOK
  BY SizesBounded DEF TypeOK, PCName, Waiting
<1>2. Knowledge /\ OneCallPerName /\ WireIsDisturbed /\ StillMissing /\ TitledOnce
  BY DEF Knowledge, HandlerKnows, WorksOnItsOwn, HasItsSize, OneCallPerName,
         WireIsDisturbed, StillMissing, TitledOnce
<1>3. BoundIsItsOwn /\ ActsOnBound /\ CreatesWhenGone /\ UnboundIsAsRequested
  BY DEF BoundIsItsOwn, ActsOnBound, CreatesWhenGone, UnboundIsAsRequested
<1>4. GrantedIsReal
  <2>1. Holds(SourceGB, 0)
    BY HoldsFacts
  <2>2. \A u \in used : sizeGB[u] = SourceGB /\ granted[u] = 0
    OBVIOUS
  <2>3. \A u \in Storages : granted[u] = 0
    OBVIOUS
  <2> HIDE DEF Init
  <2> QED BY <2>1, <2>2, <2>3 DEF GrantedIsReal
<1>5. BackupsCounted
  <2>1. {h \in Handlers : pc[h] = "deleteBackup"} = {} /\ backups = 0
    OBVIOUS
  <2> HIDE DEF Init
  <2>2. Cardinality({h \in Handlers : pc[h] = "deleteBackup"}) = 0
    BY <2>1, FS_EmptySet
  <2> QED BY <2>1, <2>2 DEF BackupsCounted
<1> QED BY <1>1, <1>2, <1>3, <1>4, <1>5 DEF IInv

\* The plugin's and the provisioner's part of TypeOK.
CallsOK ==
    /\ pc \in [Handlers -> PCName]
    /\ op \in [Handlers -> {"none", "create", "expand", "delete"}]
    /\ name \in [Handlers -> Names \union {NoName}]
    /\ uuid \in [Handlers -> Storages \union {NoStorage}]
    /\ want \in [Handlers -> Capacities]
    /\ awaited \subseteq Handlers
    /\ bound \in [Names -> Storages \union {NoStorage}]
    /\ granted \in [Storages -> Nat]
    /\ troubled \subseteq Handlers

\* However an RPC ends or goes on, that part stays well typed.
LEMMA CallTypes ==
  ASSUME TypeOK, NEW h \in Handlers, name[h] \in Names,
         \/ \E u \in Storages, bytes \in Nat : ReturnVolume(h, u, bytes)
         \/ ReturnFault(h)
         \/ ReturnError(h)
         \/ \E next \in PCName, u \in Storages \union {NoStorage}, w \in Capacities :
              Goto(h, next, u, w)
  PROVE  CallsOK'
<1> 0 \in Capacities /\ Capacities \subseteq Nat
  BY SizesBounded
<1>1. ASSUME NEW next \in PCName, NEW u \in Storages \union {NoStorage},
             NEW w \in Capacities, Goto(h, next, u, w)
      PROVE  CallsOK'
  BY <1>1 DEF TypeOK, CallsOK, Goto, request, known
<1>2. CASE ReturnFault(h) \/ ReturnError(h)
  BY <1>2 DEF TypeOK, CallsOK, ReturnFault, ReturnError, Return, PCName, known
<1>3. ASSUME NEW u \in Storages, NEW bytes \in Nat, ReturnVolume(h, u, bytes) PROVE CallsOK'
  <2>1. /\ pc' \in [Handlers -> PCName]
        /\ op' \in [Handlers -> {"none", "create", "expand", "delete"}]
        /\ name' \in [Handlers -> Names \union {NoName}]
        /\ uuid' \in [Handlers -> Storages \union {NoStorage}]
        /\ want' \in [Handlers -> Capacities]
        /\ awaited' \subseteq Handlers
    BY <1>3 DEF TypeOK, ReturnVolume, Return, PCName
  <2>2. /\ bound' \in [Names -> Storages \union {NoStorage}]
        /\ granted' \in [Storages -> Nat]
        /\ troubled' \subseteq Handlers
    BY <1>3 DEF TypeOK, ReturnVolume
  <2> QED BY <2>1, <2>2 DEF CallsOK
<1> QED BY <1>1, <1>2, <1>3

\* A storage is made, or it grows.
LEMMA CloudTypes ==
  ASSUME TypeOK, NEW u \in Storages, NEW n \in Names, NEW gb \in 0 .. MaxGB,
         NewStorage(u, n, gb) \/ Modify(u, gb)
  PROVE  /\ storages' \subseteq used' /\ used' \subseteq Storages
         /\ title' \in [Storages -> Names \union {NoName}]
         /\ sizeGB' \in [Storages -> 0 .. MaxGB]
         /\ state' \in [Storages -> {"online", "maintenance"}]
         /\ storages \subseteq storages'
  BY DEF TypeOK, NewStorage, Modify

\* A call that is about to delete its backup has one to delete.
LEMMA BackupToDelete ==
  ASSUME TypeOK, BackupsCounted, NEW h \in Handlers, pc[h] = "deleteBackup"
  PROVE  /\ backups - 1 \in 0 .. MaxBackups
         /\ Cardinality({g \in Handlers : pc[g] = "deleteBackup"} \ {h}) <= backups - 1
<1> DEFINE D == {g \in Handlers : pc[g] = "deleteBackup"}
<1>1. IsFiniteSet(D) /\ h \in D
  BY ProvisionAssumption, FS_Subset
<1>2. Cardinality(D \ {h}) = Cardinality(D) - 1 /\ IsFiniteSet(D \ {h})
  BY <1>1, FS_RemoveElement
<1>3. Cardinality(D) \in Nat /\ Cardinality(D \ {h}) \in Nat
  BY <1>1, <1>2, FS_CardinalityType
<1> QED BY <1>2, <1>3, ProvisionAssumption DEF BackupsCounted, TypeOK

\* Every step leaves the state well typed.
LEMMA TypeStep == TypeOK /\ HandlerKnows /\ BackupsCounted /\ [Next]_vars => TypeOK'
<1> SUFFICES ASSUME TypeOK, HandlerKnows, BackupsCounted, [Next]_vars PROVE TypeOK'
  OBVIOUS
<1> DEFINE CloudOK == /\ storages \subseteq used /\ used \subseteq Storages
                      /\ title \in [Storages -> Names \union {NoName}]
                      /\ sizeGB \in [Storages -> 0 .. MaxGB]
                      /\ state \in [Storages -> {"online", "maintenance"}]
           SideOK == /\ wire \subseteq Names
                     /\ req \in [Names -> Requests]
                     /\ disturbed \subseteq Names
<1>0. CallsOK' /\ CloudOK' /\ SideOK' /\ attached' \subseteq storages'
      /\ backups' \in 0 .. MaxBackups => TypeOK'
  BY DEF CallsOK, TypeOK
<1>a. SideOK /\ CloudOK /\ attached \subseteq storages /\ backups \in 0 .. MaxBackups
  BY DEF TypeOK
<1>b. \A h \in Handlers : /\ want[h] \in Capacities /\ want[h] \in Nat /\ SizeGB(want[h]) \in 0 .. MaxGB
                          /\ uuid[h] \in Storages \union {NoStorage}
  BY SizesBounded DEF TypeOK
<1>c. \A u \in Storages : sizeGB[u] \in 0 .. MaxGB /\ sizeGB[u] * giB \in Nat
  BY SizesBounded, HoldsFacts DEF TypeOK
<1>d. UNCHANGED cloud => CloudOK' /\ (UNCHANGED attached => attached' \subseteq storages')
  BY <1>a DEF cloud
<1>e. UNCHANGED side => SideOK' /\ attached' = attached /\ backups' \in 0 .. MaxBackups
  BY <1>a DEF side
<1>f. ASSUME NEW u \in Storages, NEW n \in Names, NEW gb \in 0 .. MaxGB,
             NewStorage(u, n, gb) \/ Modify(u, gb)
      PROVE  CloudOK' /\ (attached' = attached => attached' \subseteq storages')
  BY <1>a, <1>f, CloudTypes
<1>g. ASSUME NEW h \in Handlers, NEW next \in PCName, name[h] \in Names,
             Continue(h, next) \/ Then(h, next)
      PROVE  CallsOK'
  BY <1>b, <1>g, CallTypes DEF Continue, Then
<1> HIDE DEF CloudOK, SideOK
<1>1. ASSUME NEW h \in Handlers, Calls(h) PROVE TypeOK'
  <2>1. CallsOK'
    BY <1>1, RangesBounded DEF Calls, CreateVolume, DeleteVolume, ControllerExpandVolume, Call, TypeOK,
                CallsOK, PCName, known
  <2>2. UNCHANGED <<cloud, side>>
    BY <1>1 DEF Calls, CreateVolume, DeleteVolume, ControllerExpandVolume, Call
  <2> QED BY <1>0, <1>d, <1>e, <2>1, <2>2
<1>2. ASSUME NEW h \in Handlers, GetBlockStorageByName(h) PROVE TypeOK'
  <2>1. name[h] \in Names /\ RequestedBytes(name[h]) \in Capacities
    BY <1>2, RequestedBounded DEF GetBlockStorageByName, HandlerKnows
  <2>2. CallsOK'
    BY <1>2, <2>1, CallTypes, SizesBounded DEF GetBlockStorageByName, CreateNew, PCName
  <2> QED BY <1>0, <1>2, <1>d, <1>e, <2>2 DEF GetBlockStorageByName
<1>3. ASSUME NEW h \in Handlers, CreateVolumeExistsResponse(h) PROVE TypeOK'
  <2>1. name[h] \in Names /\ uuid[h] \in Storages
    BY <1>3, <1>a DEF CreateVolumeExistsResponse, HandlerKnows, CloudOK
  <2>2. CallsOK'
    BY <1>3, <1>c, <2>1, CallTypes DEF CreateVolumeExistsResponse
  <2> QED BY <1>0, <1>3, <1>d, <1>e, <2>2 DEF CreateVolumeExistsResponse
<1>4. ASSUME NEW h \in Handlers, CreateBlockStorage(h) PROVE TypeOK'
  <2>1. name[h] \in Names
    BY <1>4 DEF CreateBlockStorage, HandlerKnows
  <2>2. PICK u \in Storages : /\ NewStorage(u, name[h], SizeGB(want[h]))
                              /\ Goto(h, "createWait", u, want[h]) \/ ReturnFault(h)
    BY <1>4 DEF CreateBlockStorage
  <2>3. CallsOK'
    BY <1>b, <2>1, <2>2, CallTypes DEF PCName, Waiting
  <2>4. CloudOK' /\ (attached' = attached => attached' \subseteq storages')
    BY <1>b, <1>f, <2>1, <2>2
  <2> QED BY <1>0, <1>4, <1>e, <2>3, <2>4 DEF CreateBlockStorage
<1>5. ASSUME NEW h \in Handlers, FindSource(h) PROVE TypeOK'
  <2>1. name[h] \in Names
    BY <1>5 DEF FindSource, HandlerKnows
  <2>2. CallsOK'
    BY <1>5, <1>b, <2>1, CallTypes, ProvisionAssumption DEF FindSource, PCName, Waiting
  <2> QED BY <1>0, <1>5, <1>d, <1>e, <2>2 DEF FindSource
<1>6. ASSUME NEW h \in Handlers, CloneBlockStorage(h) PROVE TypeOK'
  <2>1. name[h] \in Names
    BY <1>6 DEF CloneBlockStorage, HandlerKnows
  <2>2. PICK u \in Storages : /\ NewStorage(u, name[h], sizeGB[Source])
                              /\ Goto(h, "cloneWait", u, want[h]) \/ ReturnFault(h)
    BY <1>6 DEF CloneBlockStorage
  <2>3. CallsOK'
    BY <1>b, <2>1, <2>2, CallTypes DEF PCName, Waiting
  <2>4. CloudOK' /\ (attached' = attached => attached' \subseteq storages')
    BY <1>c, <1>f, <2>1, <2>2, ProvisionAssumption
  <2> QED BY <1>0, <1>6, <1>e, <2>3, <2>4 DEF CloneBlockStorage
<1>7. ASSUME NEW h \in Handlers, NEW next \in PCName, NEW gb \in 0 .. MaxGB,
             pc[h] # "idle", Modify(uuid[h], gb), Then(h, next), UNCHANGED side
      PROVE  TypeOK'
  <2>1. name[h] \in Names /\ uuid[h] \in Storages
    BY <1>7, <1>a DEF HandlerKnows, CloudOK, Modify
  <2> QED BY <1>0, <1>7, <1>e, <1>f, <1>g, <2>1
<1>8. ASSUME NEW h \in Handlers, LabelClone(h) \/ ResizeClone(h) \/ ResizeBlockDevice(h)
      PROVE  TypeOK'
  <2>1. {"labelWait", "resizeWait", "modifyWait"} \subseteq PCName
    BY DEF PCName, Waiting
  <2>2. uuid[h] \in storages => sizeGB[uuid[h]] \in 0 .. MaxGB
    BY <1>a, <1>c DEF CloudOK
  <2> QED BY <1>7, <1>8, <1>b, <2>1, <2>2 DEF LabelClone, ResizeClone, ResizeBlockDevice, Modify
<1>9. ASSUME NEW h \in Handlers, ResizeStorageFilesystem(h) \/ DeleteResizeBackup(h)
      PROVE  TypeOK'
  <2>1. CallsOK'
    <3>1. name[h] \in Names /\ {"deleteBackup", "finalWait"} \subseteq PCName
      BY <1>9 DEF ResizeStorageFilesystem, DeleteResizeBackup, HandlerKnows, PCName, Waiting
    <3> QED BY <1>9, <1>g, <3>1 DEF ResizeStorageFilesystem, DeleteResizeBackup
  <2>2. backups' \in 0 .. MaxBackups
    <3>1. CASE ResizeStorageFilesystem(h)
      BY <1>a, <3>1, ProvisionAssumption DEF ResizeStorageFilesystem
    <3>2. CASE DeleteResizeBackup(h)
      BY <3>2, BackupToDelete DEF DeleteResizeBackup
    <3> QED BY <1>9, <3>1, <3>2
  <2>3. UNCHANGED <<cloud, attached, wire, req, disturbed>>
    BY <1>9 DEF ResizeStorageFilesystem, DeleteResizeBackup
  <2> QED BY <1>0, <1>a, <1>d, <2>1, <2>2, <2>3 DEF SideOK
<1>10. ASSUME NEW h \in Handlers, ExpandBlockStorage(h) PROVE TypeOK'
  <2>1. name[h] \in Names /\ "modify" \in PCName /\ (uuid[h] \in storages => uuid[h] \in Storages)
    BY <1>10, <1>a DEF ExpandBlockStorage, HandlerKnows, PCName, CloudOK
  <2>2. CallsOK'
    BY <1>10, <1>c, <1>g, <2>1, CallTypes DEF ExpandBlockStorage
  <2> QED BY <1>0, <1>10, <1>d, <1>e, <2>2 DEF ExpandBlockStorage
<1>11. ASSUME NEW h \in Handlers, DeleteBlockStorage(h) PROVE TypeOK'
  <2>1. name[h] \in Names
    BY <1>11 DEF DeleteBlockStorage, HandlerKnows
  <2>2. CallsOK'
    <3>1. CASE ReturnFault(h)
      BY <2>1, <3>1, CallTypes
    <3>2. CASE ~ ReturnFault(h)
      BY <1>11, <3>2, SizesBounded DEF DeleteBlockStorage, Return, CallsOK, TypeOK, PCName
    <3> QED BY <3>1, <3>2
  <2>3. CloudOK' /\ attached' \subseteq storages'
    BY <1>11, <1>a DEF DeleteBlockStorage, CloudOK, side
  <2> QED BY <1>0, <1>11, <1>e, <2>2, <2>3 DEF DeleteBlockStorage
<1>12. ASSUME NEW h \in Handlers, WaitForStorageOnline(h) PROVE TypeOK'
  <2>1. name[h] \in Names /\ uuid[h] \in Storages /\ UNCHANGED <<cloud, side>>
    BY <1>12, <1>a DEF WaitForStorageOnline, HandlerKnows, Waiting, CloudOK
  <2>2. CASE LastWait(h)
    <3>1. SizeGB(want[h]) * giB \in Nat /\ want[h] \in Nat
      BY <1>b, SizesBounded, HoldsFacts
    <3>2. CallsOK'
      BY <1>12, <2>1, <2>2, <3>1, CallTypes DEF WaitForStorageOnline
    <3> QED BY <1>0, <1>d, <1>e, <2>1, <3>2
  <2>3. CASE ~ LastWait(h)
    <3>1. \E next \in PCName : Continue(h, next)
      BY <1>12, <2>3 DEF WaitForStorageOnline, LastWait, Waiting, PCName
    <3>2. CallsOK'
      BY <1>g, <2>1, <3>1
    <3> QED BY <1>0, <1>d, <1>e, <2>1, <3>2
  <2> QED BY <2>2, <2>3
<1>13. ASSUME NEW h \in Handlers, DetailsFail(h) \/ ApiError(h) \/ Abandon(h) \/ Cancel(h)
       PROVE  TypeOK'
  BY <1>13, SizesBounded DEF DetailsFail, ApiError, Abandon, Cancel, ReturnFault, Return,
              HandlerKnows, TypeOK, PCName, cloud, side, known
<1>14. ASSUME Crash PROVE TypeOK'
  BY <1>14, SizesBounded DEF Crash, TypeOK, PCName, cloud, side, known
<1>15. ASSUME NEW u \in Storages, StorageSettles(u) \/ AttachmentChanges(u) \/ StorageDeleted(u)
       PROVE  TypeOK'
  BY <1>15 DEF StorageSettles, AttachmentChanges, StorageDeleted, TypeOK, request, cloud, side,
               known
<1>16. ASSUME NEW n \in Names, Lands(n) PROVE TypeOK'
  <2>1. CallsOK' /\ SideOK' /\ attached' = attached /\ backups' \in 0 .. MaxBackups
    BY <1>16, <1>a DEF Lands, CallsOK, SideOK, TypeOK, request, known
  <2>2. SizeGB(RequestedBytes(n)) \in 0 .. MaxGB /\ sizeGB[Source] \in 0 .. MaxGB
    BY <1>c, RequestedBounded, SizesBounded, ProvisionAssumption
  <2>3. CloudOK' /\ attached' \subseteq storages'
    BY <1>16, <1>d, <1>f, <2>1, <2>2 DEF Lands
  <2> QED BY <1>0, <2>1, <2>3
<1>17. CASE UNCHANGED vars
  BY <1>17 DEF vars, TypeOK
<1> QED
  BY <1>1, <1>2, <1>3, <1>4, <1>5, <1>6, <1>8, <1>9, <1>10, <1>11, <1>12, <1>13, <1>14,
     <1>15, <1>16, <1>17
  DEF Next, Step, CreateStep, CloneStep, Environment

\* The provisioner repeats its request unchanged.
LEMMA RequestsStay ==
  ASSUME [Next]_vars
  PROVE  req' = req /\ \A n \in Names : RequestedBytes(n)' = RequestedBytes(n)
<1>1. ASSUME NEW h \in Handlers, Calls(h) PROVE req' = req
  BY <1>1 DEF Calls, CreateVolume, DeleteVolume, ControllerExpandVolume, Call, side
<1>2. ASSUME NEW h \in Handlers, CreateStep(h) \/ CloneStep(h) PROVE req' = req
  BY <1>2 DEF CreateStep, GetBlockStorageByName, CreateVolumeExistsResponse,
              CreateBlockStorage, DetailsFail, CloneStep, FindSource,
              CloneBlockStorage, LabelClone, ResizeClone, ResizeStorageFilesystem,
              DeleteResizeBackup, side
<1>3. ASSUME NEW h \in Handlers, Step(h), ~ CreateStep(h), ~ CloneStep(h) PROVE req' = req
  BY <1>3 DEF Step, ExpandBlockStorage, ResizeBlockDevice, DeleteBlockStorage,
              WaitForStorageOnline, ApiError, Abandon, Cancel, side
<1>4. ASSUME Environment PROVE req' = req
  BY <1>4 DEF Environment, StorageSettles, AttachmentChanges, StorageDeleted, Lands, Crash,
              side
<1>5. req' = req
  BY <1>1, <1>2, <1>3, <1>4 DEF Next, vars
<1> QED BY <1>5 DEF RequestedBytes

\* The count of backups only has to be looked at where one is made or deleted.
LEMMA BackupsStay ==
  ASSUME TypeOK, BackupsCounted, backups' = backups,
         \A h \in Handlers : pc'[h] = "deleteBackup" => pc[h] = "deleteBackup"
  PROVE  BackupsCounted'
<1> DEFINE D == {h \in Handlers : pc[h] = "deleteBackup"}
<1>1. D' \in SUBSET D
  OBVIOUS
<1>2. IsFiniteSet(D)
  BY ProvisionAssumption, FS_Subset
<1>3. Cardinality(D') <= Cardinality(D) /\ Cardinality(D') \in Nat /\ Cardinality(D) \in Nat
  BY <1>1, <1>2, FS_Subset, FS_CardinalityType
<1> QED BY <1>3 DEF BackupsCounted, TypeOK

\* A call begins: it is the only one for its name that is waited for.
LEMMA CallStep ==
  ASSUME IInv, TypeOK', NEW h \in Handlers, Calls(h), req' = req
  PROVE  IInv'
<1> USE DEF IInv, Knowledge
<1>1. PICK n \in Names, o \in {"create", "expand", "delete"},
            u \in Storages \union {NoStorage}, first \in {"list", "lookup", "delete"} :
        /\ Call(h, o, n, u, first)
        /\ \/ first = "list" /\ o = "create" /\ u = NoStorage
           \/ first = "lookup" /\ o = "expand" /\ u = bound[n] /\ u # NoStorage
           \/ first = "delete" /\ o = "delete" /\ u = bound[n] /\ u # NoStorage
        /\ \A g \in Handlers : g # h => want'[g] = want[g]
  BY DEF Calls, CreateVolume, DeleteVolume, ControllerExpandVolume, TypeOK
<1> USE <1>1 DEF Call, cloud, side, known, Made, Cloned, Resized
<1>2. HandlerKnows'
  BY DEF TypeOK, HandlerKnows, BoundIsItsOwn, RequestedBytes
<1>3. WorksOnItsOwn' /\ HasItsSize'
  BY DEF TypeOK, WorksOnItsOwn, HasItsSize
<1>4. OneCallPerName' /\ WireIsDisturbed' /\ StillMissing' /\ TitledOnce'
  BY DEF TypeOK, OneCallPerName, WireIsDisturbed, StillMissing, TitledOnce
<1>5. BoundIsItsOwn' /\ ActsOnBound' /\ CreatesWhenGone'
  BY DEF TypeOK, BoundIsItsOwn, ActsOnBound, CreatesWhenGone
<1>6. UnboundIsAsRequested' /\ GrantedIsReal'
  BY DEF UnboundIsAsRequested, RequestedBytes, GrantedIsReal
<1>7. BackupsCounted'
  BY BackupsStay DEF TypeOK
<1> QED BY <1>2, <1>3, <1>4, <1>5, <1>6, <1>7

\* A call ends without an answer, or nobody waits for it any more.
LEMMA EndStep ==
  ASSUME IInv, TypeOK', NEW h \in Handlers,
         \/ Return(h)
         \/ awaited' = awaited \ {h} /\ UNCHANGED <<pc, op, name, uuid, want>>,
         UNCHANGED <<cloud, known, req>>, backups' = backups \/ BackupsCounted',
         disturbed \subseteq disturbed', wire' \subseteq disturbed'
  PROVE  IInv'
<1> USE DEF IInv, Knowledge, Return, cloud, known, Made, Cloned, Resized
<1>1. HandlerKnows'
  BY DEF TypeOK, HandlerKnows, RequestedBytes
<1>2. WorksOnItsOwn' /\ HasItsSize'
  BY DEF TypeOK, WorksOnItsOwn, HasItsSize
<1>3. OneCallPerName' /\ WireIsDisturbed' /\ StillMissing' /\ TitledOnce'
  BY DEF TypeOK, OneCallPerName, WireIsDisturbed, StillMissing, TitledOnce
<1>4. BoundIsItsOwn' /\ ActsOnBound' /\ CreatesWhenGone'
  BY DEF TypeOK, BoundIsItsOwn, ActsOnBound, CreatesWhenGone
<1>5. UnboundIsAsRequested' /\ GrantedIsReal'
  BY DEF UnboundIsAsRequested, RequestedBytes, GrantedIsReal
<1>6. BackupsCounted'
  BY BackupsStay DEF TypeOK
<1> QED BY <1>1, <1>2, <1>3, <1>4, <1>5, <1>6

\* A volume is answered with: of its title, with a capacity it has, and the same
\* as before if that one exists.
LEMMA AnswerStep ==
  ASSUME IInv, TypeOK', NEW h \in Handlers, h \in awaited, name[h] \in Names, NEW bytes \in Nat,
         uuid[h] \in used, title[uuid[h]] = name[h],
         Holds(sizeGB[uuid[h]], bytes),
         bound[name[h]] \in storages => bound[name[h]] = uuid[h],
         ReturnVolume(h, uuid[h], bytes), UNCHANGED <<cloud, side>>
  PROVE  IInv'
<1> USE DEF IInv, Knowledge, cloud, side, Made, Cloned, Resized
<1>1. /\ Return(h)
      /\ bound' = [bound EXCEPT ![name[h]] = uuid[h]]
      /\ granted' = [granted EXCEPT ![uuid[h]] = bytes]
      /\ uuid[h] \in Storages /\ uuid[h] # NoStorage
  BY ProvisionAssumption DEF ReturnVolume, Live, TypeOK
<1> USE <1>1 DEF Return
<1>2. HandlerKnows'
  BY DEF TypeOK, HandlerKnows, RequestedBytes
<1>3. WorksOnItsOwn' /\ HasItsSize'
  BY DEF TypeOK, WorksOnItsOwn, HasItsSize
<1>4. OneCallPerName' /\ WireIsDisturbed' /\ StillMissing' /\ TitledOnce'
  BY DEF TypeOK, OneCallPerName, WireIsDisturbed, StillMissing, TitledOnce
<1>5. BoundIsItsOwn' /\ ActsOnBound' /\ CreatesWhenGone'
  BY DEF TypeOK, BoundIsItsOwn, ActsOnBound, CreatesWhenGone, OneCallPerName, HandlerKnows
<1>6. UnboundIsAsRequested'
  BY DEF TypeOK, UnboundIsAsRequested, RequestedBytes
<1>7. GrantedIsReal'
  BY DEF TypeOK, GrantedIsReal
<1>8. BackupsCounted'
  BY BackupsStay DEF TypeOK
<1> QED BY <1>2, <1>3, <1>4, <1>5, <1>6, <1>7, <1>8

\* The lookup: with one volume of the title a call looks at it, with none it goes
\* on to create one, and then the volume answered with before is gone.
LEMMA ListStep ==
  ASSUME IInv, TypeOK', NEW h \in Handlers, GetBlockStorageByName(h), req' = req
  PROVE  IInv'
<1> USE DEF IInv, Knowledge, Made, Cloned, Resized, cloud, side, known, request
<1>1. /\ pc[h] = "list" /\ h \in awaited /\ name[h] \in Names /\ op[h] = "create"
      /\ UNCHANGED <<cloud, side>>
  BY DEF GetBlockStorageByName, Live, HandlerKnows
<1>2. CASE ReturnError(h)
  BY <1>1, <1>2, EndStep DEF ReturnError, WireIsDisturbed
<1>3. ASSUME NEW u \in Storages, Titled(name[h]) = {u}, Goto(h, "details", u, 0)
      PROVE  IInv'
  <2>1. /\ u \in storages /\ title[u] = name[h]
        /\ bound[name[h]] \in storages => bound[name[h]] = u
    <3>1. \A v \in storages : title[v] = name[h] <=> v = u
      BY <1>3 DEF Titled
    <3>2. u \in Titled(name[h])
      BY <1>3
    <3>3. u \in storages /\ title[u] = name[h]
      BY <3>2 DEF Titled
    <3> QED BY <1>1, <3>1, <3>3, ProvisionAssumption DEF BoundIsItsOwn, TypeOK
  <2> USE <1>1, <1>3, <2>1 DEF Goto
  <2>2. HandlerKnows'
    BY DEF TypeOK, HandlerKnows, RequestedBytes
  <2>3. WorksOnItsOwn' /\ HasItsSize'
    BY DEF TypeOK, WorksOnItsOwn, HasItsSize
  <2>4. OneCallPerName' /\ WireIsDisturbed' /\ StillMissing' /\ TitledOnce'
    BY DEF TypeOK, OneCallPerName, WireIsDisturbed, StillMissing, TitledOnce
  <2>5. BoundIsItsOwn' /\ ActsOnBound' /\ CreatesWhenGone'
    BY DEF TypeOK, BoundIsItsOwn, ActsOnBound, CreatesWhenGone
  <2>6. UnboundIsAsRequested' /\ GrantedIsReal'
    BY DEF UnboundIsAsRequested, RequestedBytes, GrantedIsReal
  <2>7. BackupsCounted'
    BY BackupsStay DEF TypeOK
  <2> QED BY <2>2, <2>3, <2>4, <2>5, <2>6, <2>7
<1>4. CASE Titled(name[h]) = {} /\ CreateNew(h)
  <2>1. \A v \in storages : title[v] # name[h]
    BY <1>4 DEF Titled
  <2>2. bound[name[h]] \notin storages
    BY <1>1, <2>1, ProvisionAssumption DEF BoundIsItsOwn, TypeOK
  <2>3. PICK first : /\ Goto(h, first, NoStorage, RequestedBytes(name[h]))
                     /\ \/ first = "source" /\ req[name[h]].clone
                        \/ first = "create" /\ ~ req[name[h]].clone
    BY <1>4 DEF CreateNew
  <2> USE <1>1, <2>1, <2>2, <2>3 DEF Goto
  <2>4. HandlerKnows'
    BY DEF TypeOK, HandlerKnows, RequestedBytes
  <2>5. WorksOnItsOwn' /\ HasItsSize'
    BY DEF TypeOK, WorksOnItsOwn, HasItsSize
  <2>6. OneCallPerName' /\ WireIsDisturbed' /\ StillMissing' /\ TitledOnce'
    BY DEF TypeOK, OneCallPerName, WireIsDisturbed, StillMissing, TitledOnce
  <2>7. BoundIsItsOwn' /\ ActsOnBound' /\ CreatesWhenGone'
    BY DEF TypeOK, BoundIsItsOwn, ActsOnBound, CreatesWhenGone
  <2>8. UnboundIsAsRequested' /\ GrantedIsReal'
    BY DEF UnboundIsAsRequested, RequestedBytes, GrantedIsReal
  <2>9. BackupsCounted'
    BY BackupsStay DEF TypeOK
  <2> QED BY <2>4, <2>5, <2>6, <2>7, <2>8, <2>9
<1> QED BY <1>2, <1>3, <1>4 DEF GetBlockStorageByName

\* A new storage: no call works on it, no name is bound to it.
LEMMA FreshStorage ==
  ASSUME IInv, NEW u \in Storages, NEW n, NEW gb, NewStorage(u, n, gb)
  PROVE  /\ u \notin storages /\ u \in Storages \ used
         /\ \A m \in Names : bound[m] # u
         /\ \A g \in Handlers :
              pc[g] \in {"lookup", "modify", "modifyWait", "delete", "details"} \union Made
              => uuid[g] # u
         /\ title' = [title EXCEPT ![u] = n] /\ sizeGB' = [sizeGB EXCEPT ![u] = gb]
         /\ storages' = storages \union {u} /\ used' = used \union {u}
  BY ProvisionAssumption
  DEF IInv, TypeOK, Knowledge, HandlerKnows, BoundIsItsOwn, NewStorage

\* CreateStorage or CloneStorage: the storage is the first with the title, and
\* nobody else is about to make one.
LEMMA CreateStepInv ==
  ASSUME IInv, TypeOK', NEW h \in Handlers, NEW u \in Storages, NEW gb \in 0 .. MaxGB,
         h \in awaited, NewStorage(u, name[h], gb), UNCHANGED <<side, known>>, req' = req,
         \/ pc[h] = "create" /\ gb = SizeGB(want[h])
         \/ pc[h] = "clone",
         \/ Return(h)
         \/ /\ pc' = [pc EXCEPT ![h] = IF pc[h] = "create" THEN "createWait" ELSE "cloneWait"]
            /\ uuid' = [uuid EXCEPT ![h] = u] /\ want' = want
            /\ UNCHANGED <<op, name, awaited>>
  PROVE  IInv'
<1> USE DEF IInv, Knowledge, Made, Cloned, Resized, side, known
<1>1. /\ name[h] \in Names /\ op[h] = "create"
      /\ gb \in Nat /\ gb <= gb
      /\ pc[h] = "create" => want[h] = RequestedBytes(name[h]) /\ ~ req[name[h]].clone
      /\ pc[h] = "clone" => req[name[h]].clone
      /\ name[h] \notin disturbed => \A v \in storages : title[v] # name[h]
      /\ bound[name[h]] \notin storages
  BY SizesBounded DEF HandlerKnows, StillMissing, CreatesWhenGone
<1>2. /\ u \notin storages /\ u \in Storages \ used
      /\ \A m \in Names : bound[m] # u
      /\ \A g \in Handlers :
           pc[g] \in {"lookup", "modify", "modifyWait", "delete", "details"} \union Made
           => uuid[g] # u
      /\ title' = [title EXCEPT ![u] = name[h]] /\ sizeGB' = [sizeGB EXCEPT ![u] = gb]
      /\ storages' = storages \union {u} /\ used' = used \union {u}
  BY FreshStorage
<1> USE <1>1, <1>2 DEF Return
<1>3. HandlerKnows'
  BY DEF TypeOK, HandlerKnows, RequestedBytes
<1>4. WorksOnItsOwn'
  BY DEF TypeOK, WorksOnItsOwn
<1>5. HasItsSize'
  BY DEF TypeOK, HasItsSize
<1>6. OneCallPerName' /\ WireIsDisturbed'
  BY DEF TypeOK, OneCallPerName, WireIsDisturbed
<1>7. StillMissing'
  BY DEF TypeOK, StillMissing, OneCallPerName
<1>8. TitledOnce'
  BY DEF TypeOK, TitledOnce
<1>9. BoundIsItsOwn' /\ ActsOnBound'
  BY DEF TypeOK, BoundIsItsOwn, ActsOnBound
<1>10. CreatesWhenGone'
  BY DEF TypeOK, CreatesWhenGone, HandlerKnows
<1>11. UnboundIsAsRequested'
  BY DEF TypeOK, UnboundIsAsRequested, RequestedBytes
<1>12. GrantedIsReal'
  <2>1. Holds(gb, 0)
    BY HoldsFacts
  <2> QED BY <2>1 DEF TypeOK, GrantedIsReal
<1>13. BackupsCounted'
  BY BackupsStay DEF TypeOK
<1> QED BY <1>3, <1>4, <1>5, <1>6, <1>7, <1>8, <1>9, <1>10, <1>11, <1>12, <1>13

\* A call goes on to its next request, with the storages as they are.
LEMMA MoveStep ==
  ASSUME IInv, TypeOK', NEW h \in Handlers, NEW next, h \in awaited, BackupsCounted',
         pc' = [pc EXCEPT ![h] = next], UNCHANGED <<op, name, awaited, want>>,
         UNCHANGED <<cloud, known, wire, req, disturbed>>,
         \/ /\ pc[h] \in {"source", "sourceWait"} /\ next \in {"sourceWait", "clone"}
            /\ \A g \in Handlers : g # h => uuid'[g] = uuid[g]
         \/ /\ uuid' = uuid
            /\ \/ pc[h] = "cloneWait" /\ next \in {"label", "resize"}
               \/ pc[h] = "labelWait" /\ next = "resize"
               \/ pc[h] = "resizeWait" /\ next = "resizeFs"
               \/ pc[h] = "resizeFs" /\ next = "deleteBackup"
               \/ pc[h] = "deleteBackup" /\ next = "finalWait"
               \/ pc[h] = "lookup" /\ next = "modify"
  PROVE  IInv'
<1> USE DEF IInv, Knowledge, Made, Cloned, Resized, cloud, known
<1>1. HandlerKnows'
  BY DEF TypeOK, HandlerKnows, RequestedBytes
<1>2. WorksOnItsOwn' /\ HasItsSize'
  BY DEF TypeOK, WorksOnItsOwn, HasItsSize
<1>3. OneCallPerName' /\ WireIsDisturbed' /\ StillMissing' /\ TitledOnce'
  BY DEF TypeOK, OneCallPerName, WireIsDisturbed, StillMissing, TitledOnce
<1>4. BoundIsItsOwn' /\ ActsOnBound' /\ CreatesWhenGone'
  BY DEF TypeOK, BoundIsItsOwn, ActsOnBound, CreatesWhenGone, HandlerKnows
<1>5. UnboundIsAsRequested' /\ GrantedIsReal'
  BY DEF UnboundIsAsRequested, RequestedBytes, GrantedIsReal
<1> QED BY <1>1, <1>2, <1>3, <1>4, <1>5

\* ModifyStorage: the storage grows; it is a clone in the making, or the volume
\* that the name is bound to.
LEMMA ModifyStep ==
  ASSUME IInv, TypeOK', NEW h \in Handlers, NEW gb \in 0 .. MaxGB, h \in awaited,
         Modify(uuid[h], gb), UNCHANGED <<side, known>>, req' = req,
         NEW next,
         \/ pc[h] = "label" /\ next = "labelWait"
         \/ pc[h] = "resize" /\ next = "resizeWait" /\ gb = SizeGB(want[h])
         \/ pc[h] = "modify" /\ next = "modifyWait" /\ gb = SizeGB(want[h]),
         \/ Return(h)
         \/ pc' = [pc EXCEPT ![h] = next] /\ UNCHANGED <<op, name, uuid, want, awaited>>
  PROVE  IInv'
<1> USE DEF IInv, Knowledge, Made, Cloned, Resized, side, known
<1>1. /\ uuid[h] \in storages /\ uuid[h] \in Storages
      /\ sizeGB' = [sizeGB EXCEPT ![uuid[h]] = gb] /\ gb \in Nat /\ gb <= gb
      /\ UNCHANGED <<storages, used, title>>
  BY SizesBounded DEF Modify, TypeOK
<1>2. \A u \in Storages : /\ sizeGB[u] \in Nat /\ sizeGB'[u] \in Nat
                          /\ sizeGB[u] <= sizeGB'[u]
  <2> SUFFICES ASSUME NEW u \in Storages
               PROVE  /\ sizeGB[u] \in Nat /\ sizeGB'[u] \in Nat
                      /\ sizeGB[u] <= sizeGB'[u]
    OBVIOUS
  <2>1. sizeGB[u] \in Nat /\ sizeGB'[u] \in Nat
    BY SizesBounded DEF TypeOK
  <2>2. sizeGB'[u] = IF u = uuid[h] THEN gb ELSE sizeGB[u]
    BY <1>1 DEF TypeOK
  <2>3. gb >= sizeGB[uuid[h]]
    BY DEF Modify
  <2> QED BY <2>1, <2>2, <2>3
<1>3. /\ name[h] \in Names
      /\ \/ title[uuid[h]] = name[h] /\ req[name[h]].clone
         \/ uuid[h] = bound[name[h]] /\ title[uuid[h]] = name[h]
  BY <1>1, ProvisionAssumption DEF HandlerKnows, WorksOnItsOwn, ActsOnBound, BoundIsItsOwn, TypeOK
<1>4. HandlerKnows'
  BY <1>1 DEF TypeOK, HandlerKnows, RequestedBytes, Return
<1>5. WorksOnItsOwn'
  BY <1>1 DEF TypeOK, WorksOnItsOwn, Return
<1>6. HasItsSize'
  <2> SUFFICES ASSUME NEW g \in Handlers, pc'[g] \in {"createWait", "modifyWait"} \union Resized
               PROVE  SizeGB(want'[g]) <= sizeGB'[uuid'[g]]
    BY DEF HasItsSize
  <2>1. CASE g = h
    <3>1. /\ gb = SizeGB(want[h]) /\ want'[h] = want[h] /\ uuid'[h] = uuid[h]
      BY <2>1 DEF TypeOK, Return
    <3> QED BY <1>1, <2>1, <3>1 DEF TypeOK
  <2>2. CASE g # h
    <3>1. /\ pc[g] \in {"createWait", "modifyWait"} \union Resized
          /\ want'[g] = want[g] /\ uuid'[g] = uuid[g]
      BY <2>2 DEF TypeOK, Return
    <3>2. uuid[g] \in Storages /\ SizeGB(want[g]) \in Nat /\ SizeGB(want[g]) <= sizeGB[uuid[g]]
      BY <3>1, SizesBounded DEF TypeOK, HasItsSize, HandlerKnows
    <3>3. sizeGB[uuid[g]] \in Nat /\ sizeGB'[uuid[g]] \in Nat
          /\ sizeGB[uuid[g]] <= sizeGB'[uuid[g]]
      BY <1>2, <3>2
    <3>4. SizeGB(want[g]) <= sizeGB'[uuid[g]]
      BY <3>2, <3>3
    <3> QED BY <3>1, <3>4
  <2> QED BY <2>1, <2>2
<1>7. OneCallPerName' /\ WireIsDisturbed' /\ StillMissing' /\ TitledOnce'
  BY <1>1 DEF TypeOK, OneCallPerName, WireIsDisturbed, StillMissing, TitledOnce, Return
<1>8. BoundIsItsOwn' /\ ActsOnBound' /\ CreatesWhenGone'
  BY <1>1 DEF TypeOK, BoundIsItsOwn, ActsOnBound, CreatesWhenGone, HandlerKnows, Return
<1>9. UnboundIsAsRequested'
  BY <1>1, <1>3 DEF TypeOK, UnboundIsAsRequested, RequestedBytes
<1>10. GrantedIsReal'
  <2> SUFFICES ASSUME NEW u \in used PROVE Holds(sizeGB'[u], granted[u])
    BY <1>1 DEF GrantedIsReal
  <2>1. u \in Storages /\ granted[u] \in Nat /\ Holds(sizeGB[u], granted[u])
    BY DEF TypeOK, GrantedIsReal
  <2> QED BY <1>2, <2>1, HoldsFacts
<1>11. BackupsCounted'
  BY BackupsStay DEF TypeOK, Return
<1> QED BY <1>4, <1>5, <1>6, <1>7, <1>8, <1>9, <1>10, <1>11

\* A storage disappears: deleted by DeleteVolume, or by somebody else.
LEMMA RemoveStep ==
  ASSUME IInv, TypeOK', NEW u, storages' = storages \ {u},
         UNCHANGED <<used, title, sizeGB, state, granted, wire, backups, req, disturbed>>,
         \/ UNCHANGED <<pc, op, name, uuid, want, awaited, bound>>
         \/ \E h \in Handlers :
              /\ pc[h] = "delete" /\ h \in awaited /\ uuid[h] = u
              /\ Return(h)
              /\ bound' = bound \/ bound' = [bound EXCEPT ![name[h]] = NoStorage]
  PROVE  IInv'
<1> USE DEF IInv, Knowledge, Made, Cloned, Resized, Return
<1>1. HandlerKnows' /\ WorksOnItsOwn' /\ HasItsSize'
  BY DEF TypeOK, HandlerKnows, WorksOnItsOwn, HasItsSize, RequestedBytes
<1>2. OneCallPerName' /\ WireIsDisturbed' /\ StillMissing' /\ TitledOnce'
  BY DEF TypeOK, OneCallPerName, WireIsDisturbed, StillMissing, TitledOnce
<1>3. BoundIsItsOwn'
  BY DEF TypeOK, BoundIsItsOwn, HandlerKnows
<1>4. ActsOnBound'
  BY DEF TypeOK, ActsOnBound, HandlerKnows, OneCallPerName
<1>5. CreatesWhenGone'
  BY DEF TypeOK, CreatesWhenGone, HandlerKnows, OneCallPerName
<1>6. UnboundIsAsRequested'
  <2>1. CASE bound' = bound
    BY <2>1 DEF UnboundIsAsRequested, RequestedBytes
  <2>2. ASSUME NEW h \in Handlers, pc[h] = "delete", h \in awaited, uuid[h] = u,
               bound' = [bound EXCEPT ![name[h]] = NoStorage]
        PROVE  UnboundIsAsRequested'
    <3>1. name[h] \in Names /\ bound[name[h]] = u
      BY <2>2 DEF HandlerKnows, ActsOnBound
    <3>2. \A v \in storages', n \in Names : bound'[n] # v => bound[n] # v
      BY <2>2, <3>1 DEF TypeOK
    <3> QED BY <2>2, <3>2 DEF UnboundIsAsRequested, RequestedBytes
  <2> QED BY <2>1, <2>2
<1>7. GrantedIsReal'
  BY DEF GrantedIsReal
<1>8. BackupsCounted'
  BY BackupsStay DEF TypeOK
<1> QED BY <1>1, <1>2, <1>3, <1>4, <1>5, <1>6, <1>7, <1>8

\* What CreateVolume and ControllerExpandVolume do without a request that changes
\* a storage: the details of the volume found, the source of a clone, the lookup
\* of an expand.
LEMMA ReadStep ==
  ASSUME IInv, TypeOK', NEW h \in Handlers, req' = req,
         CreateVolumeExistsResponse(h) \/ FindSource(h) \/ ExpandBlockStorage(h)
  PROVE  IInv'
<1> USE DEF IInv, Knowledge
<1>0. h \in awaited /\ name[h] \in Names /\ UNCHANGED <<cloud, side>>
  BY DEF CreateVolumeExistsResponse, FindSource, ExpandBlockStorage, Live, HandlerKnows
<1>1. CASE ReturnError(h)
  BY <1>0, <1>1, EndStep DEF ReturnError, WireIsDisturbed, side
<1>2. ASSUME uuid[h] \in storages PROVE sizeGB[uuid[h]] \in Nat
  BY <1>2, SizesBounded DEF TypeOK
<1>3. ASSUME pc[h] \in {"details", "lookup"}, uuid[h] \in storages,
             ReturnVolume(h, uuid[h], sizeGB[uuid[h]] * giB)
      PROVE  IInv'
  <2>1. sizeGB[uuid[h]] * giB \in Nat /\ Holds(sizeGB[uuid[h]], sizeGB[uuid[h]] * giB)
    BY <1>2, <1>3, HoldsFacts
  <2>2. uuid[h] \in used /\ title[uuid[h]] = name[h]
        /\ (bound[name[h]] \in storages => bound[name[h]] = uuid[h])
    BY <1>0, <1>3, ProvisionAssumption
    DEF HandlerKnows, WorksOnItsOwn, CreatesWhenGone, ActsOnBound, BoundIsItsOwn, TypeOK
  <2> QED BY <1>0, <1>3, <2>1, <2>2, AnswerStep
<1>4. ASSUME NEW next, NEW u, Goto(h, next, u, want[h]),
             \/ pc[h] = "source" /\ next \in {"sourceWait", "clone"}
             \/ pc[h] = "lookup" /\ next = "modify" /\ u = uuid[h]
      PROVE  IInv'
  <2>1. /\ pc' = [pc EXCEPT ![h] = next] /\ want' = want
        /\ uuid' = [uuid EXCEPT ![h] = u]
        /\ UNCHANGED <<op, name, awaited, known>>
        /\ \A g \in Handlers : g # h => uuid'[g] = uuid[g]
        /\ u = uuid[h] => uuid' = uuid
    BY <1>4 DEF Goto, TypeOK, request
  <2>2. BackupsCounted'
    BY <1>0, <1>4, <2>1, BackupsStay DEF TypeOK, side
  <2>3. UNCHANGED <<cloud, wire, disturbed>>
    BY <1>0 DEF side
  <2> QED BY <1>0, <1>4, <2>1, <2>2, <2>3, MoveStep
<1> QED
  BY <1>1, <1>3, <1>4
  DEF CreateVolumeExistsResponse, FindSource, ExpandBlockStorage, Continue

\* CreateStorage and CloneStorage.
LEMMA MakeStep ==
  ASSUME IInv, TypeOK', NEW h \in Handlers, req' = req,
         CreateBlockStorage(h) \/ CloneBlockStorage(h)
  PROVE  IInv'
<1>0. want[h] \in Capacities /\ SizeGB(want[h]) \in 0 .. MaxGB /\ sizeGB[Source] \in 0 .. MaxGB
  BY SizesBounded, ProvisionAssumption DEF IInv, TypeOK
<1>1. /\ h \in awaited /\ UNCHANGED side
      /\ \E u \in Storages, gb \in 0 .. MaxGB :
           /\ NewStorage(u, name[h], gb)
           /\ \/ pc[h] = "create" /\ gb = SizeGB(want[h])
              \/ pc[h] = "clone"
           /\ \/ ReturnFault(h)
              \/ Goto(h, IF pc[h] = "create" THEN "createWait" ELSE "cloneWait", u, want[h])
  BY <1>0 DEF CreateBlockStorage, CloneBlockStorage, Live
<1>2. PICK u \in Storages, gb \in 0 .. MaxGB :
        /\ NewStorage(u, name[h], gb)
        /\ \/ pc[h] = "create" /\ gb = SizeGB(want[h])
           \/ pc[h] = "clone"
        /\ \/ ReturnFault(h)
           \/ Goto(h, IF pc[h] = "create" THEN "createWait" ELSE "cloneWait", u, want[h])
  BY <1>1
<1>3. /\ UNCHANGED known
      /\ \/ Return(h)
         \/ /\ pc' = [pc EXCEPT ![h] = IF pc[h] = "create" THEN "createWait" ELSE "cloneWait"]
            /\ uuid' = [uuid EXCEPT ![h] = u] /\ want' = want
            /\ UNCHANGED <<op, name, awaited>>
  BY <1>2 DEF ReturnFault, Goto, request, IInv, TypeOK
<1> QED BY <1>1, <1>2, <1>3, CreateStepInv

\* The three requests that modify a storage.
LEMMA GrowStep ==
  ASSUME IInv, TypeOK', NEW h \in Handlers, req' = req,
         LabelClone(h) \/ ResizeClone(h) \/ ResizeBlockDevice(h)
  PROVE  IInv'
<1>0. SizeGB(want[h]) \in 0 .. MaxGB /\ (uuid[h] \in storages => sizeGB[uuid[h]] \in 0 .. MaxGB)
  BY SizesBounded DEF IInv, TypeOK
<1>1. /\ h \in awaited /\ UNCHANGED side
      /\ \E gb \in 0 .. MaxGB, next \in {"labelWait", "resizeWait", "modifyWait"} :
           /\ Modify(uuid[h], gb)
           /\ \/ pc[h] = "label" /\ next = "labelWait"
              \/ pc[h] = "resize" /\ next = "resizeWait" /\ gb = SizeGB(want[h])
              \/ pc[h] = "modify" /\ next = "modifyWait" /\ gb = SizeGB(want[h])
           /\ Then(h, next)
  BY <1>0 DEF LabelClone, ResizeClone, ResizeBlockDevice, Live, Modify
<1>2. PICK gb \in 0 .. MaxGB, next \in {"labelWait", "resizeWait", "modifyWait"} :
        /\ Modify(uuid[h], gb)
        /\ \/ pc[h] = "label" /\ next = "labelWait"
           \/ pc[h] = "resize" /\ next = "resizeWait" /\ gb = SizeGB(want[h])
           \/ pc[h] = "modify" /\ next = "modifyWait" /\ gb = SizeGB(want[h])
        /\ Then(h, next)
  BY <1>1
<1>3. /\ UNCHANGED known
      /\ \/ Return(h)
         \/ pc' = [pc EXCEPT ![h] = next] /\ UNCHANGED <<op, name, uuid, want, awaited>>
  BY <1>2 DEF Then, Continue, ReturnFault, Goto, request, IInv, TypeOK
<1> QED BY <1>1, <1>2, <1>3, ModifyStep

\* A backup is made, or the call deletes its own.
LEMMA BackupStep ==
  ASSUME IInv, TypeOK', NEW h \in Handlers, req' = req,
         ResizeStorageFilesystem(h) \/ DeleteResizeBackup(h)
  PROVE  IInv'
<1> DEFINE D == {g \in Handlers : pc[g] = "deleteBackup"}
<1>0. /\ h \in awaited /\ UNCHANGED <<cloud, wire, req, disturbed>>
      /\ UNCHANGED known
      /\ \/ pc[h] = "resizeFs" /\ backups' = backups + 1 /\ Then(h, "deleteBackup")
         \/ pc[h] = "deleteBackup" /\ backups' = backups - 1 /\ Then(h, "finalWait")
  BY DEF ResizeStorageFilesystem, DeleteResizeBackup, Live, Then, Continue, ReturnFault, Goto
<1>1. IsFiniteSet(D) /\ Cardinality(D) \in Nat /\ Cardinality(D) <= backups /\ backups \in Nat
  BY ProvisionAssumption, FS_Subset, FS_CardinalityType DEF IInv, BackupsCounted, TypeOK
<1>2. BackupsCounted'
  <2>1. CASE pc[h] = "resizeFs"
    <3>1. D' \in SUBSET (D \union {h})
      BY <1>0, <2>1 DEF Then, Continue, ReturnFault, Return, Goto, IInv, TypeOK
    <3>2. h \notin D /\ IsFiniteSet(D \union {h}) /\ Cardinality(D \union {h}) = Cardinality(D) + 1
      BY <1>1, <2>1, FS_AddElement
    <3>3. Cardinality(D') <= Cardinality(D \union {h}) /\ Cardinality(D') \in Nat
      BY <3>1, <3>2, FS_Subset, FS_CardinalityType
    <3> QED BY <1>0, <1>1, <2>1, <3>2, <3>3 DEF BackupsCounted
  <2>2. CASE pc[h] = "deleteBackup"
    <3>1. D' = D \ {h}
      BY <1>0, <2>2 DEF Then, Continue, ReturnFault, Return, Goto, IInv, TypeOK
    <3>2. Cardinality(D \ {h}) <= backups - 1
      BY <2>2, BackupToDelete DEF IInv
    <3> QED BY <1>0, <2>2, <3>1, <3>2 DEF BackupsCounted
  <2> QED BY <1>0, <2>1, <2>2
<1>3. CASE ReturnFault(h)
  BY <1>0, <1>2, <1>3, EndStep DEF ReturnFault, IInv, WireIsDisturbed
<1>4. ASSUME NEW next, Continue(h, next),
             \/ pc[h] = "resizeFs" /\ next = "deleteBackup"
             \/ pc[h] = "deleteBackup" /\ next = "finalWait"
      PROVE  IInv'
  <2>1. pc' = [pc EXCEPT ![h] = next] /\ UNCHANGED <<op, name, awaited, want, uuid>>
    BY <1>4 DEF Continue, Goto, request, IInv, TypeOK
  <2> QED BY <1>0, <1>2, <1>4, <2>1, MoveStep
<1> QED BY <1>0, <1>3, <1>4 DEF Then

\* A wait ends: the answer is given for a storage that has the size, or the call
\* goes on.
LEMMA WaitStep ==
  ASSUME IInv, TypeOK', NEW h \in Handlers, req' = req, WaitForStorageOnline(h)
  PROVE  IInv'
<1> USE DEF IInv, Knowledge, Made, Cloned, Resized
<1>0. /\ h \in awaited /\ name[h] \in Names /\ UNCHANGED <<cloud, side>>
      /\ uuid[h] \in storages /\ uuid[h] \in Storages /\ pc[h] \in Waiting
  BY DEF WaitForStorageOnline, Waiting, Live, HandlerKnows, TypeOK
<1>1. CASE LastWait(h)
  <2>1. want[h] \in Nat /\ SizeGB(want[h]) \in Nat /\ sizeGB[uuid[h]] \in Nat
    BY <1>0, SizesBounded DEF TypeOK
  <2>2. SizeGB(want[h]) <= sizeGB[uuid[h]]
    BY <1>1 DEF LastWait, HasItsSize
  <2>3. pc[h] \in {"createWait", "finalWait", "cloneWait", "labelWait", "modifyWait"}
    BY <1>1 DEF LastWait
  <2>4. /\ uuid[h] \in used /\ title[uuid[h]] = name[h]
        /\ bound[name[h]] \in storages => bound[name[h]] = uuid[h]
    BY <1>0, <2>3, ProvisionAssumption
    DEF HandlerKnows, WorksOnItsOwn, CreatesWhenGone, ActsOnBound, BoundIsItsOwn, TypeOK
  <2>5. /\ SizeGB(want[h]) * giB \in Nat
        /\ Holds(sizeGB[uuid[h]], want[h]) /\ Holds(sizeGB[uuid[h]], SizeGB(want[h]) * giB)
    BY <2>1, <2>2, HoldsFacts
  <2>6. PICK bytes \in {want[h], SizeGB(want[h]) * giB} : ReturnVolume(h, uuid[h], bytes)
    BY <1>1 DEF WaitForStorageOnline
  <2> QED BY <1>0, <2>1, <2>4, <2>5, <2>6, AnswerStep
<1>2. CASE ~ LastWait(h)
  <2>1. PICK next : /\ Continue(h, next)
                    /\ \/ pc[h] = "sourceWait" /\ next = "clone"
                       \/ pc[h] = "cloneWait" /\ next \in {"label", "resize"}
                       \/ pc[h] = "labelWait" /\ next = "resize"
                       \/ pc[h] = "resizeWait" /\ next = "resizeFs"
    BY <1>0, <1>2 DEF WaitForStorageOnline, LastWait, Waiting
  <2>2. /\ pc' = [pc EXCEPT ![h] = next]
        /\ UNCHANGED <<op, name, awaited, want, uuid, known>>
    BY <2>1 DEF Continue, Goto, request, TypeOK
  <2>3. BackupsCounted'
    BY <1>0, <2>1, <2>2, BackupsStay DEF TypeOK, side
  <2>4. UNCHANGED <<wire, disturbed>> /\ \A g \in Handlers : g # h => uuid'[g] = uuid[g]
    BY <1>0, <2>2 DEF side
  <2> QED BY <1>0, <2>1, <2>2, <2>3, <2>4, MoveStep
<1> QED BY <1>1, <1>2

\* All goroutines are lost with the process.
LEMMA CrashStep ==
  ASSUME IInv, TypeOK', Crash, req' = req
  PROVE  IInv'
<1> USE DEF IInv, Knowledge, Crash, cloud, side, known, Made, Cloned, Resized
<1>1. HandlerKnows' /\ WorksOnItsOwn' /\ HasItsSize'
  BY DEF TypeOK, HandlerKnows, WorksOnItsOwn, HasItsSize, RequestedBytes
<1>2. OneCallPerName' /\ WireIsDisturbed' /\ StillMissing' /\ TitledOnce'
  BY DEF TypeOK, OneCallPerName, WireIsDisturbed, StillMissing, TitledOnce
<1>3. BoundIsItsOwn' /\ ActsOnBound' /\ CreatesWhenGone'
  BY DEF TypeOK, BoundIsItsOwn, ActsOnBound, CreatesWhenGone
<1>4. UnboundIsAsRequested' /\ GrantedIsReal'
  BY DEF UnboundIsAsRequested, RequestedBytes, GrantedIsReal
<1>5. BackupsCounted'
  BY BackupsStay DEF TypeOK
<1> QED BY <1>1, <1>2, <1>3, <1>4, <1>5

\* A storage settles, is attached or detached, or nothing happens.
LEMMA IdleStep ==
  ASSUME IInv, TypeOK', UNCHANGED <<pc, op, name, uuid, want, awaited, known>>,
         UNCHANGED <<storages, used, title, sizeGB, backups, req, disturbed>>,
         wire' \subseteq wire
  PROVE  IInv'
<1> USE DEF IInv, Knowledge, known, Made, Cloned, Resized
<1>1. HandlerKnows' /\ WorksOnItsOwn' /\ HasItsSize'
  BY DEF HandlerKnows, WorksOnItsOwn, HasItsSize, RequestedBytes
<1>2. OneCallPerName' /\ WireIsDisturbed' /\ StillMissing' /\ TitledOnce'
  BY DEF OneCallPerName, WireIsDisturbed, StillMissing, TitledOnce
<1>3. BoundIsItsOwn' /\ ActsOnBound' /\ CreatesWhenGone'
  BY DEF BoundIsItsOwn, ActsOnBound, CreatesWhenGone
<1>4. UnboundIsAsRequested' /\ GrantedIsReal'
  BY DEF UnboundIsAsRequested, RequestedBytes, GrantedIsReal
<1>5. BackupsCounted'
  BY BackupsStay
<1> QED BY <1>1, <1>2, <1>3, <1>4, <1>5

\* An abandoned create lands after all: its name is one of the disturbed ones.
LEMMA LandStep ==
  ASSUME IInv, TypeOK', NEW n \in Names, NEW u \in Storages, NEW gb \in 0 .. MaxGB,
         n \in disturbed, NewStorage(u, n, gb), wire' \subseteq wire,
         UNCHANGED <<pc, request, uuid, want, attached, backups, req, known, disturbed>>
  PROVE  IInv'
<1> USE DEF IInv, Knowledge, known, request, Made, Cloned, Resized
<1>1. /\ u \notin storages /\ u \in Storages \ used
      /\ \A m \in Names : bound[m] # u
      /\ \A g \in Handlers :
           pc[g] \in {"lookup", "modify", "modifyWait", "delete", "details"} \union Made
           => uuid[g] # u
      /\ title' = [title EXCEPT ![u] = n] /\ sizeGB' = [sizeGB EXCEPT ![u] = gb]
      /\ storages' = storages \union {u} /\ used' = used \union {u}
  BY FreshStorage
<1> USE <1>1
<1>2. HandlerKnows' /\ WorksOnItsOwn'
  BY DEF TypeOK, HandlerKnows, WorksOnItsOwn, RequestedBytes
<1>3. HasItsSize'
  BY DEF TypeOK, HasItsSize
<1>4. OneCallPerName' /\ WireIsDisturbed' /\ StillMissing' /\ TitledOnce'
  BY DEF TypeOK, OneCallPerName, WireIsDisturbed, StillMissing, TitledOnce
<1>5. BoundIsItsOwn' /\ ActsOnBound' /\ CreatesWhenGone'
  BY DEF TypeOK, BoundIsItsOwn, ActsOnBound, CreatesWhenGone, HandlerKnows
<1>6. UnboundIsAsRequested'
  BY DEF TypeOK, UnboundIsAsRequested, RequestedBytes
<1>7. GrantedIsReal'
  <2>1. Holds(gb, 0)
    BY HoldsFacts, SizesBounded
  <2> QED BY <2>1 DEF TypeOK, GrantedIsReal
<1>8. BackupsCounted'
  BY BackupsStay
<1> QED BY <1>2, <1>3, <1>4, <1>5, <1>6, <1>7, <1>8

\* Every step preserves the invariant.
LEMMA NextIInv == IInv /\ [Next]_vars => IInv'
<1> SUFFICES ASSUME IInv, [Next]_vars PROVE IInv'
  OBVIOUS
<1>1. TypeOK' /\ req' = req
  BY TypeStep, RequestsStay DEF IInv, Knowledge
<1>2. ASSUME NEW h \in Handlers, DetailsFail(h) \/ ApiError(h) \/ Abandon(h) \/ Cancel(h)
      PROVE  IInv'
  <2>1. /\ Return(h) \/ (awaited' = awaited \ {h} /\ UNCHANGED <<pc, op, name, uuid, want>>)
        /\ UNCHANGED <<cloud, known, req>> /\ backups' = backups
        /\ disturbed \subseteq disturbed' /\ wire' \subseteq disturbed'
    BY <1>2 DEF DetailsFail, ApiError, Abandon, Cancel, ReturnFault, side, IInv, WireIsDisturbed
  <2> QED BY <1>1, <2>1, EndStep
<1>3. ASSUME NEW h \in Handlers, DeleteBlockStorage(h) PROVE IInv'
  <2>1. /\ pc[h] = "delete" /\ h \in awaited /\ storages' = storages \ {uuid[h]} /\ Return(h)
        /\ UNCHANGED <<used, title, sizeGB, state, granted>>
        /\ UNCHANGED <<wire, backups, req, disturbed>>
        /\ bound' = bound \/ bound' = [bound EXCEPT ![name[h]] = NoStorage]
    BY <1>3 DEF DeleteBlockStorage, Live, ReturnFault, known, side
  <2> QED BY <1>1, <2>1, RemoveStep
<1>4. ASSUME NEW u \in Storages, StorageDeleted(u) PROVE IInv'
  BY <1>1, <1>4, RemoveStep DEF StorageDeleted, request, side, known
<1>5. ASSUME NEW u \in Storages, StorageSettles(u) \/ AttachmentChanges(u) PROVE IInv'
  BY <1>1, <1>5, IdleStep DEF StorageSettles, AttachmentChanges, request, side, cloud
<1>6. ASSUME NEW n \in Names, Lands(n) PROVE IInv'
  <2>1. n \in disturbed /\ wire' \subseteq wire
        /\ UNCHANGED <<pc, request, uuid, want, attached, backups, req, known, disturbed>>
    BY <1>6 DEF Lands, IInv, WireIsDisturbed
  <2>2. SizeGB(RequestedBytes(n)) \in 0 .. MaxGB /\ sizeGB[Source] \in 0 .. MaxGB
    BY RequestedBounded, SizesBounded, ProvisionAssumption DEF IInv, TypeOK
  <2>3. CASE UNCHANGED cloud
    BY <1>1, <2>1, <2>3, IdleStep DEF cloud, request
  <2>4. ASSUME NEW u \in Storages, NEW gb \in 0 .. MaxGB, NewStorage(u, n, gb) PROVE IInv'
    BY <1>1, <2>1, <2>4, LandStep
  <2> QED BY <1>6, <2>2, <2>3, <2>4 DEF Lands
<1>7. CASE UNCHANGED vars
  BY <1>1, <1>7, IdleStep DEF vars, known
<1> QED
  BY <1>1, <1>2, <1>3, <1>4, <1>5, <1>6, <1>7, CallStep, ListStep, ReadStep, MakeStep,
     GrowStep, BackupStep, WaitStep, CrashStep
  DEF Next, Step, CreateStep, CloneStep, Environment

-----------------------------------------------------------------------------

\* The invariant holds in every reachable state.
LEMMA Invariance == Spec => []IInv
  BY InitIInv, NextIInv, PTL DEF Spec

\* A set in which no two elements differ has at most one.
LEMMA AtMostOne ==
  ASSUME NEW S, IsFiniteSet(S), \A x, y \in S : x = y
  PROVE  Cardinality(S) <= 1
<1>1. CASE S = {}
  BY <1>1, FS_EmptySet
<1>2. CASE S # {}
  <2>1. PICK x \in S : TRUE
    BY <1>2
  <2>2. S = {x}
    BY <2>1
  <2> QED BY <2>2, FS_Singleton
<1> QED BY <1>1, <1>2

\* GetBlockStorageByName finds at most one volume of a name without an abandoned
\* create: CreateVolume does not stop at "fatal: duplicate volume".
LEMMA NoDuplicates ==
  ASSUME IInv, NEW n \in Names \ disturbed
  PROVE  Cardinality(Titled(n)) <= 1 /\ Cardinality(Titled(n)) \in Nat
<1>1. IsFiniteSet(Titled(n))
  <2>1. Titled(n) \in SUBSET Storages
    BY DEF IInv, TypeOK, Titled
  <2> QED BY <2>1, ProvisionAssumption, FS_Subset
<1>2. \A u, v \in Titled(n) : u = v
  BY DEF IInv, TitledOnce, Titled
<1> QED BY <1>1, <1>2, AtMostOne, FS_CardinalityType

\* Every reachable state is well typed; the sizes asked of the API are within the
\* maximum, and a resize deletes no backup but its own.
THEOREM TypeCorrect == Spec => []TypeOK
<1>1. IInv => TypeOK
  BY DEF IInv
<1> QED BY Invariance, <1>1, PTL

\* A name has one volume although GetBlockStorageByName and CreateStorage or
\* CloneStorage are separate requests, whatever retries, cancellations, crashes
\* and lost answers come between them, unless a create was abandoned on the wire.
THEOREM CreatesOneVolume == Spec => []OneVolumePerName
<1>1. IInv => OneVolumePerName
  BY NoDuplicates DEF OneVolumePerName
<1> QED BY Invariance, <1>1, PTL

\* CapacityBytes of the last CreateVolume or ControllerExpandVolume answer is what
\* the storage has, up to the part of a GiB by which CreateVolume rounds down,
\* also for a clone that had to be resized first.
THEOREM AnswersWithRealCapacity == Spec => []CapacityIsReal
<1>1. IInv => CapacityIsReal
  BY DEF IInv, TypeOK, GrantedIsReal, Holds, CapacityIsReal
<1> QED BY Invariance, <1>1, PTL

\* A capacity in whole GiB that CreateVolume or ControllerExpandVolume answered
\* with is there in full.
WholeCapacity ==
    \A u \in storages : granted[u] % giB = 0 => granted[u] <= sizeGB[u] * giB

\* An answer in whole GiB is exact: all of the capacity that was answered with
\* is there, after a create, a clone, a retry that found the name, or an expand.
THEOREM WholeCapacityIsThere == Spec => []WholeCapacity
<1>1. IInv => WholeCapacity
  <2> SUFFICES ASSUME IInv, NEW u \in storages, granted[u] % giB = 0
               PROVE  granted[u] <= sizeGB[u] * giB
    BY DEF WholeCapacity
  <2>1. granted[u] \in Nat /\ sizeGB[u] \in Nat
    BY ProvisionAssumption DEF IInv, TypeOK
  <2>2. granted[u] < (sizeGB[u] + 1) * giB
    BY DEF IInv, TypeOK, GrantedIsReal, Holds
  <2> QED BY <2>1, <2>2, WholeGiBFits
<1> QED BY Invariance, <1>1, PTL

\* CreateVolume answers with no other volume while the one it gave exists, also
\* when an abandoned create has made a second one of the name; only DeleteVolume
\* ends a binding, and then the storage is gone.
THEOREM AnswerIsStable == Spec => BindingIsStable
<1> DEFINE Stable == \A n \in Names :
                        bound[n] \in storages /\ bound'[n] # bound[n]
                        => bound'[n] = NoStorage /\ bound[n] \notin storages'
<1>1. IInv /\ [Next]_vars => [Stable]_vars
  <2> SUFFICES ASSUME IInv, Next, NEW n \in Names,
                      bound[n] \in storages, bound'[n] # bound[n]
               PROVE  bound'[n] = NoStorage /\ bound[n] \notin storages'
    OBVIOUS
  <2> USE DEF IInv, Knowledge, request, cloud, side, known
  <2>0. ~ UNCHANGED bound
    OBVIOUS
  <2>1. ASSUME NEW h \in Handlers, h \in awaited, name[h] \in Names,
               bound[name[h]] \in storages => bound[name[h]] = uuid[h],
               NEW bytes, ReturnVolume(h, uuid[h], bytes)
        PROVE  FALSE
    <3>1. bound' = bound \/ bound' = [bound EXCEPT ![name[h]] = uuid[h]]
      BY <2>1 DEF ReturnVolume
    <3> QED BY <2>1, <3>1 DEF TypeOK
  <2>2. ASSUME NEW h \in Handlers, CreateVolumeExistsResponse(h) PROVE FALSE
    <3>1. /\ h \in awaited /\ pc[h] = "details"
          /\ ReturnVolume(h, uuid[h], sizeGB[uuid[h]] * giB)
      BY <2>0, <2>2 DEF CreateVolumeExistsResponse, Live, ReturnError
    <3>2. name[h] \in Names /\ op[h] = "create"
      BY <3>1 DEF HandlerKnows
    <3>3. bound[name[h]] \in storages => bound[name[h]] = uuid[h]
      BY <3>1, <3>2 DEF CreatesWhenGone
    <3> QED BY <2>1, <3>1, <3>2, <3>3
  <2>3. ASSUME NEW h \in Handlers, ExpandBlockStorage(h) PROVE FALSE
    <3>1. /\ h \in awaited /\ pc[h] = "lookup"
          /\ ReturnVolume(h, uuid[h], sizeGB[uuid[h]] * giB)
      BY <2>0, <2>3 DEF ExpandBlockStorage, Live, ReturnError, Continue, Goto
    <3>2. name[h] \in Names /\ uuid[h] = bound[name[h]]
      BY <3>1 DEF HandlerKnows, ActsOnBound
    <3> QED BY <2>1, <3>1, <3>2
  <2>4. ASSUME NEW h \in Handlers, WaitForStorageOnline(h) PROVE FALSE
    <3>1. /\ h \in awaited /\ LastWait(h) /\ pc[h] \in Waiting
          /\ \E bytes : ReturnVolume(h, uuid[h], bytes)
      BY <2>0, <2>4 DEF WaitForStorageOnline, Live, Continue, Goto
    <3>2. pc[h] \in {"createWait", "finalWait", "cloneWait", "labelWait", "modifyWait"}
      BY <3>1 DEF LastWait
    <3>3. /\ name[h] \in Names
          /\ bound[name[h]] \in storages => bound[name[h]] = uuid[h]
      BY <3>1, <3>2
      DEF HandlerKnows, CreatesWhenGone, ActsOnBound, Made, Cloned, Resized
    <3> QED BY <2>1, <3>1, <3>3
  <2>5. ASSUME NEW h \in Handlers, DeleteBlockStorage(h)
        PROVE  bound'[n] = NoStorage /\ bound[n] \notin storages'
    <3>1. /\ h \in awaited /\ uuid[h] = bound[name[h]] /\ name[h] \in Names
          /\ storages' = storages \ {uuid[h]}
      BY <2>5 DEF DeleteBlockStorage, Live, HandlerKnows, ActsOnBound
    <3>2. bound' = [bound EXCEPT ![name[h]] = NoStorage]
      BY <2>0, <2>5 DEF DeleteBlockStorage, ReturnFault
    <3> QED BY <3>1, <3>2 DEF TypeOK
  <2>6. ASSUME NEW h \in Handlers,
               \/ Calls(h) \/ GetBlockStorageByName(h) \/ CreateBlockStorage(h)
               \/ DetailsFail(h) \/ CloneStep(h) \/ ResizeBlockDevice(h)
               \/ ApiError(h) \/ Abandon(h) \/ Cancel(h)
        PROVE  FALSE
    BY <2>0, <2>6
    DEF Calls, CreateVolume, DeleteVolume, ControllerExpandVolume, Call,
        GetBlockStorageByName, CreateNew, CreateBlockStorage, DetailsFail,
        CloneStep, FindSource, CloneBlockStorage, LabelClone, ResizeClone,
        ResizeStorageFilesystem, DeleteResizeBackup, ResizeBlockDevice, ApiError, Abandon,
        Cancel, Then, Continue, Goto, ReturnFault, ReturnError
  <2>7. ~ Environment
    BY <2>0 DEF Environment, StorageSettles, AttachmentChanges, StorageDeleted, Lands,
                Crash
  <2> QED BY <2>2, <2>3, <2>4, <2>5, <2>6, <2>7 DEF Next, Step, CreateStep
<1> QED BY Invariance, <1>1, PTL DEF Spec, BindingIsStable

\* A CreateVolume that meets no fault leaves its name with a volume, whatever
\* earlier attempts left behind, when the request is for a new volume of whole GiB within the limits
\* and nothing was abandoned on the wire.
THEOREM RetrySucceeds == Spec => CreateRecovers
<1> DEFINE Asked(h) == /\ op[h] = "create" /\ pc'[h] = "idle"
                       /\ h \notin troubled' /\ name[h] \notin disturbed'
                       /\ ~ req[name[h]].clone
                       /\ RequestedBytes(name[h]) >= minBytes
                       /\ RequestedBytes(name[h]) % giB = 0
           Recovers == \A h \in awaited : Asked(h) => bound'[name[h]] # NoStorage
<1>1. IInv /\ [Next]_vars => [Recovers]_vars
  <2> SUFFICES ASSUME IInv, Next, NEW h \in awaited, Asked(h)
               PROVE  bound'[name[h]] # NoStorage
    OBVIOUS
  <2>0. h \in Handlers /\ pc[h] # "idle" /\ name[h] \in Names /\ op[h] = "create"
        /\ pc'[h] = "idle" /\ h \notin troubled'
    BY DEF IInv, TypeOK, Knowledge, HandlerKnows
  <2> USE <2>0, ProvisionAssumption DEF IInv, Knowledge, request, cloud, side, known
  <2>1. CASE GetBlockStorageByName(h)
    <3>1. RequestedBytes(name[h]) # OutOfRange
      BY CapacityAssumption, RequestedBounded, SizesBounded DEF OutOfRange
    <3>2. ~ (Cardinality(Titled(name[h])) > 1)
      <4>1. name[h] \in Names \ disturbed
        BY <2>1 DEF GetBlockStorageByName
      <4> QED BY <4>1, NoDuplicates
    <3> QED BY <2>1, <3>1, <3>2 DEF GetBlockStorageByName, CreateNew, Goto, TypeOK
  <2>2. CASE CreateVolumeExistsResponse(h)
    <3>1. /\ uuid[h] \in storages /\ uuid[h] \in Storages /\ title[uuid[h]] = name[h]
          /\ name[h] \notin disturbed
      BY <2>2 DEF CreateVolumeExistsResponse, WorksOnItsOwn, TypeOK
    <3>2. CASE bound[name[h]] = uuid[h]
      BY <2>2, <3>1, <3>2 DEF CreateVolumeExistsResponse, ReturnVolume, ReturnError, TypeOK
    <3>3. CASE bound[name[h]] # uuid[h]
      <4>1. sizeGB[uuid[h]] = SizeGB(RequestedBytes(name[h]))
        BY <3>1, <3>3 DEF UnboundIsAsRequested
      <4>2. RequestedBytes(name[h]) \in Nat
        BY RequestedBounded, SizesBounded
      <4>3. SizeGB(RequestedBytes(name[h])) * giB = RequestedBytes(name[h])
        BY <4>2, WholeGiB
      <4> QED BY <2>2, <3>1, <4>1, <4>3
              DEF CreateVolumeExistsResponse, ReturnVolume, Live, TypeOK
    <3> QED BY <3>2, <3>3
  <2>3. CASE WaitForStorageOnline(h)
    <3>1. uuid[h] \in Storages
      BY <2>3 DEF WaitForStorageOnline, TypeOK
    <3>2. LastWait(h)
      BY <2>3 DEF WaitForStorageOnline, Continue, Goto, TypeOK, LastWait, Waiting
    <3> QED BY <2>3, <3>1, <3>2 DEF WaitForStorageOnline, ReturnVolume, Live, TypeOK
  <2>4. CASE CloneStep(h)
    BY <2>4 DEF CloneStep, FindSource, CloneBlockStorage, LabelClone, ResizeClone,
                ResizeStorageFilesystem, DeleteResizeBackup, HandlerKnows, Cloned, Resized
  <2>5. CASE ExpandBlockStorage(h) \/ ResizeBlockDevice(h) \/ DeleteBlockStorage(h)
    BY <2>5 DEF ExpandBlockStorage, ResizeBlockDevice, DeleteBlockStorage, HandlerKnows
  <2>6. CASE \/ Calls(h) \/ CreateBlockStorage(h) \/ DetailsFail(h) \/ ApiError(h)
             \/ Abandon(h) \/ Cancel(h)
    BY <2>6 DEF Calls, CreateVolume, DeleteVolume, ControllerExpandVolume, Call,
                CreateBlockStorage, DetailsFail, ApiError, Abandon, Cancel, Goto,
                ReturnFault, TypeOK
  <2>7. ASSUME NEW g \in Handlers, g # h, Calls(g) \/ Step(g) PROVE FALSE
    <3>1. pc' = [pc EXCEPT ![g] = pc'[g]]
      <4>1. CASE Calls(g)
        BY <4>1 DEF Calls, CreateVolume, DeleteVolume, ControllerExpandVolume, Call, TypeOK
      <4>2. CASE CreateStep(g)
        BY <4>2 DEF CreateStep, GetBlockStorageByName, CreateVolumeExistsResponse,
                          CreateBlockStorage, DetailsFail, CreateNew, Goto, ReturnVolume,
                          ReturnFault, ReturnError, Return, TypeOK
      <4>3. CASE CloneStep(g)
        BY <4>3 DEF CloneStep, FindSource, CloneBlockStorage, LabelClone, ResizeClone,
                    ResizeStorageFilesystem, DeleteResizeBackup, Then, Continue, Goto,
                    ReturnFault, ReturnError, Return, TypeOK
      <4>4. CASE \/ ExpandBlockStorage(g) \/ ResizeBlockDevice(g) \/ DeleteBlockStorage(g)
        BY <4>4 DEF ExpandBlockStorage, ResizeBlockDevice, DeleteBlockStorage, Then,
                    Continue, Goto, ReturnVolume, ReturnFault, ReturnError, Return, TypeOK
      <4>5. CASE \/ WaitForStorageOnline(g) \/ ApiError(g) \/ Abandon(g) \/ Cancel(g)
        BY <4>5 DEF WaitForStorageOnline, ApiError, Abandon, Cancel, Continue, Goto,
                    ReturnVolume, ReturnFault, Return, TypeOK
      <4> QED BY <2>7, <4>1, <4>2, <4>3, <4>4, <4>5 DEF Step
    <3> QED BY <2>7, <3>1 DEF TypeOK
  <2>8. CASE Environment
    BY <2>8 DEF Environment, StorageSettles, AttachmentChanges, StorageDeleted, Lands,
                Crash
  <2> QED BY <2>1, <2>2, <2>3, <2>4, <2>5, <2>6, <2>7, <2>8 DEF Next, Step, CreateStep
<1> QED BY Invariance, <1>1, PTL DEF Spec, CreateRecovers

=============================================================================
