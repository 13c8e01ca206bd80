------------------------- MODULE VolumeAttachProofs -------------------------
(***************************************************************************)
(* Proofs about VolumeAttach, for every number of handlers, volumes,       *)
(* servers, addresses and abandoned requests.                              *)
(*                                                                         *)
(* None of the four properties is inductive by itself.  IInv adds what     *)
(* they rest on: who may hold a mutex, that the request a handler serves   *)
(* fits the step it is at, that an abandoned request only ever concerns a  *)
(* disturbed server, and what a handler that no opposite RPC has overlapped*)
(* knows about the cloud.  One lemma per action shows that it keeps IInv.  *)
(***************************************************************************)
EXTENDS VolumeAttach, TLAPS

PublishStage   == {"publishServer", "publishVolume", "publishOnline",
                   "attachWait", "attachCall", "attachSettle"}
UnpublishStage == {"unpublishVolume", "unpublishServer"}
AllStage       == {"allVolume", "nextServer"}
DetachStage    == {"detachRead", "detachWait", "detachCall", "detachSettle"}

\* What a handler is doing determines which RPC it serves and on what.
Shape ==
    \A h \in Handlers :
        /\ pc[h] = "idle" => h \notin awaited
        /\ pc[h] # "idle" => vol[h] \in Volumes
        /\ pc[h] \in PublishStage => op[h] = "publish" /\ srv[h] \in Servers
        /\ pc[h] \in UnpublishStage => op[h] = "unpublish" /\ srv[h] \in Servers
        /\ pc[h] \in AllStage => op[h] = "unpublishAll"
        /\ pc[h] \in DetachStage =>
              op[h] \in {"unpublish", "unpublishAll"} /\ srv[h] \in Servers
        /\ pc[h] = "lock" =>
              op[h] \in {"publish", "unpublish", "unpublishAll"} /\ srv[h] \in Servers

\* The mutex of a server is held exactly while its holder is in the critical
\* section of AttachBlockStorage or DetachBlockStorage for that server.
LockOwned ==
    /\ \A h \in Handlers : pc[h] \in Locked => holder[srv[h]] = h
    /\ \A s \in Servers :
          holder[s] # NoHandler => pc[holder[s]] \in Locked /\ srv[holder[s]] = s

\* Deleted servers have no devices and deleted volumes are on no server.
CloudOK ==
    /\ \A s \in Servers \ servers : devices[s] = NoDevice
    /\ \A v \in Volumes \ volumes, s \in Servers, a \in Slots : devices[s][a] # v

\* A request is on the wire only for a server that counts as disturbed.
WireOK == \A i \in 1 .. MaxInFlight : wire[i] # NoRequest => wire[i].srv \in disturbed

\* No awaited RPC asks for the opposite of a clean one or of the ledger.
NoOpposite ==
    /\ \A g \in clean, h \in awaited :
          vol[g] = vol[h] => ~ Opposes(op[g], srv[g], op[h], srv[h])
    /\ \A h \in awaited, v \in Volumes, s \in Servers : vol[h] = v =>
          /\ ledger[v][s] = "published" => ~ Opposes("publish", s, op[h], srv[h])
          /\ ledger[v][s] = "unpublished" => ~ (op[h] = "publish" /\ srv[h] = s)

\* What a clean handler has learnt about the cloud is still so.
Knows(h) ==
    /\ /\ pc[h] = "attachSettle" \/ (pc[h] = "publishOnline" /\ srv[h] \in uuids[h])
       /\ srv[h] \in servers \ disturbed
       => vol[h] \in VolumesOn(srv[h])
    /\ pc[h] = "detachSettle" /\ srv[h] \notin disturbed
       => vol[h] \notin VolumesOn(srv[h])
    /\ op[h] = "unpublishAll" /\ pc[h] # "allVolume"
       => \A s \in Servers \ (uuids[h] \union disturbed) : vol[h] \notin VolumesOn(s)

Truth == \A h \in clean : Knows(h)

IInv ==
    /\ TypeOK
    /\ Shape
    /\ LockOwned
    /\ CloudOK
    /\ WireOK
    /\ NoOpposite
    /\ Truth
    /\ RequestFindsServerStarted
    /\ DetachAddressIsCurrent
    /\ PublishedIsAttached
    /\ UnpublishedIsDetached

-----------------------------------------------------------------------------
(***************************************************************************)
(* What the API does to the devices of a server.                           *)
(***************************************************************************)

\* A server without devices has a well-formed device list.
LEMMA NoDeviceType == NoDevice \in SlotMap
  BY DEF NoDevice, SlotMap

\* AttachStorage fills one address of one server and touches no other server.
LEMMA ApiAttachEffect ==
    ASSUME TypeOK, NEW s \in Servers, NEW v \in Volumes, NEW a \in Slots,
           ApiAttach(s, v, a)
    PROVE  /\ devices' \in [Servers -> SlotMap]
           /\ state' \in [Servers -> {"started", "maintenance"}]
           /\ \A t \in Servers, b \in Slots :
                 devices'[t][b] = IF t = s /\ b = a THEN v ELSE devices[t][b]
           /\ \A t \in Servers \ {s} : devices'[t] = devices[t] /\ state'[t] = state[t]
  BY DEF ApiAttach, TypeOK, SlotMap

\* DetachStorage frees one address of one server and touches no other server.
LEMMA ApiDetachEffect ==
    ASSUME TypeOK, NEW s \in Servers, NEW a \in Slots, ApiDetach(s, a)
    PROVE  /\ devices' \in [Servers -> SlotMap]
           /\ state' \in [Servers -> {"started", "maintenance"}]
           /\ \A t \in Servers, b \in Slots :
                 devices'[t][b] = IF t = s /\ b = a THEN NoVolume ELSE devices[t][b]
           /\ \A t \in Servers \ {s} : devices'[t] = devices[t] /\ state'[t] = state[t]
  BY DEF ApiDetach, TypeOK, SlotMap

-----------------------------------------------------------------------------
(***************************************************************************)
(* The ways a handler ends or begins.                                      *)
(***************************************************************************)

\* Returning an error releases the mutex and leaves the ledger alone.
LEMMA ReturnErrorKeeps ==
    ASSUME IInv, NEW h \in Handlers, ReturnError(h),
           UNCHANGED <<cloud, wire, disturbed>>
    PROVE  IInv'
<1> USE DEF IInv, TypeOK, ReturnError, Return, Unlock, cloud
<1>1. TypeOK'
  BY NoDeviceType DEF PCName, OpName
<1>2. Shape'
  BY DEF Shape, PublishStage, UnpublishStage, AllStage, DetachStage
<1>3. LockOwned'
  BY AttachAssumption DEF AttachAssumption, Shape, LockOwned, Locked, PublishStage, DetachStage
<1>4. CloudOK' /\ WireOK'
  BY DEF CloudOK, WireOK
<1>5. NoOpposite'
  BY DEF NoOpposite
<1>6. Truth'
  BY DEF Truth, Knows, VolumesOn
<1>7. RequestFindsServerStarted' /\ DetachAddressIsCurrent'
  BY DEF RequestFindsServerStarted, DetachAddressIsCurrent
<1>8. PublishedIsAttached'
  BY DEF PublishedIsAttached, VolumesOn
<1>9. UnpublishedIsDetached'
  BY DEF UnpublishedIsDetached, VolumesOn
<1> QED
  BY <1>1, <1>2, <1>3, <1>4, <1>5, <1>6, <1>7, <1>8, <1>9

\* Returning success keeps IInv when what it tells a clean caller is true.
LEMMA ReturnOKKeeps ==
    ASSUME IInv, NEW h \in Handlers, pc[h] # "idle",
           op[h] \in {"publish", "unpublish", "unpublishAll"},
           ReturnOK(h), UNCHANGED <<cloud, wire, disturbed>>,
           h \in clean /\ op[h] = "publish" /\ srv[h] \in servers \ disturbed
              => vol[h] \in VolumesOn(srv[h]),
           h \in clean /\ op[h] # "publish"
              => \A s \in Servers \ disturbed :
                    Answers(h, vol[h], s) => vol[h] \notin VolumesOn(s)
    PROVE  IInv'
<1> USE DEF IInv, TypeOK, ReturnOK, Return, Unlock, cloud
<1>1. TypeOK'
  <2>1. ledger' \in [Volumes -> [Servers -> {"unknown", "published", "unpublished"}]]
    OBVIOUS
  <2> QED
    BY <2>1, NoDeviceType DEF PCName, OpName
<1>2. Shape'
  BY DEF Shape, PublishStage, UnpublishStage, AllStage, DetachStage
<1>3. LockOwned'
  BY AttachAssumption DEF AttachAssumption, Shape, LockOwned, Locked, PublishStage, DetachStage
<1>4. CloudOK' /\ WireOK'
  BY DEF CloudOK, WireOK
<1>5. NoOpposite'
  <2>1. SUFFICES ASSUME NEW f \in awaited', NEW v \in Volumes, NEW s \in Servers, vol'[f] = v
                 PROVE  /\ ledger'[v][s] = "published" => ~ Opposes("publish", s, op'[f], srv'[f])
                        /\ ledger'[v][s] = "unpublished" => ~ (op'[f] = "publish" /\ srv'[f] = s)
    BY DEF NoOpposite
  <2>2. f \in Handlers /\ f \in awaited /\ f # h
    OBVIOUS
  <2>3. op'[f] = op[f] /\ srv'[f] = srv[f] /\ vol[f] = v
    BY <2>1, <2>2
  <2>4. CASE h \in clean /\ Answers(h, v, s)
    <3>1. ~ Opposes(op[h], srv[h], op[f], srv[f])
      BY <2>2, <2>3, <2>4 DEF NoOpposite, Answers
    <3> QED
      BY <2>2, <2>3, <2>4, <3>1 DEF Opposes, Answers
  <2>5. CASE ~ (h \in clean /\ Answers(h, v, s))
    BY <2>2, <2>3, <2>5 DEF NoOpposite
  <2> QED
    BY <2>4, <2>5
<1>6. Truth'
  BY DEF Truth, Knows, VolumesOn
<1>7. RequestFindsServerStarted' /\ DetachAddressIsCurrent'
  BY DEF RequestFindsServerStarted, DetachAddressIsCurrent
<1>8. PublishedIsAttached' /\ UnpublishedIsDetached'
  BY DEF PublishedIsAttached, UnpublishedIsDetached, VolumesOn, Answers
<1> QED
  BY <1>1, <1>2, <1>3, <1>4, <1>5, <1>6, <1>7, <1>8

\* What srv can be: a server, or none when all nodes are meant.
MaybeServer == Servers \union {NoServer}

\* A new RPC keeps IInv when the ledger forgets what the RPC opposes.
LEMMA StartKeeps ==
    ASSUME IInv, NEW h \in Handlers, NEW v \in Volumes,
           NEW s \in MaybeServer, NEW o \in OpName, NEW first \in PCName,
           Start(h, o, v, s, first),
           \/ o = "publish" /\ first = "publishServer" /\ s \in Servers
           \/ o = "unpublish" /\ first = "unpublishVolume" /\ s \in Servers
           \/ o = "unpublishAll" /\ first = "allVolume",
           ledger' \in [Volumes -> [Servers -> {"unknown", "published", "unpublished"}]],
           \A w \in Volumes, t \in Servers :
              /\ ledger'[w][t] \in {ledger[w][t], "unknown"}
              /\ w = v /\ Opposes("publish", t, o, s) => ledger'[w][t] # "published"
              /\ w = v /\ o = "publish" /\ s = t => ledger'[w][t] # "unpublished"
    PROVE  IInv'
<1> USE DEF IInv, TypeOK, Start, Contrary, cloud, reads, MaybeServer
<1>1. TypeOK'
  BY DEF PCName, ApiStep, OpName
<1>2. Shape'
  BY DEF Shape, PublishStage, UnpublishStage, AllStage, DetachStage
<1>3. LockOwned'
  BY AttachAssumption DEF AttachAssumption, LockOwned, Locked
<1>4. CloudOK' /\ WireOK'
  BY DEF CloudOK, WireOK
<1>5. NoOpposite'
  BY DEF NoOpposite, Opposes, Shape
<1>6. Truth'
  BY DEF Truth, Knows, VolumesOn
<1>7. RequestFindsServerStarted' /\ DetachAddressIsCurrent'
  BY DEF RequestFindsServerStarted, DetachAddressIsCurrent
<1>8. PublishedIsAttached'
  <2>1. \A w \in Volumes, t \in Servers : ledger'[w][t] = "published" => ledger[w][t] = "published"
    OBVIOUS
  <2> QED
    BY <2>1 DEF PublishedIsAttached, VolumesOn
<1>9. UnpublishedIsDetached'
  BY DEF UnpublishedIsDetached, VolumesOn
<1> QED
  BY <1>1, <1>2, <1>3, <1>4, <1>5, <1>6, <1>7, <1>8, <1>9

\* Every RPC that the orchestrator calls keeps IInv.
LEMMA CallKeeps ==
    ASSUME IInv, NEW h \in Handlers, Call(h)
    PROVE  IInv'
<1>1. PICK v \in Volumes :
         \/ \E s \in Servers : \/ ControllerPublishVolume(h, v, s)
                               \/ ControllerUnpublishVolume(h, v, s)
         \/ ControllerUnpublishVolumeAll(h, v)
  BY DEF Call
<1>2. ASSUME NEW s \in Servers, ControllerPublishVolume(h, v, s) PROVE IInv'
  <2>1. /\ ledger' \in [Volumes -> [Servers -> {"unknown", "published", "unpublished"}]]
        /\ \A w \in Volumes, t \in Servers :
              ledger'[w][t] = IF w = v /\ t = s /\ ledger[w][t] = "unpublished"
                              THEN "unknown" ELSE ledger[w][t]
    BY <1>2 DEF ControllerPublishVolume, IInv, TypeOK
  <2>2. Start(h, "publish", v, s, "publishServer")
    BY <1>2 DEF ControllerPublishVolume
  <2>3. \A w \in Volumes, t \in Servers :
           /\ ledger'[w][t] \in {ledger[w][t], "unknown"}
           /\ w = v /\ Opposes("publish", t, "publish", s) => ledger'[w][t] # "published"
           /\ w = v /\ "publish" = "publish" /\ s = t => ledger'[w][t] # "unpublished"
    BY <2>1 DEF Opposes
  <2>4. s \in MaybeServer
    BY DEF MaybeServer
  <2>5. \/ "publish" = "publish" /\ "publishServer" = "publishServer" /\ s \in Servers
        \/ "publish" = "unpublish" /\ "publishServer" = "unpublishVolume" /\ s \in Servers
        \/ "publish" = "unpublishAll" /\ "publishServer" = "allVolume"
    OBVIOUS
  <2>6. "publish" \in OpName /\ "publishServer" \in PCName
    BY DEF OpName, PCName, ApiStep
  <2> QED
    BY <2>1, <2>2, <2>3, <2>4, <2>5, <2>6, StartKeeps
<1>3. ASSUME NEW s \in Servers, ControllerUnpublishVolume(h, v, s) PROVE IInv'
  <2>1. /\ ledger' \in [Volumes -> [Servers -> {"unknown", "published", "unpublished"}]]
        /\ \A w \in Volumes, t \in Servers :
              ledger'[w][t] = IF w = v /\ t = s /\ ledger[w][t] = "published"
                              THEN "unknown" ELSE ledger[w][t]
    BY <1>3 DEF ControllerUnpublishVolume, IInv, TypeOK
  <2>2. Start(h, "unpublish", v, s, "unpublishVolume")
    BY <1>3 DEF ControllerUnpublishVolume
  <2>3. \A w \in Volumes, t \in Servers :
           /\ ledger'[w][t] \in {ledger[w][t], "unknown"}
           /\ w = v /\ Opposes("publish", t, "unpublish", s) => ledger'[w][t] # "published"
           /\ w = v /\ "unpublish" = "publish" /\ s = t => ledger'[w][t] # "unpublished"
    BY <2>1 DEF Opposes
  <2>4. s \in MaybeServer
    BY DEF MaybeServer
  <2>5. \/ "unpublish" = "publish" /\ "unpublishVolume" = "publishServer" /\ s \in Servers
        \/ "unpublish" = "unpublish" /\ "unpublishVolume" = "unpublishVolume" /\ s \in Servers
        \/ "unpublish" = "unpublishAll" /\ "unpublishVolume" = "allVolume"
    OBVIOUS
  <2>6. "unpublish" \in OpName /\ "unpublishVolume" \in PCName
    BY DEF OpName, PCName, ApiStep
  <2> QED
    BY <2>1, <2>2, <2>3, <2>4, <2>5, <2>6, StartKeeps
<1>4. ASSUME ControllerUnpublishVolumeAll(h, v) PROVE IInv'
  <2>1. /\ ledger' \in [Volumes -> [Servers -> {"unknown", "published", "unpublished"}]]
        /\ \A w \in Volumes, t \in Servers :
              ledger'[w][t] = IF w = v /\ ledger[w][t] = "published"
                              THEN "unknown" ELSE ledger[w][t]
    BY <1>4 DEF ControllerUnpublishVolumeAll, IInv, TypeOK
  <2>2. Start(h, "unpublishAll", v, NoServer, "allVolume")
    BY <1>4 DEF ControllerUnpublishVolumeAll
  <2>3. \A w \in Volumes, t \in Servers :
           /\ ledger'[w][t] \in {ledger[w][t], "unknown"}
           /\ w = v /\ Opposes("publish", t, "unpublishAll", NoServer) => ledger'[w][t] # "published"
           /\ w = v /\ "unpublishAll" = "publish" /\ NoServer = t => ledger'[w][t] # "unpublished"
    BY <2>1 DEF Opposes
  <2>4. NoServer \in MaybeServer
    BY DEF MaybeServer
  <2>5. \/ "unpublishAll" = "publish" /\ "allVolume" = "publishServer" /\ NoServer \in Servers
        \/ "unpublishAll" = "unpublish" /\ "allVolume" = "unpublishVolume" /\ NoServer \in Servers
        \/ "unpublishAll" = "unpublishAll" /\ "allVolume" = "allVolume"
    OBVIOUS
  <2>6. "unpublishAll" \in OpName /\ "allVolume" \in PCName
    BY DEF OpName, PCName, ApiStep
  <2> QED
    BY <2>1, <2>2, <2>3, <2>4, <2>5, <2>6, StartKeeps
<1> QED
  BY <1>1, <1>2, <1>3, <1>4

-----------------------------------------------------------------------------
(***************************************************************************)
(* Steps that only read the cloud or take the mutex.                       *)
(***************************************************************************)

\* Reading the server keeps IInv.
LEMMA FindPublishServerKeeps ==
    ASSUME IInv, NEW h \in Handlers, FindPublishServer(h)
    PROVE  IInv'
<1>1. CASE srv[h] \notin servers
  BY <1>1, ReturnErrorKeeps DEF FindPublishServer
<1>2. CASE srv[h] \in servers
  <2> USE <1>2 DEF IInv, TypeOK, FindPublishServer, Goto, request, cloud
  <2>1. TypeOK'
    BY DEF PCName, ApiStep
  <2>2. Shape'
    BY DEF Shape, PublishStage, UnpublishStage, AllStage, DetachStage
  <2>3. LockOwned'
    BY AttachAssumption DEF AttachAssumption, LockOwned, Locked
  <2>4. CloudOK' /\ WireOK'
    BY DEF CloudOK, WireOK
  <2>5. NoOpposite'
    BY DEF NoOpposite
  <2>6. Truth'
    BY DEF Truth, Knows, VolumesOn
  <2>7. RequestFindsServerStarted' /\ DetachAddressIsCurrent'
    BY DEF RequestFindsServerStarted, DetachAddressIsCurrent
  <2>8. PublishedIsAttached' /\ UnpublishedIsDetached'
    BY DEF PublishedIsAttached, UnpublishedIsDetached, VolumesOn
  <2> QED
    BY <2>1, <2>2, <2>3, <2>4, <2>5, <2>6, <2>7, <2>8
<1> QED
  BY <1>1, <1>2

\* Reading the volume tells a clean publish the truth about its server.
LEMMA FindPublishVolumeKeeps ==
    ASSUME IInv, NEW h \in Handlers, FindPublishVolume(h)
    PROVE  IInv'
<1>1. CASE vol[h] \notin volumes
  BY <1>1, ReturnErrorKeeps DEF FindPublishVolume
<1>2. CASE vol[h] \in volumes
  <2> USE <1>2 DEF IInv, TypeOK, FindPublishVolume, Goto, request, cloud
  <2>1. TypeOK'
    BY DEF PCName, ApiStep, ServerUUIDs
  <2>2. Shape'
    BY DEF Shape, PublishStage, UnpublishStage, AllStage, DetachStage
  <2>3. LockOwned'
    BY AttachAssumption DEF AttachAssumption, LockOwned, Locked
  <2>4. CloudOK' /\ WireOK'
    BY DEF CloudOK, WireOK
  <2>5. NoOpposite'
    BY DEF NoOpposite
  <2>6. Truth'
    BY DEF Truth, Knows, VolumesOn, ServerUUIDs, Shape, PublishStage
  <2>7. RequestFindsServerStarted' /\ DetachAddressIsCurrent'
    BY DEF RequestFindsServerStarted, DetachAddressIsCurrent
  <2>8. PublishedIsAttached' /\ UnpublishedIsDetached'
    BY DEF PublishedIsAttached, UnpublishedIsDetached, VolumesOn
  <2> QED
    BY <2>1, <2>2, <2>3, <2>4, <2>5, <2>6, <2>7, <2>8
<1> QED
  BY <1>1, <1>2

\* A handler that goes on to wait for the mutex has changed nothing shared.
LEMMA ToLockKeeps ==
    ASSUME IInv, NEW h \in Handlers, pc[h] \in {"publishOnline", "unpublishServer"},
           Goto(h, "lock"), UNCHANGED <<srv, uuids, holder, cloud, wire, disturbed>>,
           dev' = dev \/ dev' = [dev EXCEPT ![h] = NoDevice]
    PROVE  IInv'
<1> USE DEF IInv, TypeOK, Goto, request, cloud
<1>1. TypeOK'
  BY NoDeviceType DEF PCName
<1>2. Shape'
  BY DEF Shape, PublishStage, UnpublishStage, AllStage, DetachStage
<1>3. LockOwned'
  BY AttachAssumption DEF AttachAssumption, LockOwned, Locked
<1>4. CloudOK' /\ WireOK'
  BY DEF CloudOK, WireOK
<1>5. NoOpposite'
  BY DEF NoOpposite
<1>6. Truth'
  BY DEF Truth, Knows, VolumesOn, Shape, PublishStage, UnpublishStage
<1>7. RequestFindsServerStarted' /\ DetachAddressIsCurrent'
  BY DEF RequestFindsServerStarted, DetachAddressIsCurrent
<1>8. PublishedIsAttached' /\ UnpublishedIsDetached'
  BY DEF PublishedIsAttached, UnpublishedIsDetached, VolumesOn
<1> QED
  BY <1>1, <1>2, <1>3, <1>4, <1>5, <1>6, <1>7, <1>8

\* The decisions of attachVolumeToServer keep IInv; "already attached" is
\* true for a clean handler although the volume was read earlier.
LEMMA AttachVolumeToServerKeeps ==
    ASSUME IInv, NEW h \in Handlers, AttachVolumeToServer(h)
    PROVE  IInv'
<1>1. pc[h] = "publishOnline" /\ op[h] = "publish" /\ srv[h] \in Servers
  BY DEF AttachVolumeToServer, IInv, Shape, PublishStage
<1>2. ASSUME srv[h] \in uuids[h], ReturnOK(h) PROVE IInv'
  <2>1. h \in clean /\ srv[h] \in servers \ disturbed => vol[h] \in VolumesOn(srv[h])
    BY <1>1, <1>2 DEF IInv, Truth, Knows
  <2> QED
    BY <1>1, <1>2, <2>1, ReturnOKKeeps DEF AttachVolumeToServer
<1>3. ASSUME ReturnError(h) PROVE IInv'
  BY <1>3, ReturnErrorKeeps DEF AttachVolumeToServer
<1>4. ASSUME Goto(h, "lock"), UNCHANGED <<srv, uuids, holder>>,
             dev' = [dev EXCEPT ![h] = NoDevice]
      PROVE  IInv'
  BY <1>1, <1>4, ToLockKeeps DEF AttachVolumeToServer
<1> QED
  BY <1>2, <1>3, <1>4 DEF AttachVolumeToServer

\* mutex.Lock gives the server's mutex to exactly one handler.
LEMMA LockServerKeeps ==
    ASSUME IInv, NEW h \in Handlers, LockServer(h)
    PROVE  IInv'
<1> USE DEF IInv, TypeOK, LockServer, Goto, request, reads, cloud
<1>1. TypeOK'
  BY DEF PCName, ApiStep, Locked
<1>2. Shape'
  BY DEF Shape, PublishStage, UnpublishStage, AllStage, DetachStage
<1>3. LockOwned'
  BY AttachAssumption DEF AttachAssumption, LockOwned, Locked, Shape, PublishStage, DetachStage
<1>4. CloudOK' /\ WireOK'
  BY DEF CloudOK, WireOK
<1>5. NoOpposite'
  BY DEF NoOpposite
<1>6. Truth'
  BY DEF Truth, Knows, VolumesOn
<1>7. RequestFindsServerStarted' /\ DetachAddressIsCurrent'
  BY DEF RequestFindsServerStarted, DetachAddressIsCurrent
<1>8. PublishedIsAttached' /\ UnpublishedIsDetached'
  BY DEF PublishedIsAttached, UnpublishedIsDetached, VolumesOn
<1> QED
  BY <1>1, <1>2, <1>3, <1>4, <1>5, <1>6, <1>7, <1>8

\* A wait that succeeds leaves the handler facing a started server.
LEMMA WaitKeeps ==
    ASSUME IInv, NEW h \in Handlers, AttachWait(h) \/ DetachWait(h)
    PROVE  IInv'
<1> USE DEF IInv, TypeOK, AttachWait, DetachWait, ServerOnline, Goto, request, reads, cloud
<1>1. TypeOK'
  BY DEF PCName, ApiStep, Locked
<1>2. Shape'
  BY DEF Shape, PublishStage, UnpublishStage, AllStage, DetachStage
<1>3. LockOwned'
  BY AttachAssumption DEF AttachAssumption, LockOwned, Locked
<1>4. CloudOK' /\ WireOK'
  BY DEF CloudOK, WireOK
<1>5. NoOpposite'
  BY DEF NoOpposite
<1>6. Truth'
  BY DEF Truth, Knows, VolumesOn
<1>7. RequestFindsServerStarted' /\ DetachAddressIsCurrent'
  BY DEF RequestFindsServerStarted, DetachAddressIsCurrent
<1>8. PublishedIsAttached' /\ UnpublishedIsDetached'
  BY DEF PublishedIsAttached, UnpublishedIsDetached, VolumesOn
<1> QED
  BY <1>1, <1>2, <1>3, <1>4, <1>5, <1>6, <1>7, <1>8

\* Reading the server under the mutex gives current addresses and, when the
\* wait is skipped, a started server.
LEMMA DetachReadKeeps ==
    ASSUME IInv, NEW h \in Handlers, DetachRead(h)
    PROVE  IInv'
<1> USE DEF IInv, TypeOK, DetachRead, Goto, request, cloud
<1>1. TypeOK'
  BY DEF PCName, ApiStep, Locked
<1>2. Shape'
  BY DEF Shape, PublishStage, UnpublishStage, AllStage, DetachStage
<1>3. LockOwned'
  BY AttachAssumption DEF AttachAssumption, LockOwned, Locked
<1>4. CloudOK' /\ WireOK'
  BY DEF CloudOK, WireOK
<1>5. NoOpposite'
  BY DEF NoOpposite
<1>6. Truth'
  BY DEF Truth, Knows, VolumesOn
<1>7. RequestFindsServerStarted' /\ DetachAddressIsCurrent'
  BY DEF RequestFindsServerStarted, DetachAddressIsCurrent
<1>8. PublishedIsAttached' /\ UnpublishedIsDetached'
  BY DEF PublishedIsAttached, UnpublishedIsDetached, VolumesOn
<1> QED
  BY <1>1, <1>2, <1>3, <1>4, <1>5, <1>6, <1>7, <1>8

\* "Storage not found" is a true answer: a deleted volume is on no server.
LEMMA FindUnpublishVolumeKeeps ==
    ASSUME IInv, NEW h \in Handlers, FindUnpublishVolume(h)
    PROVE  IInv'
<1>1. pc[h] = "unpublishVolume" /\ op[h] = "unpublish" /\ vol[h] \in Volumes
  BY DEF FindUnpublishVolume, IInv, Shape, UnpublishStage
<1>2. CASE vol[h] \notin volumes
  <2>1. \A s \in Servers : vol[h] \notin VolumesOn(s)
    BY <1>1, <1>2 DEF IInv, CloudOK, VolumesOn
  <2> QED
    BY <1>1, <1>2, <2>1, ReturnOKKeeps DEF FindUnpublishVolume
<1>3. CASE vol[h] \in volumes
  <2> USE <1>3 DEF IInv, TypeOK, FindUnpublishVolume, Goto, request, reads, cloud
  <2>1. TypeOK'
    BY DEF PCName, ApiStep
  <2>2. Shape'
    BY DEF Shape, PublishStage, UnpublishStage, AllStage, DetachStage
  <2>3. LockOwned'
    BY AttachAssumption DEF AttachAssumption, LockOwned, Locked
  <2>4. CloudOK' /\ WireOK'
    BY DEF CloudOK, WireOK
  <2>5. NoOpposite'
    BY DEF NoOpposite
  <2>6. Truth'
    BY <1>1 DEF Truth, Knows, VolumesOn
  <2>7. RequestFindsServerStarted' /\ DetachAddressIsCurrent'
    BY DEF RequestFindsServerStarted, DetachAddressIsCurrent
  <2>8. PublishedIsAttached' /\ UnpublishedIsDetached'
    BY DEF PublishedIsAttached, UnpublishedIsDetached, VolumesOn
  <2> QED
    BY <2>1, <2>2, <2>3, <2>4, <2>5, <2>6, <2>7, <2>8
<1> QED
  BY <1>2, <1>3

\* "Server not found" is a true answer: a deleted server has no devices.
LEMMA FindUnpublishServerKeeps ==
    ASSUME IInv, NEW h \in Handlers, FindUnpublishServer(h)
    PROVE  IInv'
<1>1. /\ pc[h] = "unpublishServer" /\ op[h] = "unpublish"
      /\ vol[h] \in Volumes /\ srv[h] \in Servers
  BY DEF FindUnpublishServer, IInv, Shape, UnpublishStage
<1>2. CASE srv[h] \notin servers
  <2>1. vol[h] \notin VolumesOn(srv[h])
    BY <1>1, <1>2, AttachAssumption DEF AttachAssumption, IInv, CloudOK, VolumesOn, NoDevice
  <2> QED
    BY <1>1, <1>2, <2>1, ReturnOKKeeps DEF FindUnpublishServer, Answers
<1>3. CASE srv[h] \in servers
  BY <1>1, <1>3, ToLockKeeps DEF FindUnpublishServer, reads
<1> QED
  BY <1>2, <1>3

\* Reading the volume's servers tells a clean unpublish-from-all-nodes where
\* the volume is.
LEMMA FindAllServersKeeps ==
    ASSUME IInv, NEW h \in Handlers, FindAllServers(h)
    PROVE  IInv'
<1>1. pc[h] = "allVolume" /\ op[h] = "unpublishAll" /\ vol[h] \in Volumes
  BY DEF FindAllServers, IInv, Shape, AllStage
<1>2. CASE vol[h] \notin volumes
  <2>1. \A s \in Servers : vol[h] \notin VolumesOn(s)
    BY <1>1, <1>2 DEF IInv, CloudOK, VolumesOn
  <2> QED
    BY <1>1, <1>2, <2>1, ReturnOKKeeps DEF FindAllServers
<1>3. CASE vol[h] \in volumes
  <2> USE <1>3 DEF IInv, TypeOK, FindAllServers, Goto, request, cloud
  <2>1. TypeOK'
    BY DEF PCName, ApiStep, ServerUUIDs
  <2>2. Shape'
    BY DEF Shape, PublishStage, UnpublishStage, AllStage, DetachStage
  <2>3. LockOwned'
    BY AttachAssumption DEF AttachAssumption, LockOwned, Locked
  <2>4. CloudOK' /\ WireOK'
    BY DEF CloudOK, WireOK
  <2>5. NoOpposite'
    BY DEF NoOpposite
  <2>6. Truth'
    BY <1>1 DEF Truth, Knows, VolumesOn, ServerUUIDs
  <2>7. RequestFindsServerStarted' /\ DetachAddressIsCurrent'
    BY DEF RequestFindsServerStarted, DetachAddressIsCurrent
  <2>8. PublishedIsAttached' /\ UnpublishedIsDetached'
    BY DEF PublishedIsAttached, UnpublishedIsDetached, VolumesOn
  <2> QED
    BY <2>1, <2>2, <2>3, <2>4, <2>5, <2>6, <2>7, <2>8
<1> QED
  BY <1>2, <1>3

-----------------------------------------------------------------------------
(***************************************************************************)
(* The end of a detach and the loop over all nodes.                        *)
(***************************************************************************)

\* The head of the loop: an empty list means the volume is nowhere.
LEMMA NextServerKeeps ==
    ASSUME IInv, NEW h \in Handlers, NextServer(h)
    PROVE  IInv'
<1>1. pc[h] = "nextServer" /\ op[h] = "unpublishAll" /\ vol[h] \in Volumes
  BY DEF NextServer, IInv, Shape, AllStage
<1>2. ASSUME uuids[h] = {}, ReturnOK(h) PROVE IInv'
  <2>1. h \in clean => \A s \in Servers \ disturbed : vol[h] \notin VolumesOn(s)
    BY <1>1, <1>2 DEF IInv, Truth, Knows
  <2> QED
    BY <1>1, <1>2, <2>1, ReturnOKKeeps DEF NextServer
<1>3. ASSUME NEW s \in uuids[h], srv' = [srv EXCEPT ![h] = s], Goto(h, "lock"),
             UNCHANGED <<reads, holder>>
      PROVE  IInv'
  <2> USE <1>3 DEF IInv, TypeOK, Goto, request, reads, cloud
  <2>1. UNCHANGED <<cloud, wire, disturbed>> /\ s \in Servers
    BY DEF NextServer
  <2>2. TypeOK'
    BY <2>1 DEF PCName
  <2>3. Shape'
    BY <1>1, <2>1 DEF Shape, PublishStage, UnpublishStage, AllStage, DetachStage
  <2>4. LockOwned'
    BY <1>1, <2>1, AttachAssumption DEF AttachAssumption, LockOwned, Locked
  <2>5. CloudOK' /\ WireOK'
    BY <2>1 DEF CloudOK, WireOK
  <2>6. NoOpposite'
    <3>1. \A g, f \in Handlers : Opposes(op[g], srv'[g], op[f], srv'[f])
                                   <=> Opposes(op[g], srv[g], op[f], srv[f])
      BY <1>1 DEF Opposes
    <3>2. \A t \in Servers, f \in Handlers : Opposes("publish", t, op[f], srv'[f])
                                               <=> Opposes("publish", t, op[f], srv[f])
      BY <1>1 DEF Opposes
    <3>3. \A f \in Handlers : op[f] = "publish" => srv'[f] = srv[f]
      BY <1>1
    <3> QED
      BY <3>1, <3>2, <3>3 DEF NoOpposite
  <2>7. Truth'
    <3>1. SUFFICES ASSUME NEW g \in clean PROVE Knows(g)'
      BY DEF Truth
    <3>2. Knows(g) /\ g \in Handlers
      BY DEF Truth
    <3>3. CASE g = h
      BY <1>1, <2>1, <3>2, <3>3 DEF Knows, VolumesOn
    <3>4. CASE g # h
      BY <2>1, <3>2, <3>4 DEF Knows, VolumesOn
    <3> QED
      BY <3>3, <3>4
  <2>8. RequestFindsServerStarted' /\ DetachAddressIsCurrent'
    BY <2>1 DEF RequestFindsServerStarted, DetachAddressIsCurrent
  <2>9. PublishedIsAttached' /\ UnpublishedIsDetached'
    BY <2>1 DEF PublishedIsAttached, UnpublishedIsDetached, VolumesOn
  <2> QED
    BY <2>2, <2>3, <2>4, <2>5, <2>6, <2>7, <2>8, <2>9
<1> QED
  BY <1>2, <1>3 DEF NextServer

\* DetachBlockStorage is done with a server the volume is not on.
LEMMA DetachedKeeps ==
    ASSUME IInv, NEW h \in Handlers, pc[h] \in {"detachCall", "detachSettle"},
           Detached(h), UNCHANGED <<cloud, wire, disturbed>>,
           h \in clean /\ srv[h] \notin disturbed => vol[h] \notin VolumesOn(srv[h])
    PROVE  IInv'
<1>1. /\ op[h] \in {"unpublish", "unpublishAll"}
      /\ srv[h] \in Servers /\ vol[h] \in Volumes
  BY DEF IInv, Shape, DetachStage
<1>2. CASE op[h] = "unpublish"
  BY <1>1, <1>2, ReturnOKKeeps DEF Detached, Answers
<1>3. CASE op[h] = "unpublishAll"
  <2> USE <1>3 DEF IInv, TypeOK, Detached, Goto, request, cloud
  <2>1. TypeOK'
    <3>1. uuids' \in [Handlers -> SUBSET Servers]
      OBVIOUS
    <3>2. holder' \in [Servers -> Handlers \union {NoHandler}]
      BY DEF Unlock
    <3>3. dev' \in [Handlers -> SlotMap]
      BY NoDeviceType
    <3> QED
      BY <3>1, <3>2, <3>3 DEF PCName
  <2>2. Shape'
    BY <1>1 DEF Shape, PublishStage, UnpublishStage, AllStage, DetachStage
  <2>3. LockOwned'
    BY AttachAssumption DEF AttachAssumption, Unlock, LockOwned, Locked, Shape, PublishStage, DetachStage
  <2>4. CloudOK' /\ WireOK'
    BY DEF CloudOK, WireOK
  <2>5. NoOpposite'
    <3>1. \A g, f \in Handlers : Opposes(op[g], srv'[g], op[f], srv'[f])
                                   <=> Opposes(op[g], srv[g], op[f], srv[f])
      BY DEF Opposes
    <3>2. \A t \in Servers, f \in Handlers : Opposes("publish", t, op[f], srv'[f])
                                               <=> Opposes("publish", t, op[f], srv[f])
      BY DEF Opposes
    <3>3. \A f \in Handlers : op[f] = "publish" => srv'[f] = srv[f]
      OBVIOUS
    <3> QED
      BY <3>1, <3>2, <3>3 DEF NoOpposite
  <2>6. Truth'
    <3>1. SUFFICES ASSUME NEW g \in clean PROVE Knows(g)'
      BY DEF Truth
    <3>2. Knows(g) /\ g \in Handlers
      BY DEF Truth
    <3>3. CASE g = h
      BY <1>1, <3>2, <3>3 DEF Knows, VolumesOn
    <3>4. CASE g # h
      BY <3>2, <3>4 DEF Knows, VolumesOn
    <3> QED
      BY <3>3, <3>4
  <2>7. RequestFindsServerStarted' /\ DetachAddressIsCurrent'
    BY DEF RequestFindsServerStarted, DetachAddressIsCurrent
  <2>8. PublishedIsAttached' /\ UnpublishedIsDetached'
    BY DEF PublishedIsAttached, UnpublishedIsDetached, VolumesOn
  <2> QED
    BY <2>1, <2>2, <2>3, <2>4, <2>5, <2>6, <2>7, <2>8
<1> QED
  BY <1>1, <1>2, <1>3

\* "Volume was already detached" is true: the device list read under the
\* mutex is current.
LEMMA DetachNotFoundKeeps ==
    ASSUME IInv, NEW h \in Handlers, DetachNotFound(h)
    PROVE  IInv'
<1>1. pc[h] = "detachCall" /\ srv[h] \in Servers /\ vol[h] \in Volumes
  BY DEF DetachNotFound, IInv, Shape, DetachStage
<1>2. srv[h] \in servers \ disturbed => vol[h] \notin VolumesOn(srv[h])
  BY <1>1 DEF DetachNotFound, AddressesOf, IInv, DetachAddressIsCurrent, VolumesOn
<1>3. srv[h] \notin servers => vol[h] \notin VolumesOn(srv[h])
  BY <1>1, AttachAssumption DEF AttachAssumption, IInv, CloudOK, VolumesOn, NoDevice
<1> QED
  BY <1>1, <1>2, <1>3, DetachedKeeps DEF DetachNotFound

\* The final wait of a detach.
LEMMA DetachSettleKeeps ==
    ASSUME IInv, NEW h \in Handlers, DetachSettle(h)
    PROVE  IInv'
<1>1. h \in clean /\ srv[h] \notin disturbed => vol[h] \notin VolumesOn(srv[h])
  BY DEF DetachSettle, IInv, Truth, Knows
<1> QED
  BY <1>1, DetachedKeeps DEF DetachSettle

\* The final wait of an attach.
LEMMA AttachSettleKeeps ==
    ASSUME IInv, NEW h \in Handlers, AttachSettle(h)
    PROVE  IInv'
<1>1. pc[h] = "attachSettle" /\ op[h] = "publish" /\ srv[h] \in Servers
  BY DEF AttachSettle, IInv, Shape, PublishStage
<1>2. h \in clean /\ srv[h] \in servers \ disturbed => vol[h] \in VolumesOn(srv[h])
  BY <1>1 DEF IInv, Truth, Knows
<1> QED
  BY <1>1, <1>2, ReturnOKKeeps DEF AttachSettle

-----------------------------------------------------------------------------
(***************************************************************************)
(* Requests that change the cloud.                                         *)
(***************************************************************************)

\* No other handler is in the critical section of a server that h holds.
LEMMA OnlyHolder ==
    ASSUME IInv, NEW h \in Handlers, NEW g \in Handlers, g # h,
           pc[h] \in Locked, pc[g] \in Locked
    PROVE  srv[g] # srv[h]
  BY DEF IInv, LockOwned

\* AttachStorage, answered.
LEMMA AttachCallKeeps ==
    ASSUME IInv, NEW h \in Handlers, AttachCall(h)
    PROVE  IInv'
<1>1. /\ pc[h] = "attachCall" /\ h \in awaited /\ op[h] = "publish"
      /\ srv[h] \in Servers /\ vol[h] \in Volumes
      /\ pc' = [pc EXCEPT ![h] = "attachSettle"]
      /\ UNCHANGED <<op, vol, srv, awaited, clean, dev, uuids, holder, servers,
                     volumes, wire, ledger, disturbed>>
  BY DEF AttachCall, Goto, request, reads, IInv, Shape, PublishStage
<1>2. PICK a \in Slots : ApiAttach(srv[h], vol[h], a)
  BY DEF AttachCall
<1>3. /\ devices' \in [Servers -> SlotMap]
      /\ state' \in [Servers -> {"started", "maintenance"}]
      /\ \A t \in Servers, b \in Slots :
            devices'[t][b] = IF t = srv[h] /\ b = a THEN vol[h] ELSE devices[t][b]
      /\ \A t \in Servers \ {srv[h]} : devices'[t] = devices[t] /\ state'[t] = state[t]
  BY <1>1, <1>2, ApiAttachEffect DEF IInv
<1>4. \A s \in Servers, v \in Volumes :
         v \in VolumesOn(s)' <=> v \in VolumesOn(s) \/ (s = srv[h] /\ v = vol[h])
  <2>1. devices[srv[h]][a] = NoVolume
    BY <1>2 DEF ApiAttach
  <2> QED
    BY <1>1, <1>3, <2>1, AttachAssumption DEF VolumesOn, AttachAssumption
<1>5. \A g \in clean : vol[g] = vol[h] =>
         op[g] # "unpublishAll" /\ (op[g] = "unpublish" => srv[g] # srv[h])
  BY <1>1 DEF IInv, NoOpposite, Opposes
<1>6. TypeOK'
  BY <1>1, <1>3 DEF IInv, TypeOK, PCName, ApiStep, Locked
<1>7. Shape'
  BY <1>1 DEF IInv, TypeOK, Shape, PublishStage, UnpublishStage, AllStage, DetachStage
<1>8. LockOwned'
  BY <1>1, AttachAssumption DEF AttachAssumption, IInv, TypeOK, LockOwned, Locked
<1>9. CloudOK'
  BY <1>1, <1>2, <1>3 DEF IInv, TypeOK, CloudOK, ApiAttach
<1>10. WireOK' /\ NoOpposite'
  BY <1>1 DEF IInv, WireOK, NoOpposite
<1>11. Truth'
  <2>1. SUFFICES ASSUME NEW g \in clean PROVE Knows(g)'
    BY <1>1 DEF Truth
  <2>2. Knows(g) /\ g \in Handlers /\ (g # h => pc'[g] = pc[g])
    BY <1>1 DEF IInv, TypeOK, Truth
  <2>3. CASE g = h
    BY <1>1, <1>4, <2>3 DEF Knows
  <2>4. CASE g # h
    <3>1. /\ pc[g] # "idle" /\ vol[g] \in Volumes
          /\ pc[g] = "detachSettle" =>
                op[g] \in {"unpublish", "unpublishAll"} /\ srv[g] \in Servers
          /\ pc[g] \in {"attachSettle", "publishOnline"} => srv[g] \in Servers
      BY <2>2 DEF IInv, Shape, DetachStage, PublishStage, TypeOK
    <3> QED
      BY <1>1, <1>4, <1>5, <2>2, <2>4, <3>1 DEF Knows
  <2> QED
    BY <2>3, <2>4
<1>12. RequestFindsServerStarted' /\ DetachAddressIsCurrent'
  <2>1. SUFFICES ASSUME NEW g \in Handlers, g # h, pc[g] \in {"detachWait", "detachCall", "attachCall"},
                        srv[g] \in servers \ disturbed
                 PROVE  /\ pc[g] \in {"attachCall", "detachCall"} => state'[srv[g]] = "started"
                        /\ pc[g] \in {"detachWait", "detachCall"} => dev[g] = devices'[srv[g]]
    BY <1>1 DEF IInv, TypeOK, RequestFindsServerStarted, DetachAddressIsCurrent
  <2>2. srv[g] \in Servers \ {srv[h]}
    BY <1>1, <2>1, OnlyHolder DEF Locked, IInv, TypeOK
  <2> QED
    BY <1>3, <2>1, <2>2 DEF IInv, RequestFindsServerStarted, DetachAddressIsCurrent
<1>13. PublishedIsAttached'
  BY <1>1, <1>4 DEF IInv, TypeOK, PublishedIsAttached
<1>14. UnpublishedIsDetached'
  BY <1>1, <1>4 DEF IInv, NoOpposite, UnpublishedIsDetached
<1> QED
  BY <1>6, <1>7, <1>8, <1>9, <1>10, <1>11, <1>12, <1>13, <1>14 DEF IInv

\* What DetachStorage by a handler under the mutex does, apart from the
\* handler's own next step: it removes the requested volume and no other.
LEMMA DetachRequestEffect ==
    ASSUME IInv, NEW h \in Handlers, pc[h] = "detachCall", h \in awaited,
           NEW a \in AddressesOf(h), ApiDetach(srv[h], a)
    PROVE  /\ srv[h] \in Servers /\ vol[h] \in Volumes
           /\ devices' \in [Servers -> SlotMap]
           /\ state' \in [Servers -> {"started", "maintenance"}]
           /\ \A t \in Servers \ {srv[h]} : devices'[t] = devices[t] /\ state'[t] = state[t]
           /\ \A s \in Servers, v \in Volumes : v \in VolumesOn(s)' => v \in VolumesOn(s)
           /\ \A s \in Servers \ disturbed, v \in Volumes :
                 v \in VolumesOn(s) => v \in VolumesOn(s)' \/ (s = srv[h] /\ v = vol[h])
           /\ \A t \in Servers, b \in Slots : devices'[t][b] \in {devices[t][b], NoVolume}
<1>1. srv[h] \in Servers /\ vol[h] \in Volumes /\ a \in Slots
  BY DEF IInv, Shape, DetachStage, AddressesOf
<1>2. /\ devices' \in [Servers -> SlotMap]
      /\ state' \in [Servers -> {"started", "maintenance"}]
      /\ \A t \in Servers, b \in Slots :
            devices'[t][b] = IF t = srv[h] /\ b = a THEN NoVolume ELSE devices[t][b]
      /\ \A t \in Servers \ {srv[h]} : devices'[t] = devices[t] /\ state'[t] = state[t]
  BY <1>1, ApiDetachEffect DEF IInv
<1>3. srv[h] \notin disturbed => devices[srv[h]][a] = vol[h]
  BY <1>1 DEF ApiDetach, IInv, DetachAddressIsCurrent, AddressesOf
<1> QED
  BY <1>1, <1>2, <1>3, AttachAssumption DEF AttachAssumption, VolumesOn

\* DetachStorage, answered.  A device list that still has the volume makes
\* the handler return an error; otherwise it goes on to wait.
LEMMA DetachCallKeeps ==
    ASSUME IInv, NEW h \in Handlers, DetachCall(h)
    PROVE  IInv'
<1>1. /\ pc[h] = "detachCall" /\ h \in awaited
      /\ op[h] \in {"unpublish", "unpublishAll"}
      /\ UNCHANGED <<servers, volumes, wire, disturbed>>
  BY DEF DetachCall, IInv, Shape, DetachStage
<1>2. PICK a \in AddressesOf(h) : ApiDetach(srv[h], a)
  BY DEF DetachCall
<1>3. /\ srv[h] \in Servers /\ vol[h] \in Volumes
      /\ devices' \in [Servers -> SlotMap]
      /\ state' \in [Servers -> {"started", "maintenance"}]
      /\ \A t \in Servers \ {srv[h]} : devices'[t] = devices[t] /\ state'[t] = state[t]
  BY <1>1, <1>2, DetachRequestEffect
<1>4. /\ \A s \in Servers, v \in Volumes : v \in VolumesOn(s)' => v \in VolumesOn(s)
      /\ \A s \in Servers \ disturbed, v \in Volumes :
            v \in VolumesOn(s) => v \in VolumesOn(s)' \/ (s = srv[h] /\ v = vol[h])
      /\ \A t \in Servers, b \in Slots : devices'[t][b] \in {devices[t][b], NoVolume}
  BY <1>1, <1>2, DetachRequestEffect
<1>5. \/ /\ pc' = [pc EXCEPT ![h] = "detachSettle"]
         /\ vol[h] \notin VolumesOn(srv[h])'
         /\ UNCHANGED <<op, vol, srv, awaited, clean, dev, uuids, holder>>
      \/ Return(h)
  BY DEF DetachCall, Goto, ReturnError, request, reads, VolumesOn
<1>6. ledger' = ledger
  BY DEF DetachCall, Goto, ReturnError
<1>7. /\ awaited' \subseteq awaited /\ clean' \subseteq clean /\ clean' \subseteq awaited'
      /\ \A g \in Handlers : g # h =>
            /\ pc'[g] = pc[g] /\ op'[g] = op[g] /\ vol'[g] = vol[g] /\ srv'[g] = srv[g]
            /\ dev'[g] = dev[g] /\ uuids'[g] = uuids[g]
      /\ h \in awaited' => op'[h] = op[h] /\ vol'[h] = vol[h] /\ srv'[h] = srv[h] /\ uuids'[h] = uuids[h]
      /\ pc'[h] = "detachSettle" /\ h \in clean' => vol[h] \notin VolumesOn(srv[h])'
      /\ pc'[h] \in {"idle", "detachSettle"}
      /\ pc'[h] = "idle" => h \notin awaited'
  BY <1>5 DEF IInv, TypeOK, Return
<1>8. \A g \in clean : vol[g] = vol[h] => ~ (op[g] = "publish" /\ srv[g] = srv[h])
  BY <1>1 DEF IInv, NoOpposite, Opposes
<1>9. TypeOK'
  <2>1. CASE Return(h)
    BY <1>1, <1>3, <1>6, <2>1, NoDeviceType DEF IInv, TypeOK, PCName, OpName, Return, Unlock
  <2>2. CASE ~ Return(h)
    BY <1>1, <1>3, <1>5, <1>6, <2>2 DEF IInv, TypeOK, PCName, ApiStep, Locked
  <2> QED
    BY <2>1, <2>2
<1>10. Shape'
  <2>1. CASE Return(h)
    BY <2>1 DEF IInv, TypeOK, Return, Shape, PublishStage, UnpublishStage, AllStage, DetachStage
  <2>2. CASE ~ Return(h)
    BY <1>1, <1>3, <1>5, <2>2 DEF IInv, TypeOK, Shape, PublishStage, UnpublishStage, AllStage, DetachStage
  <2> QED
    BY <2>1, <2>2
<1>11. LockOwned'
  <2>1. CASE Return(h)
    BY <2>1, AttachAssumption DEF AttachAssumption, IInv, TypeOK, Return, Unlock, LockOwned,
         Locked, Shape, PublishStage, DetachStage
  <2>2. CASE ~ Return(h)
    BY <1>1, <1>5, <2>2, AttachAssumption DEF AttachAssumption, IInv, TypeOK, LockOwned, Locked
  <2> QED
    BY <2>1, <2>2
<1>12. CloudOK'
  <2>1. srv[h] \in servers
    BY <1>2 DEF ApiDetach
  <2> QED
    BY <1>1, <1>3, <1>4, <2>1, AttachAssumption DEF AttachAssumption, IInv, TypeOK, CloudOK
<1>13. WireOK'
  BY <1>1 DEF IInv, WireOK
<1>14. NoOpposite'
  BY <1>1, <1>6, <1>7 DEF IInv, TypeOK, NoOpposite
<1>15. Truth'
  <2>1. SUFFICES ASSUME NEW g \in clean' PROVE Knows(g)'
    BY DEF Truth
  <2>2. Knows(g) /\ g \in Handlers /\ g \in clean
    BY <1>7 DEF IInv, TypeOK, Truth
  <2>3. CASE g = h
    BY <1>1, <1>3, <1>4, <1>7, <2>2, <2>3 DEF Knows
  <2>4. CASE g # h
    <3>1. /\ pc[g] # "idle" /\ vol[g] \in Volumes
          /\ pc[g] \in {"attachSettle", "publishOnline"} => srv[g] \in Servers /\ op[g] = "publish"
          /\ pc[g] = "detachSettle" => srv[g] \in Servers
      BY <2>2 DEF IInv, Shape, DetachStage, PublishStage, TypeOK
    <3> QED
      BY <1>1, <1>3, <1>4, <1>7, <1>8, <2>2, <2>4, <3>1 DEF Knows
  <2> QED
    BY <2>3, <2>4
<1>16. RequestFindsServerStarted' /\ DetachAddressIsCurrent'
  <2>1. SUFFICES ASSUME NEW g \in Handlers, g # h, pc[g] \in {"detachWait", "detachCall", "attachCall"},
                        srv[g] \in servers \ disturbed
                 PROVE  /\ pc[g] \in {"attachCall", "detachCall"} => state'[srv[g]] = "started"
                        /\ pc[g] \in {"detachWait", "detachCall"} => dev[g] = devices'[srv[g]]
    BY <1>1, <1>7 DEF RequestFindsServerStarted, DetachAddressIsCurrent
  <2>2. srv[g] \in Servers \ {srv[h]}
    BY <1>1, <2>1, OnlyHolder DEF Locked, IInv, TypeOK
  <2> QED
    BY <1>3, <2>1, <2>2 DEF IInv, RequestFindsServerStarted, DetachAddressIsCurrent
<1>17. PublishedIsAttached'
  <2>1. ledger[vol[h]][srv[h]] # "published"
    BY <1>1, <1>3 DEF IInv, NoOpposite, Opposes
  <2> QED
    BY <1>1, <1>4, <1>6, <2>1 DEF IInv, TypeOK, PublishedIsAttached
<1>18. UnpublishedIsDetached'
  BY <1>1, <1>4, <1>6 DEF IInv, UnpublishedIsDetached
<1> QED
  BY <1>9, <1>10, <1>11, <1>12, <1>13, <1>14, <1>15, <1>16, <1>17, <1>18 DEF IInv

-----------------------------------------------------------------------------
(***************************************************************************)
(* Failures and the environment.                                           *)
(***************************************************************************)

\* A request fails or a wait times out.
LEMMA ApiErrorKeeps ==
    ASSUME IInv, NEW h \in Handlers, ApiError(h)
    PROVE  IInv'
  BY ReturnErrorKeeps DEF ApiError

\* IInv does not depend on the wire except through WireOK, and holds for
\* fewer undisturbed servers a fortiori.
LEMMA DisturbKeeps ==
    ASSUME IInv, NEW h \in Handlers, ReturnError(h), UNCHANGED cloud,
           wire' \in [1 .. MaxInFlight -> Requests \union {NoRequest}],
           disturbed' \subseteq Servers, disturbed \subseteq disturbed', WireOK'
    PROVE  IInv'
<1> USE DEF IInv, TypeOK, ReturnError, Return, Unlock, cloud
<1>1. TypeOK'
  BY NoDeviceType DEF PCName, OpName
<1>2. Shape'
  BY DEF Shape, PublishStage, UnpublishStage, AllStage, DetachStage
<1>3. LockOwned'
  BY AttachAssumption DEF AttachAssumption, Shape, LockOwned, Locked, PublishStage, DetachStage
<1>4. CloudOK'
  BY DEF CloudOK
<1>5. NoOpposite'
  BY DEF NoOpposite
<1>6. Truth'
  BY DEF Truth, Knows, VolumesOn
<1>7. RequestFindsServerStarted' /\ DetachAddressIsCurrent'
  BY DEF RequestFindsServerStarted, DetachAddressIsCurrent
<1>8. PublishedIsAttached'
  BY DEF PublishedIsAttached, VolumesOn
<1>9. UnpublishedIsDetached'
  BY DEF UnpublishedIsDetached, VolumesOn
<1> QED
  BY <1>1, <1>2, <1>3, <1>4, <1>5, <1>6, <1>7, <1>8, <1>9

\* An abandoned request makes its server disturbed.
LEMMA AbandonKeeps ==
    ASSUME IInv, NEW h \in Handlers, Abandon(h)
    PROVE  IInv'
<1>1. PICK i \in 1 .. MaxInFlight :
         \/ /\ pc[h] = "attachCall"
            /\ wire' = [wire EXCEPT ![i] = [kind |-> "attach", srv |-> srv[h], vol |-> vol[h]]]
         \/ /\ pc[h] = "detachCall"
            /\ \E a \in AddressesOf(h) :
                 wire' = [wire EXCEPT ![i] = [kind |-> "detach", srv |-> srv[h], slot |-> a]]
  BY DEF Abandon
<1>2. srv[h] \in Servers /\ vol[h] \in Volumes /\ AddressesOf(h) \subseteq Slots
  BY <1>1 DEF IInv, Shape, PublishStage, DetachStage, AddressesOf
<1>3. PICK r \in Requests : r.srv = srv[h] /\ wire' = [wire EXCEPT ![i] = r]
  BY <1>1, <1>2 DEF Requests
<1>4. wire' \in [1 .. MaxInFlight -> Requests \union {NoRequest}]
  BY <1>3 DEF IInv, TypeOK
<1>5. disturbed' = disturbed \union {srv[h]}
  BY DEF Abandon
<1>6. WireOK'
  BY <1>3, <1>5 DEF IInv, TypeOK, WireOK
<1>7. disturbed' \subseteq Servers
  BY <1>2, <1>5 DEF IInv, TypeOK
<1> QED
  BY <1>4, <1>5, <1>6, <1>7, DisturbKeeps DEF Abandon

\* An abandoned request changes only a disturbed server when it lands.
LEMMA LandsKeeps ==
    ASSUME IInv, NEW i \in 1 .. MaxInFlight, Lands(i)
    PROVE  IInv'
<1>1. /\ wire[i] \in Requests /\ wire[i].srv \in disturbed /\ wire[i].srv \in Servers
      /\ wire' = [wire EXCEPT ![i] = NoRequest]
      /\ UNCHANGED <<pc, op, vol, srv, awaited, clean, dev, uuids, holder, servers,
                     volumes, ledger, disturbed>>
  BY DEF Lands, IInv, TypeOK, WireOK, request, reads
<1>2. /\ devices' \in [Servers -> SlotMap]
      /\ state' \in [Servers -> {"started", "maintenance"}]
      /\ \A t \in Servers \ disturbed : devices'[t] = devices[t] /\ state'[t] = state[t]
      /\ CloudOK'
  <2>1. ASSUME NEW a \in Slots, wire[i].kind = "attach",
               ApiAttach(wire[i].srv, wire[i].vol, a)
        PROVE  <1>2!1 /\ <1>2!2 /\ <1>2!3 /\ <1>2!4
    <3>1. wire[i].vol \in volumes /\ wire[i].srv \in servers
      BY <2>1 DEF ApiAttach
    <3>2. wire[i].vol \in Volumes
      BY <3>1 DEF IInv, TypeOK
    <3>3. /\ devices' \in [Servers -> SlotMap]
          /\ state' \in [Servers -> {"started", "maintenance"}]
          /\ \A t \in Servers, b \in Slots :
                devices'[t][b] = IF t = wire[i].srv /\ b = a THEN wire[i].vol ELSE devices[t][b]
          /\ \A t \in Servers \ {wire[i].srv} : devices'[t] = devices[t] /\ state'[t] = state[t]
      BY <1>1, <2>1, <3>2, ApiAttachEffect DEF IInv
    <3>4. CloudOK'
      BY <1>1, <3>1, <3>3 DEF IInv, TypeOK, CloudOK
    <3> QED
      BY <1>1, <3>3, <3>4
  <2>2. ASSUME wire[i].kind = "detach", ApiDetach(wire[i].srv, wire[i].slot)
        PROVE  <1>2!1 /\ <1>2!2 /\ <1>2!3 /\ <1>2!4
    <3>1. wire[i].slot \in Slots
      BY <1>1, <2>2 DEF Requests
    <3>2. /\ devices' \in [Servers -> SlotMap]
          /\ state' \in [Servers -> {"started", "maintenance"}]
          /\ \A t \in Servers, b \in Slots :
                devices'[t][b] = IF t = wire[i].srv /\ b = wire[i].slot THEN NoVolume ELSE devices[t][b]
          /\ \A t \in Servers \ {wire[i].srv} : devices'[t] = devices[t] /\ state'[t] = state[t]
      BY <1>1, <2>2, <3>1, ApiDetachEffect DEF IInv
    <3>3. wire[i].srv \in servers
      BY <2>2 DEF ApiDetach
    <3>4. \A t \in Servers, b \in Slots : devices'[t][b] \in {devices[t][b], NoVolume}
      BY <3>2
    <3>5. \A t \in Servers \ servers' : devices'[t] = NoDevice
      BY <1>1, <3>2, <3>3 DEF IInv, CloudOK
    <3>6. \A v \in Volumes \ volumes', t \in Servers, b \in Slots : devices'[t][b] # v
      BY <1>1, <3>4, AttachAssumption DEF AttachAssumption, IInv, CloudOK
    <3>7. CloudOK'
      BY <3>5, <3>6 DEF CloudOK
    <3> QED
      BY <1>1, <3>2, <3>7
  <2>3. ASSUME UNCHANGED <<state, devices>>
        PROVE  <1>2!1 /\ <1>2!2 /\ <1>2!3 /\ <1>2!4
    BY <1>1, <2>3 DEF IInv, TypeOK, CloudOK
  <2> QED
    BY <2>1, <2>2, <2>3 DEF Lands
<1>3. TypeOK'
  BY <1>1, <1>2 DEF IInv, TypeOK
<1>4. Shape' /\ LockOwned' /\ NoOpposite'
  BY <1>1 DEF IInv, Shape, LockOwned, NoOpposite
<1>5. WireOK'
  BY <1>1 DEF IInv, TypeOK, WireOK
<1>6. Truth'
  BY <1>1, <1>2 DEF IInv, TypeOK, Truth, Knows, VolumesOn, Shape, DetachStage
<1>7. RequestFindsServerStarted' /\ DetachAddressIsCurrent'
  BY <1>1, <1>2 DEF IInv, TypeOK, RequestFindsServerStarted, DetachAddressIsCurrent
<1>8. PublishedIsAttached'
  BY <1>1, <1>2 DEF IInv, TypeOK, PublishedIsAttached, VolumesOn
<1>9. UnpublishedIsDetached'
  BY <1>1, <1>2 DEF IInv, TypeOK, UnpublishedIsDetached, VolumesOn
<1> QED
  BY <1>2, <1>3, <1>4, <1>5, <1>6, <1>7, <1>8, <1>9 DEF IInv

\* A cancelled handler knows no less; it just no longer counts.
LEMMA CancelKeeps ==
    ASSUME IInv, NEW h \in Handlers, Cancel(h)
    PROVE  IInv'
<1> USE DEF IInv, TypeOK, Cancel, reads, cloud
<1>1. TypeOK' /\ Shape' /\ LockOwned' /\ CloudOK' /\ WireOK'
  BY DEF Shape, LockOwned, CloudOK, WireOK
<1>2. NoOpposite'
  BY DEF NoOpposite
<1>3. Truth'
  BY DEF Truth, Knows, VolumesOn
<1>4. RequestFindsServerStarted' /\ DetachAddressIsCurrent'
  BY DEF RequestFindsServerStarted, DetachAddressIsCurrent
<1>5. PublishedIsAttached' /\ UnpublishedIsDetached'
  BY DEF PublishedIsAttached, UnpublishedIsDetached, VolumesOn
<1> QED
  BY <1>1, <1>2, <1>3, <1>4, <1>5

\* A restart loses handlers and mutexes and nothing else.
LEMMA CrashKeeps ==
    ASSUME IInv, Crash
    PROVE  IInv'
<1> USE DEF IInv, TypeOK, Crash, cloud
<1>1. TypeOK'
  BY NoDeviceType DEF PCName, OpName
<1>2. Shape'
  BY DEF Shape, PublishStage, UnpublishStage, AllStage, DetachStage
<1>3. LockOwned'
  BY DEF LockOwned, Locked
<1>4. CloudOK' /\ WireOK'
  BY DEF CloudOK, WireOK
<1>5. NoOpposite' /\ Truth'
  BY DEF NoOpposite, Truth
<1>6. RequestFindsServerStarted' /\ DetachAddressIsCurrent'
  BY DEF RequestFindsServerStarted, DetachAddressIsCurrent
<1>7. PublishedIsAttached' /\ UnpublishedIsDetached'
  BY DEF PublishedIsAttached, UnpublishedIsDetached, VolumesOn
<1> QED
  BY <1>1, <1>2, <1>3, <1>4, <1>5, <1>6, <1>7

\* Maintenance ends.
LEMMA ServerSettlesKeeps ==
    ASSUME IInv, NEW s \in Servers, ServerSettles(s)
    PROVE  IInv'
<1> USE DEF IInv, TypeOK, ServerSettles, request, reads
<1>1. TypeOK'
  OBVIOUS
<1>2. Shape' /\ LockOwned' /\ CloudOK' /\ WireOK' /\ NoOpposite'
  BY DEF Shape, LockOwned, CloudOK, WireOK, NoOpposite
<1>3. Truth'
  BY DEF Truth, Knows, VolumesOn
<1>4. RequestFindsServerStarted' /\ DetachAddressIsCurrent'
  BY DEF RequestFindsServerStarted, DetachAddressIsCurrent
<1>5. PublishedIsAttached' /\ UnpublishedIsDetached'
  BY DEF PublishedIsAttached, UnpublishedIsDetached, VolumesOn
<1> QED
  BY <1>1, <1>2, <1>3, <1>4, <1>5

\* A server that is deleted loses its devices and its claims.
LEMMA ServerDeletedKeeps ==
    ASSUME IInv, NEW s \in Servers, ServerDeleted(s)
    PROVE  IInv'
<1> USE DEF IInv, TypeOK, ServerDeleted, request, reads
<1>1. \A t \in Servers, v \in Volumes :
         v \in VolumesOn(t)' <=> v \in VolumesOn(t) /\ t # s
  BY AttachAssumption DEF AttachAssumption, VolumesOn, NoDevice
<1>2. TypeOK'
  BY NoDeviceType
<1>3. Shape' /\ LockOwned' /\ WireOK'
  BY DEF Shape, LockOwned, WireOK
<1>4. NoOpposite'
  BY DEF NoOpposite
<1>5. CloudOK'
  BY AttachAssumption DEF AttachAssumption, CloudOK, NoDevice
<1>6. Truth'
  <2>1. SUFFICES ASSUME NEW g \in clean PROVE Knows(g)'
    BY DEF Truth
  <2>2. Knows(g) /\ g \in Handlers
    BY DEF Truth
  <2>3. /\ pc[g] # "idle" /\ vol[g] \in Volumes
        /\ pc[g] \in {"attachSettle", "publishOnline", "detachSettle"} => srv[g] \in Servers
    BY <2>2 DEF Shape, DetachStage, PublishStage
  <2> QED
    BY <1>1, <2>2, <2>3 DEF Knows
<1>7. RequestFindsServerStarted' /\ DetachAddressIsCurrent'
  BY DEF RequestFindsServerStarted, DetachAddressIsCurrent
<1>8. PublishedIsAttached'
  BY <1>1 DEF PublishedIsAttached
<1>9. UnpublishedIsDetached'
  BY <1>1 DEF UnpublishedIsDetached
<1> QED
  BY <1>2, <1>3, <1>4, <1>5, <1>6, <1>7, <1>8, <1>9

\* A volume is deleted only while it is attached nowhere.
LEMMA VolumeDeletedKeeps ==
    ASSUME IInv, NEW v \in Volumes, VolumeDeleted(v)
    PROVE  IInv'
<1> USE DEF IInv, TypeOK, VolumeDeleted, request, reads
<1>1. TypeOK'
  OBVIOUS
<1>2. Shape' /\ LockOwned' /\ WireOK' /\ NoOpposite'
  BY DEF Shape, LockOwned, WireOK, NoOpposite
<1>3. CloudOK'
  BY DEF CloudOK, ServerUUIDs
<1>4. Truth'
  BY DEF Truth, Knows, VolumesOn
<1>5. RequestFindsServerStarted' /\ DetachAddressIsCurrent'
  BY DEF RequestFindsServerStarted, DetachAddressIsCurrent
<1>6. PublishedIsAttached' /\ UnpublishedIsDetached'
  BY DEF PublishedIsAttached, UnpublishedIsDetached, VolumesOn
<1> QED
  BY <1>1, <1>2, <1>3, <1>4, <1>5, <1>6

-----------------------------------------------------------------------------
(***************************************************************************)
(* IInv is an inductive invariant, and the properties follow.              *)
(***************************************************************************)

\* The initial state satisfies IInv.
LEMMA InitIInv == Init => IInv
<1> SUFFICES ASSUME Init PROVE IInv
  OBVIOUS
<1> USE DEF Init
<1>1. TypeOK
  BY NoDeviceType DEF TypeOK, PCName, OpName
<1>2. Shape
  BY DEF Shape, PublishStage, UnpublishStage, AllStage, DetachStage
<1>3. LockOwned
  BY DEF LockOwned, Locked
<1>4. CloudOK /\ WireOK /\ NoOpposite /\ Truth
  BY DEF CloudOK, WireOK, NoOpposite, Truth
<1>5. RequestFindsServerStarted /\ DetachAddressIsCurrent
  BY DEF RequestFindsServerStarted, DetachAddressIsCurrent
<1>6. PublishedIsAttached /\ UnpublishedIsDetached
  BY DEF PublishedIsAttached, UnpublishedIsDetached
<1> QED
  BY <1>1, <1>2, <1>3, <1>4, <1>5, <1>6 DEF IInv

\* Every step of the specification keeps IInv.
LEMMA NextIInv == IInv /\ [Next]_vars => IInv'
<1> SUFFICES ASSUME IInv, [Next]_vars PROVE IInv'
  OBVIOUS
<1>1. ASSUME NEW h \in Handlers, Call(h) PROVE IInv'
  BY <1>1, CallKeeps
<1>2. ASSUME NEW h \in Handlers, Step(h) PROVE IInv'
  <2>1. CASE PublishStep(h)
    BY <2>1, FindPublishServerKeeps, FindPublishVolumeKeeps, AttachVolumeToServerKeeps
      DEF PublishStep
  <2>2. CASE UnpublishStep(h)
    BY <2>2, FindUnpublishVolumeKeeps, FindUnpublishServerKeeps, FindAllServersKeeps,
       NextServerKeeps DEF UnpublishStep
  <2>3. CASE AttachBlockStorage(h)
    BY <2>3, WaitKeeps, AttachCallKeeps, AttachSettleKeeps DEF AttachBlockStorage
  <2>4. CASE DetachBlockStorage(h)
    BY <2>4, DetachReadKeeps, WaitKeeps, DetachNotFoundKeeps, DetachCallKeeps,
       DetachSettleKeeps DEF DetachBlockStorage
  <2>5. CASE ApiError(h)
    BY <2>5, ApiErrorKeeps
  <2> QED
    BY <1>2, <2>1, <2>2, <2>3, <2>4, <2>5 DEF Step
<1>3. ASSUME NEW h \in Handlers, LockServer(h) \/ Abandon(h) \/ Cancel(h) PROVE IInv'
  BY <1>3, LockServerKeeps, AbandonKeeps, CancelKeeps
<1>4. CASE Environment
  BY <1>4, ServerSettlesKeeps, ServerDeletedKeeps, VolumeDeletedKeeps, LandsKeeps, CrashKeeps
    DEF Environment
<1>5. CASE UNCHANGED vars
  BY <1>5 DEF vars, IInv, TypeOK, Shape, LockOwned, CloudOK, WireOK, NoOpposite, Truth, Knows,
       VolumesOn, RequestFindsServerStarted, DetachAddressIsCurrent, PublishedIsAttached,
       UnpublishedIsDetached
<1> QED
  BY <1>1, <1>2, <1>3, <1>4, <1>5 DEF Next

\* IInv holds in every reachable state.
LEMMA Inductive == Spec => []IInv
  BY InitIInv, NextIInv, PTL DEF Spec

\* Every variable keeps its type.
THEOREM TypeCorrect == Spec => []TypeOK
<1>1. IInv => TypeOK
  BY DEF IInv
<1> QED
  BY <1>1, Inductive, PTL

\* The per-server mutex and the waits of AttachBlockStorage and
\* DetachBlockStorage serialise operations on a server: with any number of
\* concurrent handlers, timeouts and restarts, a request goes out only while
\* the server is started, unless an earlier one was abandoned on the wire.
THEOREM OperationsSerialized == Spec => []RequestFindsServerStarted
<1>1. IInv => RequestFindsServerStarted
  BY DEF IInv
<1> QED
  BY <1>1, Inductive, PTL

\* DetachBlockStorage never detaches by a stale address on an undisturbed
\* server, however long it waited after reading it.
THEOREM DetachByCurrentAddress == Spec => []DetachAddressIsCurrent
<1>1. IInv => DetachAddressIsCurrent
  BY DEF IInv
<1> QED
  BY <1>1, Inductive, PTL

\* ControllerPublishVolume: a success that no opposite RPC overlapped stays
\* true until an unpublish is asked for.
THEOREM PublishAnswerHolds == Spec => []PublishedIsAttached
<1>1. IInv => PublishedIsAttached
  BY DEF IInv
<1> QED
  BY <1>1, Inductive, PTL

\* ControllerUnpublishVolume: a success that no publish overlapped stays true
\* until a publish is asked for; cancelled publishes cannot undo it.
THEOREM UnpublishAnswerHolds == Spec => []UnpublishedIsDetached
<1>1. IInv => UnpublishedIsDetached
  BY DEF IInv
<1> QED
  BY <1>1, Inductive, PTL

-----------------------------------------------------------------------------
(***************************************************************************)
(* VolumeAttach implements Attachment.                                     *)
(*                                                                         *)
(* Most steps of a handler leave all that Attachment speaks of as it is.   *)
(* The others are an Ask, an Answer, an Attach, a Detach, a Disturb or a   *)
(* ServerLost.  That an answer is true, and that a device changes only     *)
(* where no answer forbids it, is read off the inductive invariant in the  *)
(* state after the step.                                                   *)
(***************************************************************************)

\* A step that Attachment cannot see.
Hidden == UNCHANGED <<servers, devices, ledger, disturbed>>

PromiseStep == Promise!Next \/ UNCHANGED Promise!avars

\* What a hidden step leaves alone.
LEMMA HiddenRefines ==
    ASSUME Hidden
    PROVE  PromiseStep
  BY DEF Hidden, PromiseStep, Promise!avars, VolumesOn

\* A successful return is an Answer about the servers its RPC was for, or is
\* hidden when its caller has stopped waiting or was overtaken.
LEMMA ReturnOKRefines ==
    ASSUME IInv, IInv', NEW h \in Handlers, pc[h] # "idle",
           ReturnOK(h), UNCHANGED <<cloud, disturbed>>
    PROVE  PromiseStep
<1> DEFINE S == {s \in Servers : Answers(h, vol[h], s)}
           a == IF op[h] = "publish" THEN "published" ELSE "unpublished"
<1>1. vol[h] \in Volumes /\ ledger \in [Volumes -> [Servers -> {"unknown", "published", "unpublished"}]]
  BY DEF IInv, TypeOK, Shape
<1>2. CASE h \notin clean
  <2>1. ledger' = ledger
    BY <1>1, <1>2 DEF ReturnOK
  <2> QED
    BY <2>1, HiddenRefines DEF Hidden, cloud
<1>3. CASE h \in clean
  <2>1. ledger' = [ledger EXCEPT ![vol[h]] =
                     [s \in Servers |-> IF s \in S THEN a ELSE ledger[vol[h]][s]]]
    BY <1>1, <1>3 DEF ReturnOK, Answers
  <2>2. \A s \in S \ disturbed : IF a = "published"
                                 THEN s \in servers => vol[h] \in VolumesOn(s)
                                 ELSE vol[h] \notin VolumesOn(s)
    <3>1. \A s \in S : s \in Servers /\ ledger'[vol[h]][s] = a
      BY <1>1, <2>1
    <3>2. \A s \in Servers : VolumesOn(s)' = VolumesOn(s)
      BY DEF VolumesOn, cloud
    <3> QED
      BY <1>1, <3>1, <3>2 DEF IInv, PublishedIsAttached, UnpublishedIsDetached, cloud
  <2>3. Promise!Answer(vol[h], S, a)
    BY <1>1, <2>1, <2>2 DEF Promise!Answer, VolumesOn, cloud
  <2> QED
    BY <1>1, <2>3 DEF PromiseStep, Promise!Next
<1> QED
  BY <1>2, <1>3

\* An attach that the API executes is an Attach: UnpublishedIsDetached in the
\* state after it says that no answer forbids it.
LEMMA ApiAttachRefines ==
    ASSUME IInv, IInv', NEW s \in Servers, NEW v \in Volumes, NEW a \in Slots,
           ApiAttach(s, v, a), UNCHANGED <<servers, ledger, disturbed>>
    PROVE  PromiseStep
<1>1. /\ \A t \in Servers, b \in Slots :
            devices'[t][b] = IF t = s /\ b = a THEN v ELSE devices[t][b]
  BY ApiAttachEffect DEF IInv
<1>2. \A t \in Servers : v \notin VolumesOn(t)
  BY DEF ApiAttach, ServerUUIDs, VolumesOn
<1>3. devices[s][a] = NoVolume /\ s \in servers /\ NoVolume \notin Volumes
  BY AttachAssumption DEF ApiAttach, AttachAssumption
<1>4. \A t \in Servers : VolumesOn(t)' = IF t = s THEN VolumesOn(t) \union {v} ELSE VolumesOn(t)
  BY <1>1, <1>3 DEF VolumesOn
<1>5. s \in disturbed \/ ledger[v][s] # "unpublished"
  BY <1>4 DEF IInv, UnpublishedIsDetached
<1>6. [t \in Servers |-> VolumesOn(t)]' = [[t \in Servers |-> VolumesOn(t)] EXCEPT ![s] = @ \union {v}]
  BY <1>4
<1>7. Promise!Attach(v, s)
  BY <1>2, <1>3, <1>5, <1>6 DEF Promise!Attach
<1> QED
  BY <1>7 DEF PromiseStep, Promise!Next

\* A detach that the API executes is a Detach of what was at the address.
LEMMA ApiDetachRefines ==
    ASSUME IInv, IInv', NEW s \in Servers, NEW a \in Slots,
           ApiDetach(s, a), UNCHANGED <<servers, ledger, disturbed>>
    PROVE  PromiseStep
<1> DEFINE v == devices[s][a]
<1>1. \A t \in Servers, b \in Slots :
         devices'[t][b] = IF t = s /\ b = a THEN NoVolume ELSE devices[t][b]
  BY ApiDetachEffect DEF IInv
<1>2. v \in Volumes /\ v \in VolumesOn(s) /\ s \in servers /\ NoVolume \notin Volumes
  BY AttachAssumption DEF ApiDetach, IInv, TypeOK, SlotMap, VolumesOn, AttachAssumption
<1>3. \A t \in Servers : \A w \in Volumes :
         t # s \/ w # v => (w \in VolumesOn(t)' <=> w \in VolumesOn(t))
  BY <1>1, <1>2 DEF VolumesOn
<1>4. CASE v \in VolumesOn(s)'
  <2>1. \A t \in Servers : VolumesOn(t)' = VolumesOn(t)
    BY <1>2, <1>3, <1>4 DEF VolumesOn
  <2> QED
    BY <2>1 DEF PromiseStep, Promise!avars
<1>5. CASE v \notin VolumesOn(s)'
  <2>1. \A t \in Servers : VolumesOn(t)' = IF t = s THEN VolumesOn(t) \ {v} ELSE VolumesOn(t)
    BY <1>2, <1>3, <1>5 DEF VolumesOn
  <2>2. s \in disturbed \/ ledger[v][s] # "published"
    BY <1>2, <1>5 DEF IInv, PublishedIsAttached
  <2>3. [t \in Servers |-> VolumesOn(t)]' = [[t \in Servers |-> VolumesOn(t)] EXCEPT ![s] = @ \ {v}]
    BY <2>1
  <2>4. Promise!Detach(v, s)
    BY <1>2, <2>2, <2>3 DEF Promise!Detach
  <2> QED
    BY <1>2, <2>4 DEF PromiseStep, Promise!Next
<1> QED
  BY <1>4, <1>5

\* A new RPC is an Ask.
LEMMA CallRefines ==
    ASSUME IInv, NEW h \in Handlers, Call(h)
    PROVE  PromiseStep
<1>1. ledger \in [Volumes -> [Servers -> {"unknown", "published", "unpublished"}]]
  BY DEF IInv, TypeOK
<1>2. PICK v \in Volumes :
         \/ \E s \in Servers : \/ ControllerPublishVolume(h, v, s)
                               \/ ControllerUnpublishVolume(h, v, s)
         \/ ControllerUnpublishVolumeAll(h, v)
  BY DEF Call
<1>3. UNCHANGED <<servers, devices, disturbed>>
  BY <1>2 DEF ControllerPublishVolume, ControllerUnpublishVolume,
              ControllerUnpublishVolumeAll, Start, cloud
<1>4. SUFFICES ASSUME NEW S \in SUBSET Servers, NEW a \in {"published", "unpublished"},
                      ledger' = [ledger EXCEPT ![v] = [t \in Servers |->
                          IF t \in S /\ ledger[v][t] = Promise!Opposite(a)
                          THEN "unknown" ELSE ledger[v][t]]]
               PROVE  PromiseStep
  <2>1. CASE \E s \in Servers : ControllerPublishVolume(h, v, s)
    <3>1. PICK s \in Servers : ControllerPublishVolume(h, v, s)
      BY <2>1
    <3>2. ledger' = [ledger EXCEPT ![v] = [t \in Servers |->
                       IF t \in {s} /\ ledger[v][t] = Promise!Opposite("published")
                       THEN "unknown" ELSE ledger[v][t]]]
      BY <1>1, <3>1 DEF ControllerPublishVolume, Promise!Opposite
    <3> QED
      BY <1>4, <3>2
  <2>2. CASE \E s \in Servers : ControllerUnpublishVolume(h, v, s)
    <3>1. PICK s \in Servers : ControllerUnpublishVolume(h, v, s)
      BY <2>2
    <3>2. ledger' = [ledger EXCEPT ![v] = [t \in Servers |->
                       IF t \in {s} /\ ledger[v][t] = Promise!Opposite("unpublished")
                       THEN "unknown" ELSE ledger[v][t]]]
      BY <1>1, <3>1 DEF ControllerUnpublishVolume, Promise!Opposite
    <3> QED
      BY <1>4, <3>2
  <2>3. CASE ControllerUnpublishVolumeAll(h, v)
    <3>1. ledger' = [ledger EXCEPT ![v] = [t \in Servers |->
                       IF t \in Servers /\ ledger[v][t] = Promise!Opposite("unpublished")
                       THEN "unknown" ELSE ledger[v][t]]]
      BY <1>1, <2>3 DEF ControllerUnpublishVolumeAll, Promise!Opposite
    <3> QED
      BY <1>4, <3>1
  <2> QED
    BY <1>2, <2>1, <2>2, <2>3
<1>5. Promise!Ask(v, S, a)
  BY <1>1, <1>3, <1>4 DEF Promise!Ask, VolumesOn
<1> QED
  BY <1>5 DEF PromiseStep, Promise!Next

\* Every step of a handler is a step of the promise, or is hidden.
LEMMA StepRefines ==
    ASSUME IInv, IInv', NEW h \in Handlers, Step(h)
    PROVE  PromiseStep
<1>1. CASE PublishStep(h)
  BY <1>1, HiddenRefines, ReturnOKRefines
    DEF PublishStep, FindPublishServer, FindPublishVolume, AttachVolumeToServer,
        ReturnError, Goto, Hidden, cloud
<1>2. CASE UnpublishStep(h)
  BY <1>2, HiddenRefines, ReturnOKRefines
    DEF UnpublishStep, FindUnpublishVolume, FindUnpublishServer, FindAllServers, NextServer,
        Goto, Hidden, cloud
<1>3. CASE AttachBlockStorage(h)
  <2>1. CASE AttachWait(h)
    BY <2>1, HiddenRefines DEF AttachWait, Goto, Hidden, cloud
  <2>2. CASE AttachCall(h)
    <3>1. srv[h] \in Servers /\ vol[h] \in Volumes
      BY <2>2 DEF AttachCall, IInv, Shape, PublishStage
    <3>2. PICK a \in Slots : ApiAttach(srv[h], vol[h], a)
      BY <2>2 DEF AttachCall
    <3> QED
      BY <2>2, <3>1, <3>2, ApiAttachRefines DEF AttachCall, Goto
  <2>3. CASE AttachSettle(h)
    BY <2>3, ReturnOKRefines DEF AttachSettle
  <2> QED
    BY <1>3, <2>1, <2>2, <2>3 DEF AttachBlockStorage
<1>4. CASE DetachBlockStorage(h)
  <2>1. CASE DetachRead(h) \/ DetachWait(h)
    BY <2>1, HiddenRefines DEF DetachRead, DetachWait, Goto, Hidden, cloud
  <2>2. CASE DetachNotFound(h) \/ DetachSettle(h)
    BY <2>2, HiddenRefines, ReturnOKRefines
      DEF DetachNotFound, DetachSettle, Detached, Goto, Hidden, cloud
  <2>3. CASE DetachCall(h)
    <3>1. srv[h] \in Servers
      BY <2>3 DEF DetachCall, IInv, Shape, DetachStage
    <3>2. PICK a \in Slots : ApiDetach(srv[h], a)
      BY <2>3 DEF DetachCall, AddressesOf
    <3>3. UNCHANGED <<servers, ledger, disturbed>>
      BY <2>3 DEF DetachCall, Goto, ReturnError
    <3> QED
      BY <3>1, <3>2, <3>3, ApiDetachRefines
  <2> QED
    BY <1>4, <2>1, <2>2, <2>3 DEF DetachBlockStorage
<1>5. CASE ApiError(h)
  BY <1>5, HiddenRefines DEF ApiError, ReturnError, Hidden, cloud
<1> QED
  BY <1>1, <1>2, <1>3, <1>4, <1>5 DEF Step

\* Giving a request up disturbs its server; taking the mutex and cancelling
\* are hidden.
LEMMA OtherStepRefines ==
    ASSUME IInv, NEW h \in Handlers, LockServer(h) \/ Abandon(h) \/ Cancel(h)
    PROVE  PromiseStep
<1>1. CASE LockServer(h) \/ Cancel(h)
  BY <1>1, HiddenRefines DEF LockServer, Cancel, Goto, Hidden, cloud
<1>2. CASE Abandon(h)
  <2>1. srv[h] \in Servers
    BY <1>2 DEF Abandon, IInv, Shape, PublishStage, DetachStage
  <2>2. Promise!Disturb(srv[h])
    BY <1>2 DEF Abandon, ReturnError, cloud, Promise!Disturb, VolumesOn
  <2> QED
    BY <2>1, <2>2 DEF PromiseStep, Promise!Next
<1> QED
  BY <1>1, <1>2

\* A request that lands late attaches or detaches on a disturbed server; a
\* deleted server is lost; the rest of the environment is hidden.
LEMMA EnvironmentRefines ==
    ASSUME IInv, IInv', Environment
    PROVE  PromiseStep
<1>1. CASE \E s \in Servers : ServerSettles(s)
  BY <1>1, HiddenRefines DEF ServerSettles, Hidden
<1>2. ASSUME NEW s \in Servers, ServerDeleted(s) PROVE PromiseStep
  <2>1. \A t \in Servers : VolumesOn(t)' = IF t = s THEN {} ELSE VolumesOn(t)
    BY <1>2, AttachAssumption
      DEF ServerDeleted, IInv, TypeOK, VolumesOn, NoDevice, AttachAssumption
  <2>2. [t \in Servers |-> VolumesOn(t)]' = [[t \in Servers |-> VolumesOn(t)] EXCEPT ![s] = {}]
    BY <2>1
  <2>3. Promise!ServerLost(s)
    BY <1>2, <2>2 DEF ServerDeleted, Promise!ServerLost
  <2> QED
    BY <2>3 DEF PromiseStep, Promise!Next
<1>3. CASE (\E v \in Volumes : VolumeDeleted(v)) \/ Crash
  BY <1>3, HiddenRefines DEF VolumeDeleted, Crash, Hidden, cloud
<1>4. ASSUME NEW i \in 1 .. MaxInFlight, Lands(i) PROVE PromiseStep
  <2>1. wire[i] \in Requests /\ UNCHANGED <<servers, ledger, disturbed>>
    BY <1>4 DEF Lands, IInv, TypeOK
  <2>2. CASE wire[i].kind = "attach" /\ \E a \in Slots : ApiAttach(wire[i].srv, wire[i].vol, a)
    BY <2>1, <2>2, ApiAttachRefines DEF Requests
  <2>3. CASE wire[i].kind = "detach" /\ ApiDetach(wire[i].srv, wire[i].slot)
    BY <2>1, <2>3, ApiDetachRefines DEF Requests
  <2>4. CASE UNCHANGED <<state, devices>>
    BY <2>1, <2>4, HiddenRefines DEF Hidden
  <2> QED
    BY <1>4, <2>2, <2>3, <2>4 DEF Lands
<1> QED
  BY <1>1, <1>2, <1>3, <1>4 DEF Environment

\* ControllerPublishVolume and ControllerUnpublishVolume keep the promise of
\* module Attachment: with any number of calls at once, timeouts, restarts and
\* late requests, a volume is attached or detached only where the last reliable
\* answer to the orchestrator allows it, and every such answer is true.
THEOREM ImplementsAttachment == Spec => KeepsPromise
<1>1. Init => Promise!Init
  BY AttachAssumption
    DEF Init, Promise!Init, VolumesOn, NoDevice, AttachAssumption
<1>2. IInv /\ IInv' /\ [Next]_vars => [Promise!Next]_(Promise!avars)
  <2> SUFFICES ASSUME IInv, IInv', [Next]_vars PROVE PromiseStep
    BY DEF PromiseStep
  <2>1. CASE UNCHANGED vars
    BY <2>1, HiddenRefines DEF vars, Hidden
  <2>2. CASE Next
    BY <2>2, CallRefines, StepRefines, OtherStepRefines, EnvironmentRefines DEF Next
  <2> QED
    BY <2>1, <2>2
<1> QED
  BY <1>1, <1>2, Inductive, PTL DEF Spec, KeepsPromise, Promise!Spec

=============================================================================
