-------------------------- MODULE NodeVolumeProofs --------------------------
(***************************************************************************)
(* The properties of NodeVolume, for any number of goroutines, pods and    *)
(* retries, and any sizes of the device.                                   *)
(*                                                                         *)
(* The node service takes no lock: it is safe because commands run under   *)
(* the context of the RPC and the kubelet waits for one RPC at a time, so  *)
(* of all goroutines only the awaited one changes the disk and the mounts, *)
(* and what its probes found is still so when it acts on it.  The ones     *)
(* that were given up on only make and remove directories.                 *)
(***************************************************************************)
EXTENDS NodeVolume, TLAPS

\* Commands of Format and the check before it; commands of ResizeVolume.
Formatting == {"mountInfo", "probeTable", "mklabel", "listPartition", "mkpart", "relist",
               "probeFs", "mkfs"}
Growing == {"growpart", "detectFs", "resizeFs"}

\* What a goroutine knows at each point of its RPC.
Knows(h) ==
    /\ pc[h] = "idle" => op[h] = "none" /\ h \notin awaited
    /\ op[h] \in {"stage", "unstage"} => path[h] = Staging
    /\ op[h] \in {"publish", "unpublish"} => path[h] \in Targets
    /\ op[h] # "expand" \/ kind # "mount" => want[h] = 0
    /\ pc[h] = "getDevice" => \/ op[h] = "stage" /\ kind = "mount"
                              \/ op[h] = "publish" /\ kind = "block"
                              \/ op[h] = "expand" /\ kind # "nfs"
    /\ pc[h] \in Formatting => op[h] = "stage" /\ kind = "mount"
    /\ pc[h] = "lastPartition" => op[h] \in {"stage", "expand"} /\ kind = "mount"
    /\ pc[h] = "isMounted" => op[h] \in {"stage", "publish", "unstage", "unpublish"}
    /\ pc[h] \in {"mkdir", "mount"} => op[h] \in {"stage", "publish"}
    /\ pc[h] \in {"umount", "remove"} => op[h] \in {"unstage", "unpublish"}
    /\ pc[h] = "statPath" => op[h] = "expand" /\ kind # "nfs"
    /\ pc[h] \in Growing => op[h] = "expand" /\ kind = "mount"
    /\ pc[h] = "reply" => \/ op[h] = "stage" /\ kind = "block"
                          \/ op[h] = "expand" /\ kind # "mount"
    /\ op[h] = "stage" /\ kind = "mount" => pc[h] # "isMounted"

HandlerKnows == \A h \in Handlers : Knows(h)

\* The kubelet waits for one call at a time.
OneCall == \A g, h \in awaited : g = h

\* What the kubelet knows of the path while it waits.
Recorded(h) ==
    /\ op[h] \in {"stage", "publish"} => ledger[path[h]] # "unmounted"
    /\ op[h] \in {"unstage", "unpublish"} => ledger[path[h]] = "unknown"
    /\ op[h] = "publish" => ledger[Staging] = "mounted"
    /\ op[h] = "expand" => ledger[path[h]] = "mounted"

LedgerKnows == \A h \in awaited : Recorded(h)

\* What the awaited call found on the disk is still so.
Found(h) ==
    /\ pc[h] = "mklabel" => ~ table
    /\ pc[h] \in {"listPartition", "mkpart", "relist", "probeFs", "mkfs"} => table
    /\ pc[h] = "mkfs" => fs # FsType
    /\ op[h] = "stage" /\ kind = "mount" /\ pc[h] \in {"lastPartition", "mkdir", "mount"}
       => table /\ fs = FsType
    /\ pc[h] \in {"detectFs", "resizeFs"} => want[h] <= part

DiskKnows == \A h \in awaited : Found(h)

\* The file system is within the partition, the partition within the device, and
\* no expand waits for more than the device has.
SizesNest ==
    /\ fsSize <= part /\ part <= size
    /\ \A h \in Handlers : want[h] <= size

\* The bare staging directory is never bound to a pod.
OnlyVolumes == mounts \in [Paths -> Seq({"volume"})]

MountPointsExist == \A p \in Paths : mounts[p] # <<>> => p \in exists

\* What was reported as mounted is.
MountedIsMounted ==
    \A p \in Paths :
        ledger[p] = "mounted" /\ ~ (p = Staging /\ kind = "block") => mounts[p] # <<>>

\* Only a formatted volume is mounted or expanded.
MountedIsFormatted ==
    kind = "mount" /\ (\E p \in Paths : mounts[p] # <<>>) => table /\ fs = FsType

PromisedIsFormatted == promised > 0 => table /\ fs = FsType

DataOnDisk == data => table /\ fs # NoFs

\* A call that met neither a fault nor another goroutine is alone, and finds what
\* it needs.
Alone(h) ==
    /\ \A g \in Handlers : g # h => pc[g] = "idle"
    /\ pc[h] = "mkpart" => part = 0
    /\ pc[h] = "mount" => path[h] \in exists

UntroubledIsAlone == \A h \in awaited \ troubled : Alone(h)

\* What a call relies on, and what the node is like.
CallPart == HandlerKnows /\ OneCall /\ LedgerKnows /\ DiskKnows /\ UntroubledIsAlone

NodePart == /\ SizesNest
            /\ MountPointsExist
            /\ MountedIsMounted
            /\ MountedIsFormatted
            /\ PromisedIsFormatted
            /\ DataOnDisk
            /\ UnmountedIsBare
            /\ ExpandedIsGrown

IInv == TypeOK /\ OnlyVolumes /\ CallPart /\ NodePart

-----------------------------------------------------------------------------

\* Stacks of mounts of the volume.
LEMMA Stacks ==
  /\ <<>> \in Seq({"volume"})
  /\ Seq({"volume"}) \subseteq Seq({"volume", "directory"})
  /\ \A s \in Seq({"volume"}) : /\ Append(s, "volume") \in Seq({"volume"})
                                /\ Append(s, "volume") # <<>>
  /\ \A s \in Seq({"volume"}) :
        s # <<>> => /\ SubSeq(s, 1, Len(s) - 1) \in Seq({"volume"})
                    /\ Len(s) \in DOMAIN s /\ s[Len(s)] = "volume"
<1>1. ASSUME NEW s \in Seq({"volume"})
      PROVE  Append(s, "volume") \in Seq({"volume"}) /\ Append(s, "volume") # <<>>
  OBVIOUS
<1>2. ASSUME NEW s \in Seq({"volume"}), s # <<>>
      PROVE  /\ SubSeq(s, 1, Len(s) - 1) \in Seq({"volume"})
             /\ Len(s) \in DOMAIN s /\ s[Len(s)] = "volume"
  <2>1. Len(s) \in Nat /\ Len(s) > 0 /\ DOMAIN s = 1 .. Len(s)
    BY <1>2
  <2>2. Len(s) \in DOMAIN s /\ s[Len(s)] = "volume"
    BY <2>1
  <2>3. SubSeq(s, 1, Len(s) - 1) \in Seq({"volume"})
    BY <2>1
  <2> QED BY <2>2, <2>3
<1>3. Seq({"volume"}) \subseteq Seq({"volume", "directory"})
  OBVIOUS
<1> QED BY <1>1, <1>2, <1>3

\* The state before the first RPC satisfies the invariant.
LEMMA InitIInv == Init => IInv
<1> SUFFICES ASSUME Init PROVE IInv
  OBVIOUS
<1> USE NodeAssumption DEF Init
<1>0. mounts = [p \in Paths |-> <<>>] /\ Paths # {} /\ Staging \in Paths
  BY DEF Paths
<1>a. OnlyVolumes /\ mounts \in [Paths -> Seq({"volume", "directory"})]
  BY <1>0, Stacks DEF OnlyVolumes
<1>1. TypeOK /\ OnlyVolumes
  <2> HIDE DEF Init
  <2>1. pc \in [Handlers -> PCName] /\ op \in [Handlers -> OpName]
    BY DEF Init, PCName, OpName
  <2>2. /\ path \in [Handlers -> Paths]
        /\ ledger \in [Paths -> {"unknown", "mounted", "unmounted", "unchecked"}]
    BY <1>0 DEF Init
  <2>3. kind \in Kinds /\ size \in 1 .. MaxSize /\ fs \in {NoFs, FsType, RestoredFs}
        /\ part \in 0 .. MaxSize /\ fsSize \in 0 .. MaxSize
    BY DEF Init
  <2>a. table \in BOOLEAN /\ data \in BOOLEAN
    BY Zenon DEF Init
  <2>4. want \in [Handlers -> 0 .. MaxSize] /\ promised \in 0 .. MaxSize
        /\ awaited = {} /\ exists = {} /\ troubled = {}
    BY DEF Init
  <2> QED BY <1>a, <2>1, <2>2, <2>3, <2>a, <2>4 DEF TypeOK
<1>2. HandlerKnows /\ OneCall /\ LedgerKnows /\ DiskKnows /\ SizesNest
  BY DEF HandlerKnows, Knows, OneCall, LedgerKnows, DiskKnows, SizesNest, Formatting, Growing, Paths
<1>3. MountPointsExist /\ MountedIsMounted /\ MountedIsFormatted /\ PromisedIsFormatted
  BY DEF MountPointsExist, MountedIsMounted, MountedIsFormatted, PromisedIsFormatted
<1>4. DataOnDisk /\ UntroubledIsAlone /\ UnmountedIsBare /\ ExpandedIsGrown
  BY DEF DataOnDisk, UntroubledIsAlone, UnmountedIsBare, ExpandedIsGrown
<1> QED BY <1>1, <1>2, <1>3, <1>4 DEF IInv, CallPart, NodePart

\* A bind mount shows the volume: while the awaited call publishes, the volume is
\* staged.
LEMMA MountSource ==
  ASSUME IInv, NEW h \in awaited, pc[h] = "mount"
  PROVE  Source(h) = "volume"
<1> USE DEF IInv, CallPart, NodePart
<1>1. CASE op[h] = "stage" \/ kind = "block"
  BY <1>1 DEF Source
<1>2. CASE op[h] = "publish" /\ kind # "block"
  <2>1. mounts[Staging] # <<>> /\ mounts[Staging] \in Seq({"volume"})
    BY <1>2 DEF LedgerKnows, Recorded, MountedIsMounted, OnlyVolumes, Paths
  <2> QED BY <1>2, <2>1, Stacks DEF Source
<1> QED BY <1>1, <1>2 DEF HandlerKnows, Knows, TypeOK

\* A mounted volume shows on some path.
LEMMA MountedAnywhere ==
  ASSUME OnlyVolumes
  PROVE  VolumeMounted <=> \E p \in Paths : mounts[p] # <<>>
<1>1. ASSUME NEW p \in Paths, mounts[p] # <<>>
      PROVE  \E i \in DOMAIN mounts[p] : mounts[p][i] = "volume"
  BY <1>1, Stacks DEF OnlyVolumes
<1>2. ASSUME NEW p \in Paths, mounts[p] = <<>> PROVE DOMAIN mounts[p] = {}
  BY <1>2
<1> QED BY <1>1, <1>2 DEF VolumeMounted

\* The mounts of every path are of the volume, whatever is mounted and unmounted.
LEMMA StacksStep == IInv /\ [Next]_vars => OnlyVolumes'
<1> SUFFICES ASSUME IInv, [Next]_vars PROVE OnlyVolumes'
  OBVIOUS
<1>1. ASSUME NEW h \in Handlers, Mount(h) PROVE OnlyVolumes'
  <2>1. h \in awaited /\ pc[h] = "mount" /\ path[h] \in Paths
    BY <1>1 DEF Mount, Live, IInv, TypeOK
  <2>2. Source(h) = "volume"
    BY <2>1, MountSource
  <2>3. \/ mounts' = mounts
        \/ mounts' = [mounts EXCEPT ![path[h]] = Append(mounts[path[h]], "volume")]
    BY <1>1, <2>2 DEF Mount
  <2>4. mounts[path[h]] \in Seq({"volume"}) /\ OnlyVolumes
    BY <2>1 DEF IInv, OnlyVolumes
  <2>5. Append(mounts[path[h]], "volume") \in Seq({"volume"})
    BY <2>4, Stacks
  <2> QED BY <2>1, <2>3, <2>4, <2>5 DEF OnlyVolumes
<1>2. ASSUME NEW h \in Handlers, Unmount(h) PROVE OnlyVolumes'
  <2>1. path[h] \in Paths /\ mounts[path[h]] \in Seq({"volume"})
    BY DEF IInv, TypeOK, OnlyVolumes
  <2> QED BY <1>2, <2>1, Stacks DEF Unmount, IInv, OnlyVolumes
<1>3. ASSUME NodeRestart PROVE OnlyVolumes'
  BY <1>3, Stacks DEF NodeRestart, OnlyVolumes
<1>4. ASSUME UNCHANGED mounts PROVE OnlyVolumes'
  BY <1>4 DEF IInv, OnlyVolumes
<1>5. ASSUME NEW h \in Handlers, Calls(h) PROVE UNCHANGED mounts
  BY <1>5 DEF Calls, NodeStageVolume, NodeUnstageVolume, NodePublishVolume,
              NodeUnpublishVolume, NodeExpandVolume, Call
<1>6. ASSUME NEW h \in Handlers, Step(h), ~ Mount(h), ~ Unmount(h) PROVE UNCHANGED mounts
  BY <1>6 DEF Step, GetDeviceByID, GetMountInfo, GetDeviceLastPartition, Format,
              HasPartitionTable, CreatePartitionTable, ListPartition, CreatePartition,
              FilesystemExists, CreateFilesystem, Mounts, IsMounted, MakeTarget,
              RemoveTarget, ResizeVolume, StatVolumePath, ResizePartition,
              DetectFilesystemType, ResizeFilesystem, Reply, CommandFails, Cancel
<1>7. ASSUME PluginRestart \/ WorkloadWrites \/ DeviceGrows \/ UNCHANGED vars
      PROVE  UNCHANGED mounts
  BY <1>7 DEF PluginRestart, WorkloadWrites, DeviceGrows, vars
<1> QED BY <1>1, <1>2, <1>3, <1>4, <1>5, <1>6, <1>7 DEF Next, Environment

\* The plugin's and the kubelet's part of TypeOK.
CallsOK ==
    /\ pc \in [Handlers -> PCName]
    /\ op \in [Handlers -> OpName]
    /\ path \in [Handlers -> Paths]
    /\ awaited \subseteq Handlers
    /\ ledger \in [Paths -> {"unknown", "mounted", "unmounted", "unchecked"}]
    /\ want \in [Handlers -> 0 .. MaxSize]
    /\ promised \in 0 .. MaxSize
    /\ troubled \subseteq Handlers

\* The disk's part.
DiskOK ==
    /\ kind \in Kinds
    /\ size \in 1 .. MaxSize
    /\ table \in BOOLEAN
    /\ part \in 0 .. MaxSize
    /\ fs \in {NoFs, FsType, RestoredFs}
    /\ fsSize \in 0 .. MaxSize
    /\ data \in BOOLEAN

\* However an RPC ends or goes on, the first part stays well typed.
LEMMA CallTypes ==
  ASSUME TypeOK, NEW h \in Handlers,
         \/ \E next \in PCName : Goto(h, next) \/ GotoTroubled(h, next) \/ Then(h, next)
         \/ ReturnOK(h)
         \/ ReturnUnchecked(h)
         \/ ReturnError(h)
         \/ ReturnFault(h)
         \/ ThenOK(h)
  PROVE  CallsOK'
<1> USE NodeAssumption
<1> Staging \in Paths /\ "idle" \in PCName /\ "none" \in OpName /\ 0 \in 0 .. MaxSize
  BY DEF Paths, PCName, OpName
<1>1. ASSUME NEW next \in PCName, Goto(h, next) \/ GotoTroubled(h, next) PROVE CallsOK'
  BY <1>1 DEF TypeOK, CallsOK, Goto, GotoTroubled, request
<1>2. CASE ReturnError(h) \/ ReturnFault(h)
  <2>1. Return(h) /\ UNCHANGED <<ledger, promised>> /\ troubled' \in {troubled, troubled \union {h}}
    BY <1>2 DEF ReturnError, ReturnFault
  <2> QED BY <2>1 DEF TypeOK, CallsOK, Return
<1>3. CASE ReturnOK(h) \/ ReturnUnchecked(h)
  <2>1. /\ pc' \in [Handlers -> PCName] /\ op' \in [Handlers -> OpName]
        /\ path' \in [Handlers -> Paths] /\ awaited' \subseteq Handlers
        /\ want' \in [Handlers -> 0 .. MaxSize] /\ troubled' \subseteq Handlers
    <3>1. Return(h) /\ UNCHANGED troubled
      BY <1>3 DEF ReturnOK, ReturnUnchecked
    <3> QED BY <3>1 DEF TypeOK, Return
  <2>2. promised' \in 0 .. MaxSize
    <3>1. promised' = promised \/ promised' = want[h]
      BY <1>3 DEF ReturnOK, ReturnUnchecked
    <3> QED BY <3>1 DEF TypeOK
  <2>3. ledger' \in [Paths -> {"unknown", "mounted", "unmounted", "unchecked"}]
    <3>1. path[h] \in Paths
      BY DEF TypeOK
    <3> QED BY <1>3, <3>1 DEF TypeOK, ReturnOK, ReturnUnchecked
  <2> QED BY <2>1, <2>2, <2>3 DEF CallsOK
<1> QED BY <1>1, <1>2, <1>3 DEF Then, ThenOK

\* Every step leaves the state well typed.
LEMMA TypeStep == IInv /\ [Next]_vars => TypeOK'
<1> SUFFICES ASSUME IInv, [Next]_vars PROVE TypeOK'
  OBVIOUS
<1> USE NodeAssumption
<1>0. CallsOK' /\ DiskOK' /\ exists' \subseteq Paths => TypeOK'
  BY StacksStep, Stacks DEF OnlyVolumes, CallsOK, DiskOK, TypeOK
<1>a. TypeOK /\ CallsOK /\ DiskOK /\ exists \subseteq Paths /\ Staging \in Paths
  BY DEF IInv, TypeOK, CallsOK, DiskOK, Paths
<1>b. UNCHANGED <<kind, disk>> => DiskOK'
  BY <1>a DEF disk, DiskOK
<1>c. UNCHANGED exists => exists' \subseteq Paths
  BY <1>a
<1>1. ASSUME NEW h \in Handlers, Calls(h) PROVE TypeOK'
  <2>1. PICK o \in OpName, p \in Paths, first \in PCName : Call(h, o, p, first)
    <3>1. Targets \subseteq Paths /\ {"getDevice", "isMounted", "reply"} \subseteq PCName
          /\ {"stage", "unstage", "publish", "unpublish", "expand"} \subseteq OpName
      BY DEF Paths, PCName, Command, OpName
    <3>2. kind \in {"mount", "nfs", "block"}
      BY <1>a DEF DiskOK
    <3>3. (CASE kind = "mount" -> "getDevice" [] kind = "nfs" -> "isMounted"
             [] kind = "block" -> "reply") \in {"getDevice", "isMounted", "reply"}
      BY <3>2
    <3> QED BY <1>1, <1>a, <3>1, <3>3
            DEF Calls, NodeStageVolume, NodeUnstageVolume, NodePublishVolume,
                NodeUnpublishVolume, NodeExpandVolume
  <2>2. ledger' \in [Paths -> {"unknown", "mounted", "unmounted", "unchecked"}]
    BY <1>1, <1>a DEF Calls, NodeStageVolume, NodeUnstageVolume, NodePublishVolume,
                      NodeUnpublishVolume, NodeExpandVolume, CallsOK
  <2>3. want' \in [Handlers -> 0 .. MaxSize]
    <3>1. want' = want \/ \E w \in {0, size} : want' = [want EXCEPT ![h] = w]
      BY <1>1 DEF Calls, NodeStageVolume, NodeUnstageVolume, NodePublishVolume,
                  NodeUnpublishVolume, NodeExpandVolume
    <3>2. size \in 0 .. MaxSize
      BY <1>a DEF DiskOK
    <3> QED BY <1>a, <3>1, <3>2 DEF CallsOK
  <2>4. CallsOK'
    BY <1>a, <2>1, <2>2, <2>3 DEF Call, CallsOK
  <2> QED BY <1>0, <1>b, <1>c, <2>1, <2>4 DEF Call
<1>2. ASSUME NEW h \in Handlers, NEW next,
             \/ Goto(h, next) \/ GotoTroubled(h, next) \/ Then(h, next),
             next \in {"statPath", "lastPartition", "mountInfo", "probeTable", "mklabel",
                       "listPartition", "mkpart", "relist", "probeFs", "mkfs", "mkdir",
                       "mount", "umount", "remove", "reply", "growpart", "detectFs",
                       "resizeFs", "isMounted"}
      PROVE  CallsOK'
  <2>1. next \in PCName
    BY <1>2 DEF PCName, Command
  <2> QED BY <1>a, <1>2, <2>1, CallTypes
<1>3. ASSUME NEW h \in Handlers,
             \/ ReturnOK(h) \/ ReturnUnchecked(h) \/ ReturnError(h) \/ ReturnFault(h)
             \/ ThenOK(h)
      PROVE  CallsOK'
  BY <1>a, <1>3, CallTypes
<1>4. ASSUME NEW h \in Handlers,
             \/ GetDeviceByID(h) \/ GetMountInfo(h) \/ HasPartitionTable(h) \/ ListPartition(h)
             \/ GetDeviceLastPartition(h) \/ FilesystemExists(h) \/ Reply(h)
             \/ IsMounted(h) \/ StatVolumePath(h) \/ DetectFilesystemType(h)
             \/ CommandFails(h)
      PROVE  TypeOK'
  <2>1. UNCHANGED <<kind, disk, exists>>
    BY <1>4 DEF GetDeviceByID, GetMountInfo, HasPartitionTable, ListPartition,
                GetDeviceLastPartition, FilesystemExists, Reply, IsMounted, StatVolumePath,
                DetectFilesystemType, CommandFails
  <2>2. CASE GetDeviceByID(h)
    <3>1. op[h] \in {"stage", "publish", "expand"}
      BY <2>2 DEF GetDeviceByID, IInv, CallPart, HandlerKnows, Knows
    <3>2. \E next \in {"mountInfo", "isMounted", "statPath"} : Goto(h, next)
      BY <2>2, <3>1 DEF GetDeviceByID
    <3> QED BY <1>0, <1>2, <1>b, <1>c, <2>1, <3>2
  <2>3. CASE ~ GetDeviceByID(h)
    <3>1. CallsOK'
      BY <1>4, <2>3, <1>2, <1>3
      DEF GetMountInfo, HasPartitionTable, ListPartition, GetDeviceLastPartition,
          FilesystemExists, Reply, IsMounted, StatVolumePath, DetectFilesystemType,
          CommandFails
    <3> QED BY <1>0, <1>b, <1>c, <2>1, <3>1
  <2> QED BY <2>2, <2>3
<1>5. ASSUME NEW h \in Handlers,
             \/ CreatePartitionTable(h) \/ CreatePartition(h) \/ CreateFilesystem(h)
             \/ ResizePartition(h) \/ ResizeFilesystem(h)
      PROVE  TypeOK'
  <2>1. CallsOK' /\ UNCHANGED exists
    BY <1>2, <1>3, <1>5 DEF CreatePartitionTable, CreatePartition, CreateFilesystem,
                            ResizePartition, ResizeFilesystem
  <2>2. size \in 0 .. MaxSize /\ part \in 0 .. MaxSize /\ 0 \in 0 .. MaxSize
    BY <1>a DEF DiskOK
  <2>3. /\ kind' = kind /\ size' = size
        /\ table' \in {table, TRUE} /\ data' \in {data, FALSE}
        /\ part' \in {part, 0, size} /\ fsSize' \in {fsSize, 0, part}
        /\ fs' \in {fs, NoFs, FsType}
    BY <1>5 DEF CreatePartitionTable, CreatePartition, CreateFilesystem,
                ResizePartition, ResizeFilesystem
  <2>4. DiskOK'
    BY <1>a, <2>2, <2>3 DEF DiskOK
  <2> QED BY <1>0, <1>c, <2>1, <2>4
<1>6. ASSUME NEW h \in Handlers, MakeTarget(h) \/ Mount(h) \/ Unmount(h) \/ RemoveTarget(h)
      PROVE  TypeOK'
  <2>1. CallsOK'
    BY <1>2, <1>3, <1>6 DEF MakeTarget, Mount, Unmount, RemoveTarget
  <2>2. exists' \in {exists, exists \union {path[h]}, exists \ {path[h]}} /\ path[h] \in Paths
    BY <1>6, <1>a DEF MakeTarget, Mount, Unmount, RemoveTarget, CallsOK
  <2>3. UNCHANGED <<kind, disk>>
    BY <1>6 DEF MakeTarget, Mount, Unmount, RemoveTarget
  <2> QED BY <1>0, <1>a, <1>b, <2>1, <2>2, <2>3
<1>7. ASSUME NEW h \in Handlers, Cancel(h) PROVE TypeOK'
  BY <1>0, <1>7, <1>a, <1>b DEF Cancel, CallsOK
<1>8. ASSUME PluginRestart \/ NodeRestart PROVE TypeOK'
  <2>1. Restart /\ ledger' \in {ledger, [p \in Paths |-> "unknown"]}
    BY <1>8 DEF PluginRestart, NodeRestart
  <2>2. CallsOK' /\ UNCHANGED <<kind, disk, exists>>
    BY <2>1, <1>a DEF Restart, CallsOK, PCName, OpName
  <2> QED BY <1>0, <1>b, <1>c, <2>2
<1>9. ASSUME WorkloadWrites \/ DeviceGrows PROVE TypeOK'
  <2>1. CallsOK' /\ UNCHANGED exists
    BY <1>9, <1>a DEF WorkloadWrites, DeviceGrows, CallsOK, request
  <2>a. size' \in 1 .. MaxSize
    BY <1>9, <1>a DEF WorkloadWrites, DeviceGrows, DiskOK
  <2>b. data' \in {data, TRUE} /\ UNCHANGED <<kind, table, part, fs, fsSize>>
    BY <1>9 DEF WorkloadWrites, DeviceGrows
  <2>2. DiskOK'
    BY <1>a, <2>a, <2>b DEF DiskOK
  <2> QED BY <1>0, <1>c, <2>1, <2>2
<1>10. CASE UNCHANGED vars
  BY <1>10, <1>a DEF vars, TypeOK
<1> QED
  BY <1>1, <1>4, <1>5, <1>6, <1>7, <1>8, <1>9, <1>10
  DEF Next, Step, Format, Mounts, ResizeVolume, Environment

-----------------------------------------------------------------------------

\* A call begins: the only one the kubelet waits for.
LEMMA CallStep ==
  ASSUME IInv, TypeOK', OnlyVolumes', NEW h \in Handlers, Calls(h)
  PROVE  IInv'
<1> USE NodeAssumption DEF IInv, CallPart, NodePart
<1>0. kind \in {"mount", "block", "nfs"} /\ size \in Nat
  BY DEF TypeOK
<1> DEFINE Begins(o, p, first) ==
             /\ Call(h, o, p, first)
             /\ \/ /\ o = "stage" /\ p = Staging /\ want' = want
                   /\ ledger' = [ledger EXCEPT ![p] = IF @ = "mounted" THEN @ ELSE "unknown"]
                   /\ \/ kind = "mount" /\ first = "getDevice"
                      \/ kind = "nfs" /\ first = "isMounted"
                      \/ kind = "block" /\ first = "reply"
                \/ /\ o = "publish" /\ p \in Targets /\ want' = want
                   /\ ledger[Staging] = "mounted"
                   /\ ledger' = [ledger EXCEPT ![p] = IF @ = "mounted" THEN @ ELSE "unknown"]
                   /\ \/ kind = "block" /\ first = "getDevice"
                      \/ kind # "block" /\ first = "isMounted"
                \/ /\ (o = "unstage" /\ p = Staging) \/ (o = "unpublish" /\ p \in Targets)
                   /\ want' = want /\ first = "isMounted"
                   /\ ledger' = [ledger EXCEPT ![p] = "unknown"]
                \/ /\ o = "expand" /\ ledger[p] = "mounted" /\ ledger' = ledger
                   /\ want' = [want EXCEPT ![h] = IF kind = "mount" THEN size ELSE 0]
                   /\ \/ kind = "nfs" /\ first = "reply"
                      \/ kind # "nfs" /\ first = "getDevice"
<1>1. \E o \in OpName, p \in Paths, first \in PCName : Begins(o, p, first)
  <2>1. /\ Staging \in Paths /\ Targets \subseteq Paths
        /\ {"getDevice", "isMounted", "reply"} \subseteq PCName
        /\ {"stage", "unstage", "publish", "unpublish", "expand"} \subseteq OpName
    BY DEF Paths, PCName, Command, OpName
  <2>2. CASE NodeStageVolume(h)
    <3>1. CASE kind = "mount"
      <4>1. Begins("stage", Staging, "getDevice")
        BY <2>2, <3>1 DEF NodeStageVolume
      <4> QED BY <2>1, <4>1
    <3>2. CASE kind = "nfs"
      <4>1. Begins("stage", Staging, "isMounted")
        BY <2>2, <3>2 DEF NodeStageVolume
      <4> QED BY <2>1, <4>1
    <3>3. CASE kind = "block"
      <4>1. Begins("stage", Staging, "reply")
        BY <2>2, <3>3 DEF NodeStageVolume
      <4> QED BY <2>1, <4>1
    <3> QED BY <1>0, <3>1, <3>2, <3>3
  <2>3. CASE NodeUnstageVolume(h)
    <3>1. Begins("unstage", Staging, "isMounted")
      BY <2>3 DEF NodeUnstageVolume
    <3> QED BY <2>1, <3>1
  <2>4. ASSUME NEW t \in Targets, NodePublishVolume(h, t)
        PROVE  \E o \in OpName, p \in Paths, first \in PCName : Begins(o, p, first)
    <3>1. Begins("publish", t, IF kind = "block" THEN "getDevice" ELSE "isMounted")
      BY <2>4 DEF NodePublishVolume
    <3> QED BY <2>1, <3>1
  <2>5. ASSUME NEW t \in Targets, NodeUnpublishVolume(h, t)
        PROVE  \E o \in OpName, p \in Paths, first \in PCName : Begins(o, p, first)
    <3>1. Begins("unpublish", t, "isMounted")
      BY <2>5 DEF NodeUnpublishVolume
    <3> QED BY <2>1, <3>1
  <2>6. ASSUME NEW p \in Paths, NodeExpandVolume(h, p)
        PROVE  \E o \in OpName, q \in Paths, first \in PCName : Begins(o, q, first)
    <3>1. Begins("expand", p, IF kind = "nfs" THEN "reply" ELSE "getDevice")
      BY <2>6 DEF NodeExpandVolume
    <3> QED BY <2>1, <3>1
  <2> QED BY <2>2, <2>3, <2>4, <2>5, <2>6 DEF Calls
<1>a. PICK o \in OpName, p \in Paths, first \in PCName : Begins(o, p, first)
  BY <1>1
<1>2. awaited = {} /\ awaited' = {h} /\ pc[h] = "idle"
      /\ pc' = [pc EXCEPT ![h] = first] /\ op' = [op EXCEPT ![h] = o]
      /\ path' = [path EXCEPT ![h] = p]
      /\ UNCHANGED <<kind, size, table, part, fs, fsSize, data, mounts, exists, promised>>
  BY <1>a DEF Call, disk
<1>3. HandlerKnows'
  <2> SUFFICES ASSUME NEW g \in Handlers PROVE Knows(g)'
    BY DEF HandlerKnows
  <2>0. Knows(g)
    BY DEF HandlerKnows
  <2>1. CASE g # h
    <3>1. pc'[g] = pc[g] /\ op'[g] = op[g] /\ path'[g] = path[g] /\ want'[g] = want[g]
          /\ (g \in awaited' => g \in awaited) /\ kind' = kind
      BY <1>a, <1>2, <2>1 DEF TypeOK
    <3> QED BY <2>0, <3>1 DEF Knows
  <2>2. CASE g = h
    <3>1. pc'[h] = first /\ op'[h] = o /\ path'[h] = p /\ kind' = kind
      BY <1>2 DEF TypeOK
    <3>2. want'[h] = IF o = "expand" /\ kind = "mount" THEN size ELSE 0
      BY <1>a, <1>2, <2>0, <2>2 DEF TypeOK, Knows
    <3> QED BY <1>a, <2>2, <3>1, <3>2 DEF Knows, Formatting, Growing
  <2> QED BY <2>1, <2>2
<1>4. OneCall'
  BY <1>2 DEF OneCall
<1>5. LedgerKnows'
  BY <1>a, <1>2 DEF LedgerKnows, Recorded, TypeOK, Paths
<1>6. DiskKnows'
  BY <1>a, <1>2 DEF DiskKnows, Found, TypeOK
<1>7. SizesNest'
  <2> SUFFICES ASSUME NEW g \in Handlers PROVE want'[g] <= size
    BY <1>2 DEF SizesNest
  <2>1. want'[g] = want[g] \/ want'[g] = size \/ want'[g] = 0
    BY <1>a DEF TypeOK
  <2> QED BY <1>0, <2>1 DEF SizesNest
<1>8. /\ MountPointsExist' /\ MountedIsMounted' /\ MountedIsFormatted' /\ PromisedIsFormatted'
      /\ DataOnDisk' /\ UnmountedIsBare' /\ ExpandedIsGrown'
  BY <1>a, <1>2 DEF MountPointsExist, MountedIsMounted, MountedIsFormatted, PromisedIsFormatted,
                    DataOnDisk, UnmountedIsBare, ExpandedIsGrown, TypeOK
<1>9. UntroubledIsAlone'
  BY <1>a, <1>2 DEF UntroubledIsAlone, Alone, TypeOK, Call
<1> QED BY <1>3, <1>4, <1>5, <1>6, <1>7, <1>8, <1>9

\* A goroutine goes on to its next command, keeping its request.
Moves(h, next) == pc' = [pc EXCEPT ![h] = next] /\ UNCHANGED request

\* What all calls rely on stays so, if it does for the one that takes a step and
\* that one is awaited or leaves the disk and the kubelet's knowledge alone.
LEMMA CallPartStep ==
  ASSUME IInv, TypeOK', NEW h \in Handlers, NEW next, pc[h] # "idle", kind' = kind,
         \/ Return(h)
         \/ Moves(h, next) /\ Knows(h)' /\ (h \in awaited => Found(h)'),
         h \in awaited \/ UNCHANGED <<table, part, fs, ledger>>,
         \/ Return(h)
         \/ ledger' = ledger /\ (h \in awaited \ troubled' => Alone(h)'),
         troubled \subseteq troubled'
  PROVE  CallPart'
<1> USE DEF IInv, CallPart
<1>1. ASSUME NEW g \in Handlers, g # h
      PROVE  /\ pc'[g] = pc[g] /\ op'[g] = op[g] /\ path'[g] = path[g] /\ want'[g] = want[g]
             /\ g \in awaited' <=> g \in awaited
  BY <1>1 DEF TypeOK, Return, Moves, request
<1>2. HandlerKnows'
  <2>1. CASE Return(h)
    BY <1>1, <2>1 DEF TypeOK, HandlerKnows, Knows, Return, Formatting, Growing
  <2>2. CASE Knows(h)'
    BY <1>1, <2>2 DEF HandlerKnows, Knows
  <2> QED BY <2>1, <2>2
<1>3. OneCall'
  BY DEF OneCall, Return, Moves, request
<1>4. LedgerKnows'
  <2> SUFFICES ASSUME NEW g \in awaited' PROVE Recorded(g)'
    BY DEF LedgerKnows
  <2>1. g \in awaited /\ g \in Handlers /\ Recorded(g)
    BY DEF Return, Moves, request, LedgerKnows, TypeOK
  <2>2. CASE g = h
    <3>1. ~ Return(h)
      BY <2>2 DEF Return
    <3>2. op'[h] = op[h] /\ path'[h] = path[h] /\ ledger' = ledger
      BY <3>1 DEF Moves, request
    <3> QED BY <2>1, <2>2, <3>2 DEF Recorded
  <2>3. CASE g # h
    <3>1. ledger' = ledger
      BY <2>1, <2>3 DEF OneCall
    <3> QED BY <1>1, <2>1, <2>3, <3>1 DEF Recorded
  <2> QED BY <2>2, <2>3
<1>5. DiskKnows'
  <2> SUFFICES ASSUME NEW g \in awaited' PROVE Found(g)'
    BY DEF DiskKnows
  <2>1. g \in awaited /\ g \in Handlers /\ Found(g)
    BY DEF Return, Moves, request, DiskKnows, TypeOK
  <2>2. CASE g = h
    BY <2>1, <2>2 DEF Return
  <2>3. CASE g # h
    <3>1. UNCHANGED <<table, part, fs>>
      BY <2>1, <2>3 DEF OneCall
    <3> QED BY <1>1, <2>1, <2>3, <3>1 DEF Found
  <2> QED BY <2>2, <2>3
<1>6. UntroubledIsAlone'
  <2> SUFFICES ASSUME NEW g \in awaited' \ troubled' PROVE Alone(g)'
    BY DEF UntroubledIsAlone
  <2>1. g \in awaited \ troubled /\ g \in Handlers /\ Alone(g)
    BY DEF Return, Moves, request, UntroubledIsAlone, TypeOK
  <2>2. CASE g = h
    BY <2>1, <2>2 DEF Return
  <2>3. CASE g # h
    BY <2>1, <2>3 DEF Alone
  <2> QED BY <2>2, <2>3
<1> QED BY <1>2, <1>3, <1>4, <1>5, <1>6

\* The node is as before, but for a directory that was made, or removed while
\* nothing was mounted there.
LEMMA NodePartStays ==
  ASSUME IInv, TypeOK', UNCHANGED <<kind, disk, mounts, ledger, promised>>,
         \A p \in Paths : p \in exists \ exists' => mounts[p] = <<>>,
         \A g \in Handlers : want'[g] = want[g] \/ want'[g] = 0
  PROVE  NodePart'
<1> USE DEF IInv, NodePart, disk
<1>1. SizesNest'
  <2>1. size \in Nat
    BY NodeAssumption DEF TypeOK
  <2> QED BY <2>1 DEF SizesNest
<1> QED
  BY <1>1 DEF MountPointsExist, MountedIsMounted, MountedIsFormatted, PromisedIsFormatted,
              DataOnDisk, UnmountedIsBare, ExpandedIsGrown

\* A call ends without an answer, and nothing else happens.
LEMMA EndStep ==
  ASSUME IInv, TypeOK', OnlyVolumes', NEW h \in Handlers, pc[h] # "idle",
         ReturnError(h) \/ ReturnFault(h), UNCHANGED <<kind, disk, mounts, exists>>
  PROVE  IInv'
<1>1. /\ Return(h) /\ UNCHANGED <<ledger, promised>> /\ troubled \subseteq troubled'
      /\ UNCHANGED <<table, part, fs>>
      /\ \A g \in Handlers : want'[g] = want[g] \/ want'[g] = 0
  BY DEF ReturnError, ReturnFault, Return, disk, IInv, TypeOK
<1>2. CallPart'
  BY <1>1, CallPartStep
<1>3. NodePart'
  BY <1>1, NodePartStays
<1> QED BY <1>2, <1>3 DEF IInv

\* A call goes on to its next command, and nothing else happens.
LEMMA MoveStep ==
  ASSUME IInv, TypeOK', OnlyVolumes', NEW h \in Handlers, NEW next, pc[h] # "idle",
         Goto(h, next) \/ GotoTroubled(h, next),
         UNCHANGED <<kind, disk, mounts>>,
         exists \subseteq exists',
         Knows(h)', h \in awaited => Found(h)',
         \/ GotoTroubled(h, next)
         \/ next \notin {"mkpart", "mount"}
         \/ next = "mkpart" /\ part = 0
         \/ next = "mount" /\ path[h] \in exists'
  PROVE  IInv'
<1>1. /\ Moves(h, next) /\ UNCHANGED <<ledger, promised>> /\ troubled \subseteq troubled'
      /\ UNCHANGED <<table, part, fs>>
      /\ want' = want
  BY DEF Goto, GotoTroubled, Moves, request, disk
<1>2. ASSUME h \in awaited \ troubled' PROVE Alone(h)'
  <2>1. ~ GotoTroubled(h, next) /\ h \notin troubled
    BY <1>1, <1>2 DEF GotoTroubled
  <2>2. Alone(h)
    BY <1>2, <2>1 DEF IInv, CallPart, UntroubledIsAlone
  <2>3. path'[h] = path[h] /\ pc'[h] = next /\ part' = part
        /\ \A g \in Handlers : g # h => pc'[g] = pc[g]
    BY <1>1 DEF Moves, request, IInv, TypeOK
  <2> QED BY <2>1, <2>2, <2>3 DEF Alone
<1>3. CallPart'
  BY <1>1, <1>2, CallPartStep
<1>4. NodePart'
  BY <1>1, NodePartStays DEF IInv, TypeOK
<1> QED BY <1>3, <1>4 DEF IInv

\* Success is reported: of a path that is mounted, of one that is bare, or of a
\* device without a file system to grow.
LEMMA AnswerStep ==
  ASSUME IInv, TypeOK', OnlyVolumes', NEW h \in Handlers, pc[h] # "idle", ReturnOK(h),
         UNCHANGED <<kind, disk, mounts>>,
         \A p \in Paths : p \in exists \ exists' => mounts[p] = <<>>,
         \/ op[h] \in {"stage", "publish"} /\ mounts[path[h]] # <<>>
         \/ op[h] = "stage" /\ kind = "block"
         \/ op[h] \in {"unstage", "unpublish"} /\ mounts[path[h]] = <<>>
         \/ op[h] = "expand" /\ kind # "mount"
  PROVE  IInv'
<1> USE NodeAssumption
<1>0. Knows(h) /\ path[h] \in Paths /\ want[h] = 0 /\ promised \in Nat /\ size \in Nat
  BY DEF IInv, CallPart, HandlerKnows, Knows, TypeOK
<1>1. /\ Return(h) /\ promised' = promised /\ troubled' = troubled
      /\ h \in awaited \/ ledger' = ledger
      /\ UNCHANGED <<table, part, fs>>
      /\ \A g \in Handlers : want'[g] = want[g] \/ want'[g] = 0
  BY <1>0 DEF ReturnOK, Return, Live, disk, IInv, TypeOK
<1>2. CallPart'
  BY <1>1, CallPartStep
<1>3. \A p \in Paths : \/ ledger'[p] = ledger[p]
                       \/ ledger'[p] = "mounted" /\ ((p = Staging /\ kind = "block") \/ mounts[p] # <<>>)
                       \/ ledger'[p] = "unmounted" /\ mounts[p] = <<>>
  BY <1>0 DEF ReturnOK, Knows, IInv, TypeOK
<1>4. SizesNest'
  BY <1>0, <1>1 DEF SizesNest, IInv, NodePart, disk
<1>5. NodePart'
  BY <1>1, <1>3, <1>4
  DEF IInv, NodePart, MountPointsExist, MountedIsMounted, MountedIsFormatted,
      PromisedIsFormatted, DataOnDisk, UnmountedIsBare, ExpandedIsGrown, disk
<1> QED BY <1>2, <1>5 DEF IInv

\* Where a goroutine is after a command, with the request it had.
LEMMA Arrives ==
  ASSUME IInv, NEW h \in Handlers, NEW next, Goto(h, next) \/ GotoTroubled(h, next)
  PROVE  /\ pc'[h] = next /\ op'[h] = op[h] /\ path'[h] = path[h] /\ want'[h] = want[h]
         /\ awaited' = awaited
  BY DEF Goto, GotoTroubled, request, IInv, TypeOK

\* The probes: what they find is what the next command relies on.
LEMMA ProbeStep ==
  ASSUME IInv, TypeOK', OnlyVolumes', NEW h \in Handlers,
         \/ GetDeviceByID(h) \/ HasPartitionTable(h) \/ ListPartition(h)
         \/ GetDeviceLastPartition(h) \/ FilesystemExists(h) \/ DetectFilesystemType(h)
  PROVE  IInv'
<1>0. /\ UNCHANGED <<kind, disk, mounts, exists>> /\ pc[h] # "idle" /\ Knows(h)
      /\ exists \subseteq exists'
      /\ UNCHANGED <<table, part, fs>>
      /\ h \in awaited => Found(h)
      /\ op[h] \in OpName /\ part \in Nat
  BY DEF GetDeviceByID, HasPartitionTable, ListPartition, GetDeviceLastPartition,
         FilesystemExists, DetectFilesystemType, disk, IInv, CallPart, HandlerKnows, DiskKnows,
         TypeOK
<1>1. CASE GetDeviceByID(h)
  <2>1. PICK next : /\ Goto(h, next)
                    /\ \/ op[h] = "stage" /\ kind = "mount" /\ next = "mountInfo"
                       \/ op[h] = "publish" /\ kind = "block" /\ next = "isMounted"
                       \/ op[h] = "expand" /\ kind # "nfs" /\ next = "statPath"
    <3>1. CASE op[h] = "stage"
      BY <1>0, <1>1, <3>1 DEF GetDeviceByID, Knows
    <3>2. CASE op[h] = "publish"
      BY <1>0, <1>1, <3>2 DEF GetDeviceByID, Knows
    <3>3. CASE op[h] = "expand"
      BY <1>0, <1>1, <3>3 DEF GetDeviceByID, Knows
    <3> QED BY <1>0, <1>1, <3>1, <3>2, <3>3 DEF GetDeviceByID, Knows
  <2>2. Knows(h)' /\ Found(h)'
    BY <1>0, <2>1, Arrives DEF Knows, Found, Formatting, Growing
  <2> QED BY <1>0, <2>1, <2>2, MoveStep
<1>2. CASE HasPartitionTable(h)
  <2>1. PICK next : /\ pc[h] = "probeTable" /\ Goto(h, next)
                    /\ \/ table /\ next = "listPartition"
                       \/ ~ table /\ next = "mklabel"
    BY <1>2 DEF HasPartitionTable
  <2>2. Knows(h)' /\ Found(h)'
    BY <1>0, <2>1, Arrives DEF Knows, Found, Formatting, Growing
  <2> QED BY <1>0, <2>1, <2>2, MoveStep
<1>3. CASE ListPartition(h)
  <2>1. PICK next : /\ pc[h] = "listPartition"
                    /\ Goto(h, next) \/ GotoTroubled(h, next)
                    /\ \/ next = "probeFs"
                       \/ next = "mkpart" /\ (part = 0 \/ GotoTroubled(h, next))
    BY <1>0, <1>3 DEF ListPartition
  <2>2. Knows(h)' /\ (h \in awaited => Found(h)')
    BY <1>0, <2>1, Arrives DEF Knows, Found, Formatting, Growing
  <2> QED BY <1>0, <2>1, <2>2, MoveStep
<1>4. CASE GetDeviceLastPartition(h)
  <2>1. PICK next : /\ Goto(h, next) /\ h \in awaited
                    /\ \/ pc[h] = "relist" /\ next = "probeFs"
                       \/ pc[h] = "lastPartition" /\ op[h] = "stage" /\ next = "mkdir"
                       \/ pc[h] = "lastPartition" /\ op[h] = "expand" /\ next = "growpart"
    BY <1>0, <1>4 DEF GetDeviceLastPartition, Knows, Live
  <2>2. Knows(h)' /\ Found(h)'
    BY <1>0, <2>1, Arrives DEF Knows, Found, Formatting, Growing
  <2> QED BY <1>0, <2>1, <2>2, MoveStep
<1>5. CASE FilesystemExists(h)
  <2>1. PICK next : /\ pc[h] = "probeFs" /\ Goto(h, next) /\ h \in awaited
                    /\ \/ fs = FsType /\ next = "lastPartition"
                       \/ fs # FsType /\ next = "mkfs"
    BY <1>5 DEF FilesystemExists, Live
  <2>2. Knows(h)' /\ Found(h)'
    BY <1>0, <2>1, Arrives DEF Knows, Found, Formatting, Growing
  <2> QED BY <1>0, <2>1, <2>2, MoveStep
<1>6. CASE DetectFilesystemType(h)
  <2>1. pc[h] = "detectFs" /\ Goto(h, "resizeFs") /\ h \in awaited
    BY <1>6 DEF DetectFilesystemType, Live
  <2>2. Knows(h)' /\ Found(h)'
    BY <1>0, <2>1, Arrives DEF Knows, Found, Formatting, Growing
  <2> QED BY <1>0, <2>1, <2>2, MoveStep
<1> QED BY <1>1, <1>2, <1>3, <1>4, <1>5, <1>6

\* The checks of the mount table and of the path, and the answers they give.
LEMMA CheckStep ==
  ASSUME IInv, TypeOK', OnlyVolumes', NEW h \in Handlers,
         \/ GetMountInfo(h) \/ IsMounted(h) \/ StatVolumePath(h) \/ Reply(h)
         \/ MakeTarget(h) \/ CommandFails(h)
  PROVE  IInv'
<1>0. /\ UNCHANGED <<kind, disk, mounts>> /\ pc[h] # "idle" /\ Knows(h)
      /\ exists \subseteq exists'
      /\ UNCHANGED <<table, part, fs>>
      /\ h \in awaited => Found(h)
      /\ op[h] \in OpName
      /\ ~ MakeTarget(h) => exists' = exists
  BY DEF GetMountInfo, IsMounted, StatVolumePath, Reply, MakeTarget, CommandFails, Command,
         disk, IInv, CallPart, HandlerKnows, DiskKnows, TypeOK
<1>1. CASE ReturnError(h) \/ ReturnFault(h)
  <2>1. exists' = exists
    BY <1>1, <1>0 DEF ReturnError, ReturnFault, Return, MakeTarget, Goto, request, IInv, TypeOK
  <2> QED BY <1>0, <1>1, <2>1, EndStep
<1>2. ASSUME NEW next, Goto(h, next) \/ GotoTroubled(h, next),
             \/ pc[h] = "mountInfo" /\ next = "probeTable"
             \/ pc[h] = "isMounted" /\ Mounting(h) /\ next = "mkdir"
             \/ pc[h] = "isMounted" /\ ~ Mounting(h) /\ next \in {"umount", "remove"}
             \/ pc[h] = "statPath" /\ kind = "block" /\ next = "reply"
             \/ pc[h] = "statPath" /\ kind # "block" /\ next = "lastPartition"
             \/ pc[h] = "mkdir" /\ next = "mount" /\ path[h] \in exists'
      PROVE  IInv'
  <2>0. kind \in {"mount", "block", "nfs"}
    BY NodeAssumption DEF IInv, TypeOK
  <2>1. Knows(h)'
    BY <1>0, <1>2, <2>0, Arrives DEF Knows, Formatting, Growing, Mounting
  <2>2. h \in awaited => Found(h)'
    BY <1>0, <1>2, Arrives DEF Knows, Found, Mounting
  <2> QED BY <1>0, <1>2, <2>1, <2>2, MoveStep
<1>3. ASSUME ReturnOK(h),
             \/ pc[h] = "mountInfo" /\ mounts[Staging] # <<>>
             \/ pc[h] = "isMounted" /\ mounts[path[h]] # <<>> /\ Mounting(h)
             \/ pc[h] = "reply"
      PROVE  IInv'
  BY <1>0, <1>3, AnswerStep DEF Knows, Formatting, Mounting
<1>4. CASE GetMountInfo(h)
  BY <1>1, <1>2, <1>3, <1>4 DEF GetMountInfo
<1>5. CASE IsMounted(h)
  BY <1>1, <1>2, <1>3, <1>5 DEF IsMounted
<1>6. CASE StatVolumePath(h)
  BY <1>1, <1>2, <1>6 DEF StatVolumePath
<1>7. CASE Reply(h)
  BY <1>3, <1>7 DEF Reply
<1>8. CASE MakeTarget(h)
  BY <1>2, <1>8 DEF MakeTarget
<1>9. CASE CommandFails(h)
  BY <1>1, <1>9 DEF CommandFails
<1> QED BY <1>4, <1>5, <1>6, <1>7, <1>8, <1>9

\* After a command of the awaited call, which may report a failure although it
\* did its work.
LEMMA ThenStep ==
  ASSUME IInv, TypeOK', NEW h \in Handlers, NEW next, pc[h] # "idle", h \in awaited,
         kind' = kind, Then(h, next), next \notin {"mkpart", "mount"},
         Goto(h, next) => Knows(h)' /\ Found(h)'
  PROVE  /\ CallPart' /\ UNCHANGED <<ledger, promised>>
         /\ \A g \in Handlers : want'[g] = want[g] \/ want'[g] = 0
<1>1. CASE ReturnFault(h)
  <2>1. /\ Return(h) /\ UNCHANGED <<ledger, promised>> /\ troubled \subseteq troubled'
        /\ \A g \in Handlers : want'[g] = want[g] \/ want'[g] = 0
    BY <1>1 DEF ReturnFault, Return, IInv, TypeOK
  <2> QED BY <2>1, CallPartStep
<1>2. CASE Goto(h, next)
  <2>1. /\ Moves(h, next) /\ UNCHANGED <<ledger, promised, troubled, want>>
        /\ troubled \subseteq troubled'
    BY <1>2 DEF Goto, Moves, request
  <2>2. ASSUME h \in awaited \ troubled' PROVE Alone(h)'
    <3>1. Alone(h)
      BY <2>1, <2>2 DEF IInv, CallPart, UntroubledIsAlone
    <3>2. pc'[h] = next /\ \A g \in Handlers : g # h => pc'[g] = pc[g]
      BY <2>1 DEF Moves, IInv, TypeOK
    <3> QED BY <3>1, <3>2 DEF Alone
  <2> QED BY <1>2, <2>1, <2>2, CallPartStep
<1> QED BY <1>1, <1>2 DEF Then

\* Format: a label and a file system are only written where the probe of the
\* awaited call found none, so nothing is mounted, was expanded or is lost.
LEMMA FormatStep ==
  ASSUME IInv, TypeOK', OnlyVolumes', NEW h \in Handlers,
         CreatePartitionTable(h) \/ CreatePartition(h) \/ CreateFilesystem(h)
  PROVE  IInv'
<1> USE NodeAssumption
<1>0. /\ UNCHANGED <<kind, size, mounts, exists>> /\ pc[h] # "idle" /\ h \in awaited
      /\ Knows(h) /\ Found(h) /\ kind = "mount" /\ op[h] = "stage"
      /\ pc[h] \in {"mklabel", "mkpart", "mkfs"}
  BY DEF CreatePartitionTable, CreatePartition, CreateFilesystem, Live, IInv, CallPart,
         HandlerKnows, DiskKnows, Knows, Formatting
<1>a. size \in Nat /\ part \in Nat /\ fsSize \in Nat /\ promised \in Nat
      /\ \A g \in Handlers : want[g] \in Nat
  BY DEF IInv, TypeOK
<1>1. CASE CreatePartitionTable(h)
  <2>1. /\ pc[h] = "mklabel" /\ ~ table /\ Then(h, "listPartition")
        /\ table' = TRUE /\ part' = 0 /\ fs' = NoFs /\ fsSize' = 0 /\ data' = FALSE
    BY <1>0, <1>1 DEF CreatePartitionTable, Found
  <2>2. ASSUME Goto(h, "listPartition") PROVE Knows(h)' /\ Found(h)'
    BY <1>0, <2>1, <2>2, Arrives DEF Knows, Found, Formatting, Growing
  <2>3. /\ CallPart' /\ UNCHANGED <<ledger, promised>>
        /\ \A g \in Handlers : want'[g] = want[g] \/ want'[g] = 0
    BY <1>0, <2>1, <2>2, ThenStep
  <2>4. promised = 0 /\ \A p \in Paths : mounts[p] = <<>>
    BY <1>0, <1>a, <2>1 DEF IInv, NodePart, PromisedIsFormatted, MountedIsFormatted
  <2>5. SizesNest' /\ ExpandedIsGrown' /\ PromisedIsFormatted'
    BY <1>0, <1>a, <2>1, <2>3, <2>4
    DEF IInv, NodePart, SizesNest, ExpandedIsGrown, PromisedIsFormatted
  <2>6. /\ MountPointsExist' /\ MountedIsMounted' /\ MountedIsFormatted'
        /\ DataOnDisk' /\ UnmountedIsBare'
    BY <1>0, <2>1, <2>3, <2>4
    DEF IInv, NodePart, MountPointsExist, MountedIsMounted, MountedIsFormatted, DataOnDisk,
        UnmountedIsBare
  <2> QED BY <2>3, <2>5, <2>6 DEF IInv, NodePart
<1>2. CASE CreatePartition(h)
  <2>1. /\ pc[h] = "mkpart" /\ UNCHANGED <<table, fs, fsSize, data>>
        /\ \/ part = 0 /\ part' = size /\ Then(h, "relist")
           \/ part' = part /\ ReturnError(h)
    BY <1>2 DEF CreatePartition
  <2>2. CASE part' = part /\ ReturnError(h)
    BY <1>0, <2>1, <2>2, EndStep DEF disk
  <2>3. CASE part = 0 /\ part' = size /\ Then(h, "relist")
    <3>1. ASSUME Goto(h, "relist") PROVE Knows(h)' /\ Found(h)'
      BY <1>0, <2>1, <3>1, Arrives DEF Knows, Found, Formatting, Growing
    <3>2. /\ CallPart' /\ UNCHANGED <<ledger, promised>>
          /\ \A g \in Handlers : want'[g] = want[g] \/ want'[g] = 0
      BY <1>0, <2>3, <3>1, ThenStep
    <3>3. SizesNest'
      BY <1>0, <1>a, <2>1, <2>3, <3>2 DEF IInv, NodePart, SizesNest
    <3>4. NodePart'
      BY <1>0, <2>1, <3>2, <3>3
      DEF IInv, NodePart, MountPointsExist, MountedIsMounted, MountedIsFormatted,
          PromisedIsFormatted, DataOnDisk, UnmountedIsBare, ExpandedIsGrown
    <3> QED BY <3>2, <3>4 DEF IInv
  <2> QED BY <2>1, <2>2, <2>3
<1>3. CASE CreateFilesystem(h)
  <2>1. /\ pc[h] = "mkfs" /\ ~ VolumeMounted /\ table /\ fs # FsType /\ data' = FALSE
        /\ UNCHANGED <<table, part>>
        /\ \/ fs' = FsType /\ fsSize' = part
           \/ fs' = NoFs /\ fsSize' = 0 /\ ReturnFault(h)
        /\ Then(h, "lastPartition")
    BY <1>0, <1>3 DEF CreateFilesystem, Found, Then
  <2>2. ASSUME Goto(h, "lastPartition") PROVE Knows(h)' /\ Found(h)'
    <3>1. ~ ReturnFault(h)
      BY <2>2, Arrives DEF ReturnFault, Return, IInv, TypeOK
    <3> QED BY <1>0, <2>1, <2>2, <3>1, Arrives DEF Knows, Found, Formatting, Growing
  <2>3. /\ CallPart' /\ UNCHANGED <<ledger, promised>>
        /\ \A g \in Handlers : want'[g] = want[g] \/ want'[g] = 0
    BY <1>0, <2>1, <2>2, ThenStep
  <2>4. promised = 0 /\ \A p \in Paths : mounts[p] = <<>>
    BY <1>a, <2>1, MountedAnywhere DEF IInv, NodePart, PromisedIsFormatted
  <2>5. SizesNest' /\ ExpandedIsGrown' /\ PromisedIsFormatted'
    BY <1>0, <1>a, <2>1, <2>3, <2>4
    DEF IInv, NodePart, SizesNest, ExpandedIsGrown, PromisedIsFormatted
  <2>6. /\ MountPointsExist' /\ MountedIsMounted' /\ MountedIsFormatted'
        /\ DataOnDisk' /\ UnmountedIsBare'
    BY <1>0, <2>1, <2>3, <2>4
    DEF IInv, NodePart, MountPointsExist, MountedIsMounted, MountedIsFormatted, DataOnDisk,
        UnmountedIsBare
  <2> QED BY <2>3, <2>5, <2>6 DEF IInv, NodePart
<1> QED BY <1>1, <1>2, <1>3

\* ResizeVolume: the partition takes in the device, then the file system the
\* partition; neither shrinks, and the answer is for what the device had.
LEMMA GrowStep ==
  ASSUME IInv, TypeOK', OnlyVolumes', NEW h \in Handlers,
         ResizePartition(h) \/ ResizeFilesystem(h)
  PROVE  IInv'
<1> USE NodeAssumption
<1>0. /\ UNCHANGED <<kind, size, table, fs, data, mounts, exists>> /\ pc[h] # "idle"
      /\ h \in awaited /\ Knows(h) /\ Found(h) /\ kind = "mount" /\ op[h] = "expand"
      /\ pc[h] \in {"growpart", "resizeFs"} /\ Recorded(h)
  BY DEF ResizePartition, ResizeFilesystem, Live, IInv, CallPart, HandlerKnows, DiskKnows,
         LedgerKnows, Knows, Growing
<1>a. size \in Nat /\ part \in Nat /\ fsSize \in Nat /\ promised \in Nat
      /\ \A g \in Handlers : want[g] \in Nat
  BY DEF IInv, TypeOK
<1>b. path[h] \in Paths /\ ledger[path[h]] = "mounted" /\ mounts[path[h]] # <<>>
      /\ table /\ fs = FsType
  BY <1>0 DEF Recorded, IInv, TypeOK, NodePart, MountedIsMounted, MountedIsFormatted
<1>1. CASE ResizePartition(h)
  <2>1. pc[h] = "growpart" /\ part' = size /\ Then(h, "detectFs") /\ fsSize' = fsSize
    BY <1>1 DEF ResizePartition
  <2>2. ASSUME Goto(h, "detectFs") PROVE Knows(h)' /\ Found(h)'
    <3>1. want[h] <= size
      BY DEF IInv, NodePart, SizesNest
    <3> QED BY <1>0, <2>1, <2>2, <3>1, Arrives DEF Knows, Found, Formatting, Growing
  <2>3. /\ CallPart' /\ UNCHANGED <<ledger, promised>>
        /\ \A g \in Handlers : want'[g] = want[g] \/ want'[g] = 0
    BY <1>0, <2>1, <2>2, ThenStep
  <2>4. SizesNest'
    BY <1>0, <1>a, <2>1, <2>3 DEF IInv, NodePart, SizesNest
  <2>5. NodePart'
    BY <1>0, <2>1, <2>3, <2>4
    DEF IInv, NodePart, MountPointsExist, MountedIsMounted, MountedIsFormatted,
        PromisedIsFormatted, DataOnDisk, UnmountedIsBare, ExpandedIsGrown
  <2> QED BY <2>3, <2>5 DEF IInv
<1>2. CASE ResizeFilesystem(h)
  <2>1. /\ pc[h] = "resizeFs" /\ fsSize' = part /\ part' = part /\ want[h] <= part
        /\ ReturnOK(h) \/ ReturnFault(h)
    BY <1>0, <1>2 DEF ResizeFilesystem, ThenOK, Found
  <2>2. /\ Return(h) /\ ledger' = ledger /\ troubled \subseteq troubled'
        /\ promised' = promised \/ promised' = want[h]
        /\ \A g \in Handlers : want'[g] = want[g] \/ want'[g] = 0
    BY <1>0, <1>b, <2>1 DEF ReturnOK, ReturnFault, Return, IInv, TypeOK
  <2>3. CallPart'
    BY <1>0, <2>2, CallPartStep
  <2>4. SizesNest'
    BY <1>0, <1>a, <2>1, <2>2 DEF IInv, NodePart, SizesNest
  <2>5. ExpandedIsGrown'
    <3>1. fsSize <= part /\ promised <= fsSize
      BY DEF IInv, NodePart, SizesNest, ExpandedIsGrown
    <3> QED BY <1>a, <2>1, <2>2, <3>1 DEF ExpandedIsGrown
  <2>6. NodePart'
    BY <1>0, <1>b, <2>1, <2>2, <2>4, <2>5
    DEF IInv, NodePart, MountPointsExist, MountedIsMounted, MountedIsFormatted,
        PromisedIsFormatted, DataOnDisk, UnmountedIsBare
  <2> QED BY <2>3, <2>6 DEF IInv
<1> QED BY <1>1, <1>2

\* Mount: only the awaited call mounts, and only what is formatted, on a path that
\* exists and that the kubelet does not take for bare.
LEMMA MountStep ==
  ASSUME IInv, TypeOK', OnlyVolumes', NEW h \in Handlers, Mount(h)
  PROVE  IInv'
<1> USE NodeAssumption
<1>0. /\ UNCHANGED <<kind, disk, exists>> /\ pc[h] = "mount" /\ h \in awaited
      /\ Knows(h) /\ Found(h) /\ Recorded(h) /\ path[h] \in Paths /\ Staging \in Paths
      /\ promised \in Nat /\ size \in Nat
  BY DEF Mount, Live, IInv, CallPart, HandlerKnows, DiskKnows, LedgerKnows, TypeOK, Paths
<1>1. CASE ReturnError(h) /\ UNCHANGED mounts
  BY <1>0, <1>1, EndStep
<1>2. CASE ~ (ReturnError(h) /\ UNCHANGED mounts)
  <2>1. /\ path[h] \in exists
        /\ ReturnOK(h) \/ ReturnFault(h)
        /\ mounts' = [mounts EXCEPT ![path[h]] = Append(mounts[path[h]], "volume")]
    BY <1>0, <1>2, MountSource DEF Mount, ThenOK
  <2>2. /\ op[h] \in {"stage", "publish"} /\ want[h] = 0
        /\ kind = "mount" => table /\ fs = FsType
    <3>1. op[h] \in {"stage", "publish"} /\ want[h] = 0
      BY <1>0 DEF Knows
    <3>2. CASE op[h] = "stage"
      BY <1>0, <3>1, <3>2 DEF Found
    <3>3. CASE op[h] = "publish"
      BY <1>0, <3>1, <3>3
      DEF Recorded, IInv, NodePart, MountedIsMounted, MountedIsFormatted
    <3> QED BY <3>1, <3>2, <3>3
  <2>3. /\ mounts'[path[h]] # <<>>
        /\ \A p \in Paths : p # path[h] => mounts'[p] = mounts[p]
    <3>1. mounts[path[h]] \in Seq({"volume"}) /\ mounts \in [Paths -> Seq({"volume"})]
      BY <1>0 DEF IInv, OnlyVolumes
    <3>2. Append(mounts[path[h]], "volume") # <<>>
      BY <3>1, Stacks
    <3> QED BY <1>0, <2>1, <3>1, <3>2
  <2>4. /\ Return(h) /\ promised' = promised /\ troubled \subseteq troubled'
        /\ \A g \in Handlers : want'[g] = want[g] \/ want'[g] = 0
    BY <1>0, <2>1, <2>2 DEF ReturnOK, ReturnFault, Return, IInv, TypeOK
  <2>5. /\ ledger'[path[h]] # "unmounted"
        /\ \A p \in Paths : p # path[h] => ledger'[p] = ledger[p]
    BY <1>0, <2>1, <2>2 DEF ReturnOK, ReturnFault, Recorded, IInv, TypeOK
  <2>6. CallPart'
    BY <1>0, <2>4, CallPartStep
  <2>7. SizesNest'
    BY <1>0, <2>4 DEF IInv, NodePart, SizesNest, disk
  <2>8. MountPointsExist' /\ MountedIsMounted' /\ UnmountedIsBare'
    <3>1. exists' = exists /\ kind' = kind /\ path[h] \in exists
      BY <1>0, <2>1
    <3>2. MountPointsExist'
      BY <2>3, <3>1 DEF IInv, NodePart, MountPointsExist
    <3>3. MountedIsMounted'
      BY <2>3, <2>5, <3>1 DEF IInv, NodePart, MountedIsMounted
    <3>4. UnmountedIsBare'
      BY <2>3, <2>5 DEF IInv, NodePart, UnmountedIsBare
    <3> QED BY <3>2, <3>3, <3>4
  <2>9. MountedIsFormatted'
    BY <1>0, <2>2 DEF MountedIsFormatted, disk
  <2>10. PromisedIsFormatted' /\ DataOnDisk' /\ ExpandedIsGrown'
    BY <1>0, <2>4 DEF IInv, NodePart, PromisedIsFormatted, DataOnDisk, ExpandedIsGrown, disk
  <2> QED BY <2>6, <2>7, <2>8, <2>9, <2>10 DEF IInv, NodePart
<1> QED BY <1>1, <1>2

\* Unmount: the kubelet takes the path for neither mounted nor bare.
LEMMA UnmountStep ==
  ASSUME IInv, TypeOK', OnlyVolumes', NEW h \in Handlers, Unmount(h)
  PROVE  IInv'
<1> USE NodeAssumption
<1>0. /\ UNCHANGED <<kind, disk, exists>> /\ pc[h] = "umount" /\ h \in awaited
      /\ Knows(h) /\ Found(h) /\ Recorded(h) /\ path[h] \in Paths
      /\ op[h] \in {"unstage", "unpublish"} /\ Then(h, "remove")
      /\ mounts[path[h]] # <<>>
      /\ UNCHANGED <<table, part, fs>>
  BY DEF Unmount, Live, IInv, CallPart, HandlerKnows, Knows, DiskKnows, LedgerKnows, TypeOK,
         disk
<1>1. \A p \in Paths : p # path[h] => mounts'[p] = mounts[p]
  BY <1>0 DEF Unmount, IInv, OnlyVolumes
<1>2. ASSUME Goto(h, "remove") PROVE Knows(h)' /\ Found(h)'
  BY <1>0, <1>2, Arrives DEF Knows, Found, Formatting, Growing
<1>3. /\ CallPart' /\ UNCHANGED <<ledger, promised>>
      /\ \A g \in Handlers : want'[g] = want[g] \/ want'[g] = 0
  BY <1>0, <1>2, ThenStep
<1>4. SizesNest'
  <2>1. size \in Nat
    BY DEF IInv, TypeOK
  <2> QED BY <1>0, <1>3, <2>1 DEF IInv, NodePart, SizesNest, disk
<1>5. ledger[path[h]] = "unknown"
  BY <1>0 DEF Recorded
<1>6. /\ MountPointsExist' /\ MountedIsMounted' /\ UnmountedIsBare'
  BY <1>0, <1>1, <1>3, <1>5
  DEF IInv, NodePart, MountPointsExist, MountedIsMounted, UnmountedIsBare
<1>7. MountedIsFormatted' /\ PromisedIsFormatted' /\ DataOnDisk' /\ ExpandedIsGrown'
  BY <1>0, <1>1, <1>3
  DEF IInv, NodePart, MountedIsFormatted, PromisedIsFormatted, DataOnDisk, ExpandedIsGrown,
      disk
<1> QED BY <1>3, <1>4, <1>6, <1>7 DEF IInv, NodePart

\* The directory is removed, or was, and nothing is mounted there; or os.Stat
\* could not tell, and the kubelet is not taken to know.
LEMMA RemoveStep ==
  ASSUME IInv, TypeOK', OnlyVolumes', NEW h \in Handlers, RemoveTarget(h)
  PROVE  IInv'
<1>0. /\ UNCHANGED <<kind, disk, mounts>> /\ pc[h] # "idle" /\ path[h] \in Paths
      /\ op[h] \in {"unstage", "unpublish"}
  BY DEF RemoveTarget, IInv, CallPart, HandlerKnows, Knows, TypeOK
<1>1. CASE ReturnError(h) /\ UNCHANGED exists
  BY <1>0, <1>1, EndStep
<1>2. CASE /\ ReturnOK(h)
           /\ \/ path[h] \notin exists /\ UNCHANGED exists
              \/ mounts[path[h]] = <<>> /\ exists' = exists \ {path[h]}
  <2>1. /\ mounts[path[h]] = <<>>
        /\ exists' = exists \/ exists' = exists \ {path[h]}
    BY <1>0, <1>2 DEF IInv, NodePart, MountPointsExist
  <2>2. \A p \in Paths : p \in exists \ exists' => mounts[p] = <<>>
    BY <2>1
  <2> QED BY <1>0, <1>2, <2>1, <2>2, AnswerStep
<1>3. CASE ReturnUnchecked(h) /\ UNCHANGED exists
  <2>1. /\ Return(h) /\ UNCHANGED <<promised, troubled, table, part, fs>>
        /\ h \in awaited \/ ledger' = ledger
        /\ \A p \in Paths : ledger'[p] = ledger[p] \/ ledger'[p] = "unchecked"
    BY <1>0, <1>3 DEF ReturnUnchecked, Live, disk, IInv, TypeOK
  <2>2. CallPart'
    BY <1>0, <1>3, <2>1, CallPartStep
  <2>3. SizesNest'
    <3>1. size \in Nat /\ \A g \in Handlers : want'[g] = want[g] \/ want'[g] = 0
      BY <2>1 DEF Return, IInv, TypeOK
    <3> QED BY <1>0, <3>1 DEF SizesNest, IInv, NodePart, disk
  <2>4. NodePart'
    BY <1>0, <1>3, <2>1, <2>3
    DEF IInv, NodePart, MountPointsExist, MountedIsMounted, MountedIsFormatted,
        PromisedIsFormatted, DataOnDisk, UnmountedIsBare, ExpandedIsGrown, disk
  <2> QED BY <2>2, <2>4 DEF IInv
<1> QED BY <1>1, <1>2, <1>3 DEF RemoveTarget

\* The kubelet gives up on a call.
LEMMA CancelStep ==
  ASSUME IInv, TypeOK', OnlyVolumes', NEW h \in Handlers, Cancel(h)
  PROVE  IInv'
<1>0. /\ awaited' = awaited \ {h} /\ UNCHANGED <<pc, op, path, want, kind, disk, mounts>>
      /\ UNCHANGED <<exists, ledger, promised, troubled>>
      /\ UNCHANGED <<table, part, fs>>
  BY DEF Cancel, disk
<1>1. NodePart'
  BY <1>0, NodePartStays
<1>2. HandlerKnows' /\ OneCall' /\ LedgerKnows' /\ DiskKnows' /\ UntroubledIsAlone'
  BY <1>0 DEF IInv, CallPart, HandlerKnows, Knows, OneCall, LedgerKnows, Recorded, DiskKnows,
              Found, UntroubledIsAlone, Alone
<1> QED BY <1>1, <1>2 DEF IInv, CallPart

\* The plugin or the node restarts: no call is left, and no mount is after the
\* node's.
LEMMA RestartStep ==
  ASSUME IInv, TypeOK', OnlyVolumes', PluginRestart \/ NodeRestart
  PROVE  IInv'
<1> USE NodeAssumption
<1>0. /\ Restart
      /\ \/ UNCHANGED <<mounts, ledger>>
         \/ \A p \in Paths : mounts'[p] = <<>> /\ ledger'[p] = "unknown"
  BY DEF PluginRestart, NodeRestart
<1>1. CallPart'
  BY <1>0 DEF Restart, CallPart, HandlerKnows, Knows, OneCall, LedgerKnows, DiskKnows,
              UntroubledIsAlone, Formatting, Growing
<1>2. SizesNest'
  <2>1. size \in Nat
    BY DEF IInv, TypeOK
  <2> QED BY <1>0, <2>1 DEF Restart, disk, IInv, NodePart, SizesNest
<1>3. NodePart'
  BY <1>0, <1>2
  DEF Restart, disk, IInv, NodePart, MountPointsExist, MountedIsMounted, MountedIsFormatted,
      PromisedIsFormatted, DataOnDisk, UnmountedIsBare, ExpandedIsGrown
<1> QED BY <1>1, <1>3 DEF IInv

\* A pod writes, the device grows, or nothing happens.
LEMMA OutsideStep ==
  ASSUME IInv, TypeOK', OnlyVolumes', WorkloadWrites \/ DeviceGrows \/ UNCHANGED vars
  PROVE  IInv'
<1> USE NodeAssumption
<1>0. /\ UNCHANGED <<pc, op, path, awaited, want, kind, table, part, fs, fsSize, mounts>>
      /\ UNCHANGED <<exists, ledger, promised, troubled>>
      /\ size' = size \/ size' = size + 1
      /\ data' = data \/ WorkloadWrites
  BY DEF WorkloadWrites, DeviceGrows, vars, request
<1>1. CallPart'
  BY <1>0 DEF IInv, CallPart, HandlerKnows, Knows, OneCall, LedgerKnows, Recorded, DiskKnows,
              Found, UntroubledIsAlone, Alone
<1>2. SizesNest'
  <2>1. size \in Nat /\ part \in Nat /\ \A g \in Handlers : want[g] \in Nat
    BY DEF IInv, TypeOK
  <2> QED BY <1>0, <2>1 DEF IInv, NodePart, SizesNest
<1>3. DataOnDisk'
  <2>1. CASE WorkloadWrites
    <3>1. kind = "mount" /\ \E p \in Paths : mounts[p] # <<>>
      BY <2>1 DEF WorkloadWrites, Paths
    <3> QED BY <1>0, <3>1 DEF IInv, NodePart, MountedIsFormatted, DataOnDisk
  <2>2. CASE data' = data
    BY <1>0, <2>2 DEF IInv, NodePart, DataOnDisk
  <2> QED BY <1>0, <2>1, <2>2
<1>4. NodePart'
  BY <1>0, <1>2, <1>3
  DEF IInv, NodePart, MountPointsExist, MountedIsMounted, MountedIsFormatted,
      PromisedIsFormatted, UnmountedIsBare, ExpandedIsGrown
<1> QED BY <1>1, <1>4 DEF IInv

\* Every step preserves the invariant.
LEMMA NextIInv == IInv /\ [Next]_vars => IInv'
<1> SUFFICES ASSUME IInv, [Next]_vars PROVE IInv'
  OBVIOUS
<1>1. TypeOK' /\ OnlyVolumes'
  BY TypeStep, StacksStep
<1> QED
  BY <1>1, CallStep, ProbeStep, CheckStep, FormatStep, GrowStep, MountStep, UnmountStep,
     RemoveStep, CancelStep, RestartStep, OutsideStep
  DEF Next, Step, Format, Mounts, ResizeVolume, Environment

-----------------------------------------------------------------------------

\* The invariant holds in every reachable state.
LEMMA Invariance == Spec => []IInv
  BY InitIInv, NextIInv, PTL DEF Spec

\* Every reachable state is well typed: no partition or file system exceeds the
\* device.
THEOREM TypeCorrect == Spec => []TypeOK
<1>1. IInv => TypeOK
  BY DEF IInv
<1> QED BY Invariance, <1>1, PTL

\* What NodeStageVolume or NodePublishVolume reported as mounted shows the volume,
\* for any number of pods and of calls the kubelet gave up on; a pod never gets
\* the bare staging directory.
THEOREM MountAnswerHolds == Spec => []MountedShowsVolume
<1>1. IInv => MountedShowsVolume
  <2> SUFFICES ASSUME IInv, NEW p \in Paths, mounts[p] # <<>>
               PROVE  mounts[p][Len(mounts[p])] = "volume"
    BY DEF IInv, NodePart, MountedIsMounted, MountedShowsVolume
  <2>1. mounts[p] \in Seq({"volume"})
    BY DEF IInv, OnlyVolumes
  <2> QED BY <2>1, Stacks
<1> QED BY Invariance, <1>1, PTL

\* After NodeUnstageVolume or NodeUnpublishVolume reported success nothing is
\* mounted on the path, although a silent failure of findmnt makes a call mount
\* twice or skip the umount, provided that its os.Stat of the path did not fail.
THEOREM UnmountAnswerHolds == Spec => []UnmountedIsBare
<1>1. IInv => UnmountedIsBare
  BY DEF IInv, NodePart
<1> QED BY Invariance, <1>1, PTL

\* NodeExpandVolume reports success only when the file system has the size the
\* device had when it was asked.
THEOREM ExpandAnswerHolds == Spec => []ExpandedIsGrown
<1>1. IInv => ExpandedIsGrown
  BY DEF IInv, NodePart
<1> QED BY Invariance, <1>1, PTL

\* Format destroys no data, whatever commands fail and calls are repeated, as long
\* as a restored volume has the file system that its capability names: for any
\* other filesystemExists finds none and mkfs runs.
THEOREM FormatKeepsData ==
  ASSUME RestoredFs = FsType
  PROVE  Spec => DataKept
<1> DEFINE Kept == data => data'
<1>1. IInv /\ [Next]_vars => [Kept]_vars
  <2> SUFFICES ASSUME IInv, Next, data PROVE data'
    OBVIOUS
  <2>0. table /\ fs = FsType
    BY DEF IInv, TypeOK, NodePart, DataOnDisk
  <2>1. ASSUME NEW h \in Handlers, CreatePartitionTable(h) \/ CreateFilesystem(h) PROVE FALSE
    <3>1. h \in awaited /\ pc[h] \in {"mklabel", "mkfs"}
      BY <2>1 DEF CreatePartitionTable, CreateFilesystem, Live
    <3> QED BY <2>0, <3>1 DEF IInv, CallPart, DiskKnows, Found
  <2>2. ASSUME NEW h \in Handlers, Calls(h) PROVE data'
    BY <2>2 DEF Calls, NodeStageVolume, NodeUnstageVolume, NodePublishVolume,
                NodeUnpublishVolume, NodeExpandVolume, Call, disk
  <2>3. ASSUME NEW h \in Handlers, Step(h), ~ CreatePartitionTable(h), ~ CreateFilesystem(h)
        PROVE  data'
    <3>1. data' = data
      BY <2>3 DEF Step, GetDeviceByID, GetMountInfo, GetDeviceLastPartition, Format,
                  HasPartitionTable, ListPartition, CreatePartition, FilesystemExists,
                  Mounts, IsMounted, MakeTarget, Mount, Unmount, RemoveTarget, ResizeVolume,
                  StatVolumePath, ResizePartition, DetectFilesystemType, ResizeFilesystem,
                  Reply, CommandFails, Cancel, disk
    <3> QED BY <3>1
  <2>4. CASE Environment
    BY <2>4 DEF Environment, PluginRestart, NodeRestart, Restart, WorkloadWrites, DeviceGrows,
                disk
  <2> QED BY <2>1, <2>2, <2>3, <2>4 DEF Next
<1> QED BY Invariance, <1>1, PTL DEF Spec, DataKept

\* Format leads to success in the end: a NodeStageVolume that itself meets no fault
\* does not fail, whatever label, partition or mount earlier attempts left behind.
THEOREM StageSucceeds == Spec => StageRecovers
<1> DEFINE Staged(h) == /\ h \in awaited /\ op[h] = "stage"
                        /\ pc'[h] = "idle" /\ h \notin troubled'
           Recovers == \A h \in Handlers : Staged(h) => ledger'[Staging] = "mounted"
<1>1. IInv /\ [Next]_vars => [Recovers]_vars
  <2> SUFFICES ASSUME IInv, Next, NEW h \in Handlers, Staged(h)
               PROVE  ledger'[Staging] = "mounted"
    OBVIOUS
  <2>0. /\ h \in awaited /\ op[h] = "stage" /\ pc'[h] = "idle" /\ h \notin troubled'
        /\ Knows(h) /\ pc[h] # "idle" /\ path[h] = Staging /\ Staging \in Paths
    BY DEF IInv, CallPart, HandlerKnows, Knows, Paths
  <2> HIDE DEF Staged
  <2>a. h \notin troubled => Alone(h)
    BY <2>0 DEF IInv, CallPart, UntroubledIsAlone
  <2>b. ~ ReturnFault(h)
    BY <2>0 DEF ReturnFault
  <2>c. ASSUME NEW next, Goto(h, next) \/ GotoTroubled(h, next) PROVE next = "idle"
    BY <2>0, <2>c, Arrives
  <2>d. ASSUME ReturnOK(h) PROVE ledger'[Staging] = "mounted"
    BY <2>0, <2>d DEF ReturnOK, Live, IInv, TypeOK
  <2>1. CASE GetMountInfo(h)
    <3>1. mounts[Staging] # <<>> => fs = FsType
      BY <2>0, <2>1 DEF GetMountInfo, Knows, Formatting, IInv, NodePart, MountedIsFormatted
    <3> QED BY <2>1, <2>b, <2>c, <2>d, <3>1 DEF GetMountInfo
  <2>2. CASE CreatePartition(h)
    <3>1. ReturnError(h) /\ part > 0
      BY <2>2, <2>b, <2>c DEF CreatePartition, Then
    <3>2. h \notin troubled /\ pc[h] = "mkpart"
      BY <2>0, <2>2, <3>1 DEF ReturnError, CreatePartition
    <3>3. part = 0
      BY <2>a, <3>2 DEF Alone
    <3> QED BY <3>1, <3>3
  <2>3. CASE Mount(h)
    <3>1. CASE ReturnError(h) /\ path[h] \notin exists
      BY <2>0, <2>3, <2>a, <3>1 DEF ReturnError, Mount, Alone
    <3>2. CASE ReturnOK(h)
      BY <2>d, <3>2
    <3> QED BY <2>3, <2>b, <3>1, <3>2 DEF Mount, ThenOK
  <2>4. CASE \/ GetDeviceByID(h) \/ HasPartitionTable(h) \/ CreatePartitionTable(h)
             \/ ListPartition(h) \/ GetDeviceLastPartition(h) \/ FilesystemExists(h)
             \/ CreateFilesystem(h) \/ IsMounted(h) \/ MakeTarget(h) \/ Unmount(h)
             \/ Reply(h) \/ CommandFails(h)
    <3>1. CASE GetDeviceByID(h)
      BY <2>0, <2>c, <3>1 DEF GetDeviceByID
    <3> QED BY <2>4, <2>b, <2>c, <2>d, <3>1
            DEF HasPartitionTable, CreatePartitionTable, ListPartition,
                GetDeviceLastPartition, FilesystemExists, CreateFilesystem, IsMounted,
                MakeTarget, Unmount, Reply, CommandFails, Then
  <2>5. CASE RemoveTarget(h) \/ ResizeVolume(h)
    BY <2>0, <2>5 DEF RemoveTarget, ResizeVolume, StatVolumePath, ResizePartition,
                      DetectFilesystemType, ResizeFilesystem, Knows, Growing
  <2>6. CASE Calls(h) \/ Cancel(h)
    BY <2>0, <2>6 DEF Calls, NodeStageVolume, NodeUnstageVolume, NodePublishVolume,
                      NodeUnpublishVolume, NodeExpandVolume, Call, Cancel
  <2>7. ASSUME NEW g \in Handlers, g # h, Calls(g) \/ Step(g) PROVE FALSE
    <3>1. pc' = [pc EXCEPT ![g] = pc'[g]]
      <4>1. CASE Calls(g)
        BY <4>1 DEF Calls, NodeStageVolume, NodeUnstageVolume, NodePublishVolume,
                    NodeUnpublishVolume, NodeExpandVolume, Call, IInv, TypeOK
      <4>2. ASSUME \/ \E next : Goto(g, next) \/ GotoTroubled(g, next) \/ Then(g, next)
                   \/ ReturnOK(g) \/ ReturnError(g) \/ ReturnFault(g) \/ ThenOK(g)
                   \/ ReturnUnchecked(g)
            PROVE  pc' = [pc EXCEPT ![g] = pc'[g]]
        BY <4>2 DEF Goto, GotoTroubled, Then, ThenOK, ReturnOK, ReturnError, ReturnFault,
                    ReturnUnchecked, Return, IInv, TypeOK
      <4>3. CASE \/ GetDeviceByID(g) \/ GetMountInfo(g) \/ GetDeviceLastPartition(g)
                 \/ Format(g) \/ Reply(g) \/ CommandFails(g)
        BY <4>2, <4>3 DEF GetDeviceByID, GetMountInfo, GetDeviceLastPartition, Format,
                          HasPartitionTable, CreatePartitionTable, ListPartition,
                          CreatePartition, FilesystemExists, CreateFilesystem, Reply,
                          CommandFails
      <4>4. CASE Mounts(g) \/ ResizeVolume(g)
        BY <4>2, <4>4 DEF Mounts, IsMounted, MakeTarget, Mount, Unmount, RemoveTarget,
                          ResizeVolume, StatVolumePath, ResizePartition,
                          DetectFilesystemType, ResizeFilesystem
      <4>5. CASE Cancel(g)
        BY <4>5 DEF Cancel, IInv, TypeOK
      <4> QED BY <2>7, <4>1, <4>3, <4>4, <4>5 DEF Step
    <3> QED BY <2>0, <2>7, <3>1 DEF IInv, TypeOK
  <2>8. CASE Environment
    BY <2>0, <2>8 DEF Environment, PluginRestart, NodeRestart, Restart, WorkloadWrites,
                      DeviceGrows
  <2> QED BY <2>1, <2>2, <2>3, <2>4, <2>5, <2>6, <2>7, <2>8 DEF Next, Step, Format, Mounts
<1> QED BY Invariance, <1>1, PTL DEF Spec, StageRecovers

=============================================================================
