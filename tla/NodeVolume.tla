----------------------------- MODULE NodeVolume -----------------------------
(***************************************************************************)
(* One volume on one node: the node service (internal/node) on top of      *)
(* LinuxFilesystem (internal/filesystem), which runs blkid, parted,        *)
(* sfdisk, mkfs, findmnt, mount, umount and growpart.                      *)
(*                                                                         *)
(* The node service keeps no state and takes no lock: what it knows is the *)
(* disk and the mount table, one command at a time.  Every command runs    *)
(* under exec.CommandContext, so once the RPC is cancelled no further      *)
(* command starts, while os.MkdirAll and os.Remove still run.  The kubelet *)
(* (external) has one call per volume outstanding, gives up on it after a  *)
(* timeout and retries: the goroutine of the call it gave up on may still  *)
(* be running.  A command or system call may fail; a command may do its    *)
(* work and be killed before it can say so; the plugin and the node may    *)
(* restart between any two.                                                *)
(***************************************************************************)
EXTENDS Naturals, Sequences

CONSTANTS
    Handlers,    \* goroutines that serve RPCs for this volume
    Staging,     \* the staging target path
    Targets,     \* the target paths of pods
    Kinds,       \* which of "mount", "block" and "nfs" volumes are explored
    FsType,      \* the file system of the volume's capability (ext4)
    RestoredFs,  \* the file system a cloned or restored volume comes with
    NoFs,
    MaxSize,     \* bound: sizes of the device
    MaxLayers    \* bound: mounts stacked on one path

Paths == Targets \union {Staging}

ASSUME NodeAssumption ==
    /\ Staging \notin Targets
    /\ Kinds \subseteq {"mount", "block", "nfs"}
    /\ NoFs \notin {FsType, RestoredFs}
    /\ MaxSize \in Nat \ {0}
    /\ MaxLayers \in Nat

VARIABLES
    \* the plugin process
    pc,         \* the next command or system call of each handler
    op,         \* the RPC it serves
    path,       \* the path of the request
    awaited,    \* handlers whose context is live
    \* the node
    kind,       \* mount, block or nfs: fixed for a volume
    size,       \* of the block device
    table,      \* it has a GPT partition table
    part,       \* size of its last partition, 0 when there is none
    fs,         \* the file system blkid finds on the partition
    fsSize,     \* and its size
    data,       \* the file system holds what a workload wrote
    mounts,     \* the mounts stacked on each path, the visible one last
    exists,     \* paths that exist
    \* observation
    ledger,     \* what the kubelet was last told about each path; "unchecked"
                \* is "unmounted" by a call whose os.Stat of the path failed
    want,       \* device size when an expand began
    promised,   \* largest such size for which an expand was answered
    troubled    \* handlers that met a fault or another goroutine

request == <<op, path, awaited, want>>
disk    == <<size, table, part, fs, fsSize, data>>
vars    == <<pc, op, path, awaited, kind, size, table, part, fs, fsSize, data,
             mounts, exists, ledger, want, promised, troubled>>

\* Commands and system calls whose failure ends the RPC with an error.
Command == {"getDevice", "probeTable", "mklabel", "mkpart", "relist", "probeFs",
            "mkfs", "lastPartition", "mkdir", "mount", "umount", "remove",
            "statPath", "growpart", "detectFs", "resizeFs"}

PCName == Command \union {"idle", "mountInfo", "listPartition", "isMounted", "reply"}

OpName == {"none", "stage", "unstage", "publish", "unpublish", "expand"}

TypeOK ==
    /\ pc \in [Handlers -> PCName]
    /\ op \in [Handlers -> OpName]
    /\ path \in [Handlers -> Paths]
    /\ awaited \subseteq Handlers
    /\ kind \in Kinds
    /\ size \in 1 .. MaxSize
    /\ table \in BOOLEAN
    /\ part \in 0 .. MaxSize
    /\ fs \in {NoFs, FsType, RestoredFs}
    /\ fsSize \in 0 .. MaxSize
    /\ data \in BOOLEAN
    /\ mounts \in [Paths -> Seq({"volume", "directory"})]
    /\ exists \subseteq Paths
    /\ ledger \in [Paths -> {"unknown", "mounted", "unmounted", "unchecked"}]
    /\ want \in [Handlers -> 0 .. MaxSize]
    /\ promised \in 0 .. MaxSize
    /\ troubled \subseteq Handlers

\* A new volume is blank; one that was cloned or restored from a snapshot has
\* the data of its source, on a device of at least the source's size.
Init ==
    /\ pc = [h \in Handlers |-> "idle"]
    /\ op = [h \in Handlers |-> "none"]
    /\ path = [h \in Handlers |-> Staging]
    /\ awaited = {}
    /\ kind \in Kinds
    /\ size \in 1 .. MaxSize
    /\ \/ table = FALSE /\ part = 0 /\ fs = NoFs /\ fsSize = 0 /\ data = FALSE
       \/ table = TRUE /\ part = 1 /\ fs = RestoredFs /\ fsSize = 1 /\ data = TRUE
    /\ mounts = [p \in Paths |-> <<>>]
    /\ exists = {}
    /\ ledger = [p \in Paths |-> "unmounted"]
    /\ want = [h \in Handlers |-> 0]
    /\ promised = 0
    /\ troubled = {}

-----------------------------------------------------------------------------
(***************************************************************************)
(* How a call begins, goes on and ends.                                    *)
(***************************************************************************)

\* exec.CommandContext starts a command only while the context is live.
Live(h) == h \in awaited

\* The kubelet has no other call for the volume outstanding.
Call(h, o, p, first) ==
    /\ pc[h] = "idle"
    /\ awaited = {}
    /\ pc' = [pc EXCEPT ![h] = first]
    /\ op' = [op EXCEPT ![h] = o]
    /\ path' = [path EXCEPT ![h] = p]
    /\ awaited' = {h}
    /\ troubled' = IF \E g \in Handlers : pc[g] # "idle"
                   THEN troubled \union {h} ELSE troubled \ {h}
    /\ UNCHANGED <<kind, disk, mounts, exists, promised>>

Return(h) ==
    /\ pc' = [pc EXCEPT ![h] = "idle"]
    /\ op' = [op EXCEPT ![h] = "none"]
    /\ path' = [path EXCEPT ![h] = Staging]
    /\ awaited' = awaited \ {h}
    /\ want' = [want EXCEPT ![h] = 0]

ReturnError(h) == Return(h) /\ UNCHANGED <<ledger, promised, troubled>>

ReturnFault(h) ==
    /\ Return(h)
    /\ troubled' = troubled \union {h}
    /\ UNCHANGED <<ledger, promised>>

\* The kubelet reads the answer if it still waits for it.
ReturnOK(h) ==
    /\ Return(h)
    /\ ledger' = IF Live(h) /\ op[h] # "expand"
                 THEN [ledger EXCEPT ![path[h]] = IF op[h] \in {"stage", "publish"}
                                                  THEN "mounted" ELSE "unmounted"]
                 ELSE ledger
    /\ promised' = IF Live(h) /\ want[h] > promised THEN want[h] ELSE promised
    /\ UNCHANGED troubled

\* Success of an unmount that did not look at the path.
ReturnUnchecked(h) ==
    /\ Return(h)
    /\ ledger' = IF Live(h) THEN [ledger EXCEPT ![path[h]] = "unchecked"] ELSE ledger
    /\ UNCHANGED <<promised, troubled>>

Goto(h, next) ==
    /\ pc' = [pc EXCEPT ![h] = next]
    /\ UNCHANGED <<request, ledger, promised, troubled>>

\* The same after a fault that the code does not notice.
GotoTroubled(h, next) ==
    /\ pc' = [pc EXCEPT ![h] = next]
    /\ troubled' = troubled \union {h}
    /\ UNCHANGED <<request, ledger, promised>>

\* A command has had its effect; it may still report failure.
Then(h, next) == Goto(h, next) \/ ReturnFault(h)
ThenOK(h)     == ReturnOK(h) \/ ReturnFault(h)

-----------------------------------------------------------------------------
(***************************************************************************)
(* The calls.  The kubelet publishes and expands what it knows is staged,  *)
(* and unstages when nothing is published.                                 *)
(***************************************************************************)

NodeStageVolume(h) ==
    /\ Call(h, "stage", Staging,
            CASE kind = "mount" -> "getDevice"
              [] kind = "nfs"   -> "isMounted"
              [] kind = "block" -> "reply")
    /\ ledger' = [ledger EXCEPT ![Staging] = IF @ = "mounted" THEN @ ELSE "unknown"]
    /\ UNCHANGED want

NodeUnstageVolume(h) ==
    /\ \A t \in Targets : ledger[t] \in {"unmounted", "unchecked"}
    /\ Call(h, "unstage", Staging, "isMounted")
    /\ ledger' = [ledger EXCEPT ![Staging] = "unknown"]
    /\ UNCHANGED want

NodePublishVolume(h, t) ==
    /\ ledger[Staging] = "mounted"
    /\ Call(h, "publish", t, IF kind = "block" THEN "getDevice" ELSE "isMounted")
    /\ ledger' = [ledger EXCEPT ![t] = IF @ = "mounted" THEN @ ELSE "unknown"]
    /\ UNCHANGED want

NodeUnpublishVolume(h, t) ==
    /\ Call(h, "unpublish", t, "isMounted")
    /\ ledger' = [ledger EXCEPT ![t] = "unknown"]
    /\ UNCHANGED want

NodeExpandVolume(h, p) ==
    /\ ledger[p] = "mounted"
    /\ Call(h, "expand", p, IF kind = "nfs" THEN "reply" ELSE "getDevice")
    /\ want' = [want EXCEPT ![h] = IF kind = "mount" THEN size ELSE 0]
    /\ UNCHANGED ledger

\* Nothing to do for raw block (stage, expand) and NFS (expand) volumes.
Reply(h) ==
    /\ pc[h] = "reply"
    /\ ReturnOK(h)
    /\ UNCHANGED <<kind, disk, mounts, exists>>

-----------------------------------------------------------------------------
(***************************************************************************)
(* Format: each command only if the one before found nothing.              *)
(***************************************************************************)

GetDeviceByID(h) ==
    /\ pc[h] = "getDevice"
    /\ Goto(h, CASE op[h] = "stage"   -> "mountInfo"
                 [] op[h] = "publish" -> "isMounted"
                 [] op[h] = "expand"  -> "statPath")
    /\ UNCHANGED <<kind, disk, mounts, exists>>

\* NodeStageVolume: a staging path that is mounted with the same file system
\* is success.  findmnt that fails without a word counts as "not mounted".
GetMountInfo(h) ==
    /\ pc[h] = "mountInfo"
    /\ \/ /\ Live(h) /\ mounts[Staging] # <<>>
          /\ IF fs = FsType THEN ReturnOK(h) ELSE ReturnError(h)
       \/ /\ Live(h) /\ mounts[Staging] = <<>>
          /\ Goto(h, "probeTable")
       \/ GotoTroubled(h, "probeTable")
       \/ ReturnFault(h)
    /\ UNCHANGED <<kind, disk, mounts, exists>>

\* Fault: blkid's exit code is not looked at, any failure is "not found".
HasPartitionTableAnyError(h) ==
    /\ pc[h] = "probeTable"
    /\ Live(h)
    /\ \/ Goto(h, IF table THEN "listPartition" ELSE "mklabel")
       \/ GotoTroubled(h, "mklabel")
    /\ UNCHANGED <<kind, disk, mounts, exists>>

HasPartitionTable(h) ==
    /\ pc[h] = "probeTable"
    /\ Live(h)
    /\ Goto(h, IF table THEN "listPartition" ELSE "mklabel")
    /\ UNCHANGED <<kind, disk, mounts, exists>>

CreatePartitionTable(h) ==
    /\ pc[h] = "mklabel"
    /\ Live(h)
    /\ table' = TRUE /\ part' = 0 /\ fs' = NoFs /\ fsSize' = 0 /\ data' = FALSE
    /\ Then(h, "listPartition")
    /\ UNCHANGED <<kind, size, mounts, exists>>

\* Fault: a retry makes the partition again.
ListPartitionNever(h) ==
    /\ pc[h] = "listPartition"
    /\ Goto(h, "mkpart")
    /\ UNCHANGED <<kind, disk, mounts, exists>>

\* createPartitionIfNotExists takes any error of sfdisk for "no partition".
ListPartition(h) ==
    /\ pc[h] = "listPartition"
    /\ \/ Live(h) /\ Goto(h, IF part > 0 THEN "probeFs" ELSE "mkpart")
       \/ GotoTroubled(h, "mkpart")
    /\ UNCHANGED <<kind, disk, mounts, exists>>

\* Fault: the partition ends one unit past the device.
CreatePartitionPastEnd(h) ==
    /\ pc[h] = "mkpart"
    /\ Live(h)
    /\ part = 0 /\ part' = size + 1 /\ Then(h, "relist")
    /\ UNCHANGED <<kind, size, table, fs, fsSize, data, mounts, exists>>

\* parted (external) makes no partition that overlaps another.
CreatePartition(h) ==
    /\ pc[h] = "mkpart"
    /\ Live(h)
    /\ \/ part = 0 /\ part' = size /\ Then(h, "relist")
       \/ part > 0 /\ UNCHANGED part /\ ReturnError(h)
    /\ UNCHANGED <<kind, size, table, fs, fsSize, data, mounts, exists>>

\* GetDeviceLastPartition: after mkpart, before the mount, before growpart.
GetDeviceLastPartition(h) ==
    /\ pc[h] \in {"relist", "lastPartition"}
    /\ Live(h)
    /\ part > 0
    /\ Goto(h, IF pc[h] = "relist" THEN "probeFs"
               ELSE IF op[h] = "stage" THEN "mkdir" ELSE "growpart")
    /\ UNCHANGED <<kind, disk, mounts, exists>>

\* filesystemExists asks for the requested type only.
FilesystemExists(h) ==
    /\ pc[h] = "probeFs"
    /\ Live(h)
    /\ Goto(h, IF fs = FsType THEN "lastPartition" ELSE "mkfs")
    /\ UNCHANGED <<kind, disk, mounts, exists>>

VolumeMounted == \E p \in Paths : \E i \in DOMAIN mounts[p] : mounts[p][i] = "volume"

\* mkfs.ext4 (external) refuses a mounted device, asks no question without a
\* terminal, and writes the superblock last: killed, it leaves none.
CreateFilesystem(h) ==
    /\ pc[h] = "mkfs"
    /\ Live(h)
    /\ ~ VolumeMounted
    /\ data' = FALSE
    /\ \/ fs' = FsType /\ fsSize' = part /\ Then(h, "lastPartition")
       \/ fs' = NoFs /\ fsSize' = 0 /\ ReturnFault(h)
    /\ UNCHANGED <<kind, size, table, part, mounts, exists>>

-----------------------------------------------------------------------------
(***************************************************************************)
(* Mounting and unmounting.                                                *)
(***************************************************************************)

Mounting(h) == op[h] \in {"stage", "publish"}

IsMounted(h) ==
    /\ pc[h] = "isMounted"
    /\ \/ /\ Live(h) /\ mounts[path[h]] # <<>>
          /\ IF Mounting(h) THEN ReturnOK(h) ELSE Goto(h, "umount")
       \/ /\ Live(h) /\ mounts[path[h]] = <<>>
          /\ Goto(h, IF Mounting(h) THEN "mkdir" ELSE "remove")
       \/ GotoTroubled(h, IF Mounting(h) THEN "mkdir" ELSE "remove")
       \/ ReturnFault(h)
    /\ UNCHANGED <<kind, disk, mounts, exists>>

\* os.MkdirAll, or createBlockDevice for raw block: not under the context.
MakeTarget(h) ==
    /\ pc[h] = "mkdir"
    /\ exists' = exists \union {path[h]}
    /\ Goto(h, "mount")
    /\ UNCHANGED <<kind, disk, mounts>>

\* What a mount shows: the partition, device or share itself, or, for a bind
\* mount of the staging path, whatever is visible there.
Source(h) ==
    IF op[h] = "stage" \/ kind = "block" THEN "volume"
    ELSE IF mounts[Staging] = <<>> THEN "directory"
    ELSE mounts[Staging][Len(mounts[Staging])]

\* Fault: mount runs under exec.Command, the context is ignored.
MountIgnoresContext(h) ==
    /\ pc[h] = "mount"
    /\ Len(mounts[path[h]]) < MaxLayers
    /\ mounts' = [mounts EXCEPT ![path[h]] = Append(@, Source(h))]
    /\ ThenOK(h)
    /\ UNCHANGED <<kind, disk, exists>>

Mount(h) ==
    /\ pc[h] = "mount"
    /\ Live(h)
    /\ \/ /\ path[h] \in exists
          /\ Len(mounts[path[h]]) < MaxLayers
          /\ mounts' = [mounts EXCEPT ![path[h]] = Append(@, Source(h))]
          /\ ThenOK(h)
       \/ /\ path[h] \notin exists
          /\ UNCHANGED mounts
          /\ ReturnError(h)
    /\ UNCHANGED <<kind, disk, exists>>

Unmount(h) ==
    /\ pc[h] = "umount"
    /\ Live(h)
    /\ mounts[path[h]] # <<>>
    /\ mounts' = [mounts EXCEPT ![path[h]] = SubSeq(@, 1, Len(@) - 1)]
    /\ Then(h, "remove")
    /\ UNCHANGED <<kind, disk, exists>>

\* Fault: what os.Remove says is ignored.
RemoveTargetIgnoringError(h) ==
    /\ pc[h] = "remove"
    /\ \/ exists' = (IF mounts[path[h]] = <<>> THEN exists \ {path[h]} ELSE exists) /\ ReturnOK(h)
       \/ UNCHANGED exists /\ ReturnUnchecked(h)
    /\ UNCHANGED <<kind, disk, mounts>>

\* os.Stat and os.Remove: a path on which something is mounted is busy.  When
\* os.Stat fails, for whatever reason, nothing is removed and the RPC succeeds.
RemoveTarget(h) ==
    /\ pc[h] = "remove"
    /\ \/ path[h] \in exists /\ mounts[path[h]] # <<>> /\ UNCHANGED exists /\ ReturnError(h)
       \/ path[h] \in exists /\ mounts[path[h]] = <<>> /\ exists' = exists \ {path[h]} /\ ReturnOK(h)
       \/ path[h] \notin exists /\ UNCHANGED exists /\ ReturnOK(h)
       \/ UNCHANGED exists /\ ReturnUnchecked(h)
    /\ UNCHANGED <<kind, disk, mounts>>

-----------------------------------------------------------------------------
(***************************************************************************)
(* ResizeVolume: the partition first, then the file system in it.          *)
(***************************************************************************)

StatVolumePath(h) ==
    /\ pc[h] = "statPath"
    /\ \/ path[h] \in exists /\ Goto(h, IF kind = "block" THEN "reply" ELSE "lastPartition")
       \/ path[h] \notin exists /\ ReturnError(h)
    /\ UNCHANGED <<kind, disk, mounts, exists>>

\* Fault: growpart's NOCHANGE ends the call, with success.
ResizePartitionStops(h) ==
    /\ pc[h] = "growpart"
    /\ Live(h)
    /\ part' = size
    /\ IF part = size THEN ReturnOK(h) ELSE Then(h, "detectFs")
    /\ UNCHANGED <<kind, size, table, fs, fsSize, data, mounts, exists>>

\* growpart: NOCHANGE, when the partition fills the device already, is fine.
ResizePartition(h) ==
    /\ pc[h] = "growpart"
    /\ Live(h)
    /\ part' = size
    /\ Then(h, "detectFs")
    /\ UNCHANGED <<kind, size, table, fs, fsSize, data, mounts, exists>>

DetectFilesystemType(h) ==
    /\ pc[h] = "detectFs"
    /\ Live(h)
    /\ fs # NoFs
    /\ Goto(h, "resizeFs")
    /\ UNCHANGED <<kind, disk, mounts, exists>>

ResizeFilesystem(h) ==
    /\ pc[h] = "resizeFs"
    /\ Live(h)
    /\ fsSize' = part
    /\ ThenOK(h)
    /\ UNCHANGED <<kind, size, table, part, fs, data, mounts, exists>>

-----------------------------------------------------------------------------
(***************************************************************************)
(* Faults and the environment.                                             *)
(***************************************************************************)

\* A command or system call fails without effect, or a command is not started:
\* the context is done.
CommandFails(h) ==
    /\ pc[h] \in Command
    /\ ReturnFault(h)
    /\ UNCHANGED <<kind, disk, mounts, exists>>

\* The kubelet's timeout.
Cancel(h) ==
    /\ h \in awaited
    /\ awaited' = awaited \ {h}
    /\ UNCHANGED <<pc, op, path, kind, disk, mounts, exists, ledger, want,
                   promised, troubled>>

Restart ==
    /\ pc' = [h \in Handlers |-> "idle"]
    /\ op' = [h \in Handlers |-> "none"]
    /\ path' = [h \in Handlers |-> Staging]
    /\ want' = [h \in Handlers |-> 0]
    /\ awaited' = {}
    /\ troubled' = Handlers
    /\ UNCHANGED <<kind, disk, exists, promised>>

\* The plugin's container restarts; mounts belong to the host and stay.
PluginRestart ==
    /\ \E h \in Handlers : pc[h] # "idle"
    /\ Restart
    /\ UNCHANGED <<mounts, ledger>>

\* The node restarts: no mount is left, and the kubelet starts over.
NodeRestart ==
    /\ Restart
    /\ mounts' = [p \in Paths |-> <<>>]
    /\ ledger' = [p \in Paths |-> "unknown"]

\* A pod writes to a volume that was published to it.
WorkloadWrites ==
    /\ kind = "mount"
    /\ ~ data
    /\ \E t \in Targets : /\ ledger[t] = "mounted"
                          /\ mounts[t] # <<>>
                          /\ mounts[t][Len(mounts[t])] = "volume"
    /\ data' = TRUE
    /\ UNCHANGED <<pc, request, kind, size, table, part, fs, fsSize, mounts,
                   exists, ledger, promised, troubled>>

\* ControllerExpandVolume has grown the device.
DeviceGrows ==
    /\ size < MaxSize
    /\ size' = size + 1
    /\ UNCHANGED <<pc, request, kind, table, part, fs, fsSize, data, mounts,
                   exists, ledger, promised, troubled>>

-----------------------------------------------------------------------------

Calls(h) == \/ NodeStageVolume(h) \/ NodeUnstageVolume(h)
            \/ \E t \in Targets : NodePublishVolume(h, t) \/ NodeUnpublishVolume(h, t)
            \/ \E p \in Paths : NodeExpandVolume(h, p)

Format(h) == \/ HasPartitionTable(h) \/ CreatePartitionTable(h)
             \/ ListPartition(h) \/ CreatePartition(h)
             \/ FilesystemExists(h) \/ CreateFilesystem(h)

Mounts(h) == IsMounted(h) \/ MakeTarget(h) \/ Mount(h) \/ Unmount(h) \/ RemoveTarget(h)

ResizeVolume(h) == \/ StatVolumePath(h) \/ ResizePartition(h)
                   \/ DetectFilesystemType(h) \/ ResizeFilesystem(h)

Step(h) == \/ GetDeviceByID(h) \/ GetMountInfo(h) \/ GetDeviceLastPartition(h)
           \/ Format(h) \/ Mounts(h) \/ ResizeVolume(h) \/ Reply(h)
           \/ CommandFails(h) \/ Cancel(h)

Environment == PluginRestart \/ NodeRestart \/ WorkloadWrites \/ DeviceGrows

Next == (\E h \in Handlers : Calls(h) \/ Step(h)) \/ Environment

Spec == Init /\ [][Next]_vars

-----------------------------------------------------------------------------
(***************************************************************************)
(* Properties.                                                             *)
(***************************************************************************)

\* Format never destroys what a workload wrote, nor what a restored volume
\* came with: no order of failures, retries, timeouts and restarts gets a
\* NodeStageVolume past the probes to parted mklabel or mkfs.
DataKept == [][data => data']_vars

\* A path NodeStageVolume or NodePublishVolume reported as mounted shows the
\* volume, and a call the kubelet gave up on does not take it away; in
\* particular a pod never gets a bind mount of the bare staging directory.
MountedShowsVolume ==
    \A p \in Paths :
        ledger[p] = "mounted" /\ ~ (p = Staging /\ kind = "block")
        => /\ mounts[p] # <<>>
           /\ mounts[p][Len(mounts[p])] = "volume"

\* After NodeUnstageVolume or NodeUnpublishVolume reported success nothing is
\* mounted on the path, although a findmnt that failed silently may have made
\* an earlier call mount twice or this one skip the umount: os.Remove refuses
\* such a path.  That holds if os.Stat could look at the path; when it fails the
\* code skips os.Remove, reports success all the same and may leave a mount.
UnmountedIsBare == \A p \in Paths : ledger[p] = "unmounted" => mounts[p] = <<>>

\* NodeExpandVolume answers success only when the file system is as large as
\* the device was when it was asked, although earlier attempts may have
\* stopped after growpart.
ExpandedIsGrown == promised <= fsSize

\* Format "should eventually lead to success in case off temporary system
\* failure": whatever failures and restarts left behind, a NodeStageVolume
\* that itself meets no fault does not fail.
StageRecovers ==
    [][\A h \in Handlers :
          /\ h \in awaited /\ op[h] = "stage"
          /\ pc'[h] = "idle" /\ h \notin troubled'
          => ledger'[Staging] = "mounted"]_vars

=============================================================================
