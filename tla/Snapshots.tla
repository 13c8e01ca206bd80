------------------------------ MODULE Snapshots -----------------------------
(***************************************************************************)
(* Snapshots of block storage: CreateSnapshot and DeleteSnapshot           *)
(* (internal/controller) on top of the backup calls of internal/service.   *)
(* GetSnapshot and ListSnapshots are in Listing.                           *)
(*                                                                         *)
(* A snapshot is an UpCloud backup and is found again by its title.        *)
(* CreateSnapshot looks for the title, reads the state of the source and   *)
(* asks for the backup in three API requests, then waits until the backup  *)
(* is online.  The snapshotter (external) has one call per snapshot        *)
(* outstanding, gives up on it long before a large backup is done, and     *)
(* repeats it while the goroutine of the old call may still be there.      *)
(***************************************************************************)
EXTENDS Naturals, FiniteSets

CONSTANTS
    Handlers,       \* goroutines that serve RPCs
    Names,          \* names of snapshots
    Volumes,        \* storages that are no backups
    Backups,        \* UUIDs of backups, never used twice
    NoName, NoStorage

Ids == Volumes \union Backups

ASSUME SnapshotAssumption ==
    /\ NoName \notin Names
    /\ NoStorage \notin Ids
    /\ Volumes \intersect Backups = {}
    /\ IsFiniteSet(Backups)

VARIABLES
    \* the plugin process
    pc,         \* the next API request of each handler
    op,         \* the RPC it serves
    name,       \* the snapshot it is about
    src,        \* CreateSnapshot: the source volume
    uuid,       \* the storage it works on
    awaited,    \* handlers whose RPC context is live
    \* the UpCloud API
    volumes,    \* volumes that exist
    backups,    \* backups that exist
    used,       \* UUIDs of backups that were given out
    title, origin, state,
    wire,       \* abandoned CreateBackup requests: <<name, volume>>
    \* the snapshotter, and what is to be observed
    bound,      \* the snapshot it was last given for each name
    from,       \* the source it named then
    spared,     \* backups that existed when their deletion was answered with OK
                \* although every request of it had got an answer
    disturbed,  \* names for which a CreateBackup was abandoned
    troubled    \* handlers that met a fault or another goroutine

request == <<op, name, src, awaited>>
cloud   == <<volumes, backups, used, title, origin, state>>
side    == <<wire, disturbed>>
known   == <<bound, from, spared>>
vars    == <<pc, op, name, src, uuid, awaited, volumes, backups, used, title,
             origin, state, wire, bound, from, spared, disturbed, troubled>>

PCName == {"idle", "byName", "source", "backup", "wait", "type", "delete"}

TypeOK ==
    /\ pc \in [Handlers -> PCName]
    /\ op \in [Handlers -> {"none", "create", "delete"}]
    /\ name \in [Handlers -> Names \union {NoName}]
    /\ src \in [Handlers -> Volumes \union {NoStorage}]
    /\ uuid \in [Handlers -> Ids \union {NoStorage}]
    /\ awaited \subseteq Handlers
    /\ volumes \subseteq Volumes
    /\ backups \subseteq used /\ used \subseteq Backups
    /\ title \in [Backups -> Names \union {NoName}]
    /\ origin \in [Backups -> Volumes \union {NoStorage}]
    /\ state \in [Backups -> {"maintenance", "online"}]
    /\ wire \subseteq Names \X Volumes
    /\ bound \in [Names -> Backups \union {NoStorage}]
    /\ from \in [Names -> Volumes \union {NoStorage}]
    /\ spared \subseteq Backups
    /\ disturbed \subseteq Names
    /\ troubled \subseteq Handlers

Init ==
    /\ pc = [h \in Handlers |-> "idle"]
    /\ op = [h \in Handlers |-> "none"]
    /\ name = [h \in Handlers |-> NoName]
    /\ src = [h \in Handlers |-> NoStorage]
    /\ uuid = [h \in Handlers |-> NoStorage]
    /\ awaited = {}
    /\ volumes = Volumes
    /\ backups = {} /\ used = {}
    /\ title = [b \in Backups |-> NoName]
    /\ origin = [b \in Backups |-> NoStorage]
    /\ state = [b \in Backups |-> "maintenance"]
    /\ wire = {}
    /\ bound = [n \in Names |-> NoStorage]
    /\ from = [n \in Names |-> NoStorage]
    /\ spared = {} /\ disturbed = {} /\ troubled = {}

-----------------------------------------------------------------------------
(***************************************************************************)
(* How a call begins, goes on and ends.                                    *)
(***************************************************************************)

\* An API request is sent only while the context is live.
Live(h) == h \in awaited

\* The snapshotter has no other call for the snapshot outstanding.
Call(h, o, n, v, u, first) ==
    /\ pc[h] = "idle"
    /\ \A g \in awaited : name[g] # n
    /\ pc' = [pc EXCEPT ![h] = first]
    /\ op' = [op EXCEPT ![h] = o]
    /\ name' = [name EXCEPT ![h] = n]
    /\ src' = [src EXCEPT ![h] = v]
    /\ uuid' = [uuid EXCEPT ![h] = u]
    /\ awaited' = awaited \union {h}
    /\ troubled' = IF \E g \in Handlers : name[g] = n
                   THEN troubled \union {h} ELSE troubled \ {h}
    /\ UNCHANGED <<cloud, side, known>>

Return(h) ==
    /\ pc' = [pc EXCEPT ![h] = "idle"]
    /\ op' = [op EXCEPT ![h] = "none"]
    /\ name' = [name EXCEPT ![h] = NoName]
    /\ src' = [src EXCEPT ![h] = NoStorage]
    /\ uuid' = [uuid EXCEPT ![h] = NoStorage]
    /\ awaited' = awaited \ {h}

ReturnError(h) == Return(h) /\ UNCHANGED <<known, troubled>>

ReturnFault(h) == Return(h) /\ troubled' = troubled \union {h} /\ UNCHANGED known

\* CreateSnapshotResponse for backup b, read by the snapshotter if it still
\* waits for it.
ReturnSnapshot(h, b) ==
    /\ Return(h)
    /\ bound' = IF Live(h) THEN [bound EXCEPT ![name[h]] = b] ELSE bound
    /\ from' = IF Live(h) THEN [from EXCEPT ![name[h]] = src[h]] ELSE from
    /\ UNCHANGED <<spared, troubled>>

\* DeleteSnapshotResponse; lost says that a request of it got no answer.
ReturnDeleted(h, lost) ==
    LET released == Live(h) /\ bound[name[h]] = uuid[h] IN
    /\ Return(h)
    /\ bound' = IF released THEN [bound EXCEPT ![name[h]] = NoStorage] ELSE bound
    /\ from' = IF released THEN [from EXCEPT ![name[h]] = NoStorage] ELSE from
    /\ spared' = IF lost THEN spared ELSE spared \union ({uuid[h]} \intersect backups')
    /\ troubled' = IF lost THEN troubled \union {h} ELSE troubled

Goto(h, next) ==
    /\ pc' = [pc EXCEPT ![h] = next]
    /\ UNCHANGED <<request, uuid, known, troubled>>

-----------------------------------------------------------------------------
(***************************************************************************)
(* CreateSnapshot.                                                         *)
(***************************************************************************)

CreateSnapshot(h, n, v) == Call(h, "create", n, v, NoStorage, "byName")

Titled(n) == {b \in backups : title[b] = n}

\* The volume is in state backuping.
Backuping(v) == \E b \in backups : origin[b] = v /\ state[b] = "maintenance"

\* Fault: backups that are not online yet are skipped.
GetBlockStorageBackupByNameOnline(h) ==
    /\ pc[h] = "byName"
    /\ Live(h)
    /\ \/ /\ \A b \in Titled(name[h]) : state[b] # "online"
          /\ Goto(h, "source")
       \/ \E b \in Titled(name[h]) :
             /\ state[b] = "online"
             /\ IF origin[b] = src[h] THEN ReturnSnapshot(h, b) ELSE ReturnError(h)
    /\ UNCHANGED <<cloud, side>>

\* Fault: the source of the backup that was found is not compared.
GetBlockStorageBackupByNameAnySource(h) ==
    /\ pc[h] = "byName"
    /\ Live(h)
    /\ \/ Titled(name[h]) = {} /\ Goto(h, "source")
       \/ \E b \in Titled(name[h]) : ReturnSnapshot(h, b)
    /\ UNCHANGED <<cloud, side>>

\* GetBlockStorageBackupByName: the first backup with the title that the API
\* happens to list, whatever its state; then the comparison of its source.
GetBlockStorageBackupByName(h) ==
    /\ pc[h] = "byName"
    /\ Live(h)
    /\ \/ Titled(name[h]) = {} /\ Goto(h, "source")
       \/ \E b \in Titled(name[h]) :
             IF origin[b] = src[h] THEN ReturnSnapshot(h, b) ELSE ReturnError(h)
    /\ UNCHANGED <<cloud, side>>

\* CreateBlockStorageBackup: GetBlockStorageByUUID, and ErrBackupInProgress.
CheckBackupInProgress(h) ==
    /\ pc[h] = "source"
    /\ Live(h)
    /\ IF src[h] \in volumes /\ ~ Backuping(src[h])
       THEN Goto(h, "backup") ELSE ReturnError(h)
    /\ UNCHANGED <<cloud, side>>

\* CreateBackup at the API (external): it refuses a volume that is not online,
\* and answers before the backup is done.
NewBackup(b, n, v) ==
    /\ v \in volumes
    /\ ~ Backuping(v)
    /\ b \in Backups \ used
    /\ used' = used \union {b}
    /\ backups' = backups \union {b}
    /\ title' = [title EXCEPT ![b] = n]
    /\ origin' = [origin EXCEPT ![b] = v]
    /\ state' = [state EXCEPT ![b] = "maintenance"]
    /\ UNCHANGED volumes

\* Fault: the request is made with context.Background().
CreateBackupBackground(h) ==
    /\ pc[h] = "backup"
    /\ \E b \in Backups :
          /\ NewBackup(b, name[h], src[h])
          /\ pc' = [pc EXCEPT ![h] = "wait"]
          /\ uuid' = [uuid EXCEPT ![h] = b]
          /\ UNCHANGED <<request, known, troubled>>
    /\ UNCHANGED side

\* CreateBlockStorageBackup: CreateBackup, whose answer may be lost.
CreateBackup(h) ==
    /\ pc[h] = "backup"
    /\ Live(h)
    /\ \E b \in Backups :
          /\ NewBackup(b, name[h], src[h])
          /\ \/ /\ pc' = [pc EXCEPT ![h] = "wait"]
                /\ uuid' = [uuid EXCEPT ![h] = b]
                /\ UNCHANGED <<request, known, troubled>>
             \/ ReturnFault(h)
    /\ UNCHANGED side

WaitForStorageOnline(h) ==
    /\ pc[h] = "wait"
    /\ Live(h)
    /\ uuid[h] \in backups
    /\ state[uuid[h]] = "online"
    /\ ReturnSnapshot(h, uuid[h])
    /\ UNCHANGED <<cloud, side>>

-----------------------------------------------------------------------------
(***************************************************************************)
(* DeleteSnapshot, for the snapshot the name is bound to or for whatever   *)
(* ID an administrator gave it.  With an ID that is no block storage UUID  *)
(* it answers OK without a request, which changes nothing.                 *)
(***************************************************************************)

DeleteSnapshot(h, n, u) ==
    /\ u = bound[n] \/ u \in Volumes
    /\ u # NoStorage
    /\ Call(h, "delete", n, NoStorage, u, "type")

\* Fault: the type of the storage is not looked at.
CheckBackupTypeAny(h) ==
    /\ pc[h] = "type"
    /\ Live(h)
    /\ Goto(h, "delete")
    /\ UNCHANGED <<cloud, side>>

\* DeleteBlockStorageBackup: GetStorageDetails.  Not found is success, and so
\* is, after the error for the wrong type went through DeleteSnapshot, a
\* storage that is no backup.
CheckBackupType(h) ==
    /\ pc[h] = "type"
    /\ Live(h)
    /\ UNCHANGED <<cloud, side>>
    /\ IF uuid[h] \in backups THEN Goto(h, "delete") ELSE ReturnDeleted(h, FALSE)

\* DeleteStorage at the API (external).
RemoveStorage(u) ==
    /\ volumes' = volumes \ {u}
    /\ backups' = backups \ {u}
    /\ title' = [b \in Backups |-> IF b = u THEN NoName ELSE title[b]]
    /\ origin' = [b \in Backups |-> IF b = u THEN NoStorage ELSE origin[b]]
    /\ state' = [b \in Backups |-> IF b = u THEN "maintenance" ELSE state[b]]
    /\ UNCHANGED used

\* Fault: every error of the API counts as "not found".
DeleteBackupAnyError(h) ==
    /\ pc[h] = "delete"
    /\ Live(h)
    /\ IF uuid[h] \in backups /\ state[uuid[h]] = "online"
       THEN RemoveStorage(uuid[h]) ELSE UNCHANGED cloud
    /\ ReturnDeleted(h, FALSE)
    /\ UNCHANGED side

\* DeleteBlockStorageBackup: DeleteStorage, whose answer may be lost.  The API
\* (external) refuses a storage that is not online; that is a Problem and fails
\* the RPC.
DeleteBackup(h) ==
    /\ pc[h] = "delete"
    /\ Live(h)
    /\ \/ /\ uuid[h] \in volumes \union {b \in backups : state[b] = "online"}
          /\ RemoveStorage(uuid[h])
          /\ ReturnDeleted(h, FALSE) \/ ReturnDeleted(h, TRUE)
       \/ /\ uuid[h] \in backups /\ state[uuid[h]] = "maintenance"
          /\ UNCHANGED cloud
          /\ ReturnError(h)
       \/ /\ uuid[h] \notin volumes \union backups
          /\ UNCHANGED cloud
          /\ ReturnDeleted(h, FALSE)
    /\ UNCHANGED side

\* A request of DeleteSnapshot gets no answer (timeout, broken connection,
\* cancelled context).  The error is no upcloud.Problem, so the RPC succeeds.
DeleteUnanswered(h) ==
    /\ pc[h] \in {"type", "delete"}
    /\ ReturnDeleted(h, TRUE)
    /\ UNCHANGED <<cloud, side>>

-----------------------------------------------------------------------------
(***************************************************************************)
(* Faults and the environment.                                             *)
(***************************************************************************)

\* A request fails, or the wait for the backup times out.  DeleteSnapshot
\* fails only when the API answered with an error other than 404.
ApiError(h) ==
    /\ pc[h] # "idle"
    /\ op[h] = "delete" => Live(h)
    /\ ReturnFault(h)
    /\ UNCHANGED <<cloud, side>>

\* The context ends while CreateBackup is on its way.
Abandon(h) ==
    /\ pc[h] = "backup"
    /\ Live(h)
    /\ wire' = wire \union {<<name[h], src[h]>>}
    /\ disturbed' = disturbed \union {name[h]}
    /\ ReturnFault(h)
    /\ UNCHANGED cloud

Cancel(h) ==
    /\ Live(h)
    /\ awaited' = awaited \ {h}
    /\ UNCHANGED <<pc, op, name, src, uuid, cloud, side, known, troubled>>

Crash ==
    /\ \E h \in Handlers : pc[h] # "idle"
    /\ pc' = [h \in Handlers |-> "idle"]
    /\ op' = [h \in Handlers |-> "none"]
    /\ name' = [h \in Handlers |-> NoName]
    /\ src' = [h \in Handlers |-> NoStorage]
    /\ uuid' = [h \in Handlers |-> NoStorage]
    /\ awaited' = {}
    /\ troubled' = Handlers
    /\ UNCHANGED <<cloud, side, known>>

\* An abandoned CreateBackup reaches the API, or is lost or refused.
Lands(n, v) ==
    /\ <<n, v>> \in wire
    /\ wire' = wire \ {<<n, v>>}
    /\ (\E b \in Backups : NewBackup(b, n, v)) \/ UNCHANGED cloud
    /\ UNCHANGED <<pc, request, uuid, disturbed, known, troubled>>

BackupDone(b) ==
    /\ b \in backups
    /\ state[b] = "maintenance"
    /\ state' = [state EXCEPT ![b] = "online"]
    /\ UNCHANGED <<pc, request, uuid, volumes, backups, used, title, origin, side,
                   known, troubled>>

\* DeleteVolume of the source, or somebody at the control panel.
StorageDeleted(u) ==
    /\ \/ u \in volumes /\ ~ Backuping(u)
       \/ u \in backups /\ state[u] = "online"
    /\ RemoveStorage(u)
    /\ UNCHANGED <<pc, request, uuid, side, known, troubled>>

-----------------------------------------------------------------------------

Calls(h) == \E n \in Names : \/ \E v \in Volumes : CreateSnapshot(h, n, v)
                             \/ \E u \in Ids : DeleteSnapshot(h, n, u)

Step(h) == \/ GetBlockStorageBackupByName(h) \/ CheckBackupInProgress(h)
           \/ CreateBackup(h) \/ WaitForStorageOnline(h)
           \/ CheckBackupType(h) \/ DeleteBackup(h) \/ DeleteUnanswered(h)
           \/ ApiError(h) \/ Abandon(h) \/ Cancel(h)

Environment == \/ \E n \in Names, v \in Volumes : Lands(n, v)
               \/ \E b \in Backups : BackupDone(b)
               \/ \E u \in Volumes \union Backups : StorageDeleted(u)
               \/ Crash

Next == (\E h \in Handlers : Calls(h) \/ Step(h)) \/ Environment

Spec == Init /\ [][Next]_vars

-----------------------------------------------------------------------------
(***************************************************************************)
(* Properties.                                                             *)
(***************************************************************************)

\* CreateSnapshot looks for the title and creates in separate requests with no
\* lock, and its answer may be lost: still a name has one backup, through
\* retries that overlap the calls they replace, and restarts, unless a
\* CreateBackup was abandoned on the wire.
OneBackupPerName ==
    \A n \in Names \ disturbed : Cardinality(Titled(n)) <= 1

\* A snapshot that CreateSnapshot answered with is a backup of the volume that
\* was asked for, although only the title is looked up.
SnapshotOfItsSource ==
    \A n \in Names : bound[n] \in backups => origin[bound[n]] = from[n]

\* While the snapshot that was answered for a name exists, CreateSnapshot
\* answers with no other one (unless a CreateBackup for it was abandoned).
SnapshotIsStable ==
    [][\A n \in Names \ disturbed :
          bound[n] \in backups /\ bound'[n] # bound[n] => bound'[n] = NoStorage]_vars

\* DeleteSnapshot answers OK for every error that is no Problem of the API: as
\* long as its requests are answered, the backup does not exist any more when
\* it says so, also when the deletion is asked for while the backup is made.
DeletedIsGone == spared = {}

\* DeleteSnapshot deletes no volume, although IDs of volumes and of backups look
\* the same and the type is read in another request than the deletion.
OnlyBackupsDeleted ==
    [][\A h \in Handlers : op[h] = "delete" /\ pc'[h] = "idle" => volumes' = volumes]_vars

\* A CreateSnapshot that itself meets no fault succeeds whatever earlier
\* attempts left behind, their half-made backup included, unless its source is
\* gone or busy with another backup, or the name is taken.
CreateSnapshotRecovers ==
    [][\A h \in awaited :
          /\ op[h] = "create" /\ pc'[h] = "idle"
          /\ h \notin troubled' /\ name[h] \notin disturbed'
          => \/ bound'[name[h]] # NoStorage
             \/ src[h] \notin volumes
             \/ \E b \in backups :
                   \/ origin[b] = src[h] /\ title[b] # name[h] /\ state[b] = "maintenance"
                   \/ origin[b] # src[h] /\ title[b] = name[h]]_vars

=============================================================================
