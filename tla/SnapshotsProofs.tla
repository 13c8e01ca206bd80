--------------------------- MODULE SnapshotsProofs --------------------------
(***************************************************************************)
(* The properties of Snapshots, for any number of goroutines, names,       *)
(* volumes and backups.                                                    *)
(*                                                                         *)
(* The argument is that of every look-up-then-create in this driver: the   *)
(* snapshotter waits for one call per name, a request is sent only while   *)
(* the RPC is waited for, so at most one goroutine can still create under  *)
(* the name, and what it found missing stays missing until it does.        *)
(***************************************************************************)
EXTENDS Snapshots, FiniteSetTheorems, TLAPS

\* What a goroutine knows at each point of its RPC.
HandlerKnows ==
    \A h \in Handlers :
        /\ pc[h] = "idle" => name[h] = NoName /\ op[h] = "none" /\ h \notin awaited
        /\ pc[h] # "idle" => name[h] \in Names
        /\ pc[h] \in {"byName", "source", "backup", "wait"}
           => op[h] = "create" /\ src[h] \in Volumes
        /\ pc[h] \in {"type", "delete"} => op[h] = "delete" /\ uuid[h] \in Ids
        /\ pc[h] = "delete" => uuid[h] \in Backups

\* The snapshotter waits for one call per name.
OneCallPerName ==
    \A g, h \in awaited : name[g] = name[h] => g = h

\* Requests on the wire are the abandoned ones.
WireIsDisturbed ==
    \A n \in Names, v \in Volumes : <<n, v>> \in wire => n \in disturbed

\* Between the lookup and the create nobody else creates under the name.
StillMissing ==
    \A h \in awaited : pc[h] \in {"source", "backup"} /\ name[h] \notin disturbed
                       => \A b \in backups : title[b] # name[h]

TitledOnce ==
    \A b, c \in backups : title[b] = title[c] /\ title[b] \in Names \ disturbed => b = c

\* CreateSnapshot waits for the backup it made.
WaitsForItsOwn ==
    \A h \in Handlers : pc[h] = "wait" =>
        /\ uuid[h] \in used
        /\ uuid[h] \in backups => title[uuid[h]] = name[h] /\ origin[uuid[h]] = src[h]

\* UUIDs are not reused: what a name is bound to was made for it, or is gone.
BoundIsItsOwn ==
    \A n \in Names :
        /\ bound[n] # NoStorage => bound[n] \in used
        /\ bound[n] \in backups => title[bound[n]] = n /\ origin[bound[n]] = from[n]

IInv == /\ TypeOK
        /\ HandlerKnows
        /\ OneCallPerName
        /\ WireIsDisturbed
        /\ StillMissing
        /\ TitledOnce
        /\ WaitsForItsOwn
        /\ BoundIsItsOwn
        /\ DeletedIsGone

-----------------------------------------------------------------------------

\* The state before the first RPC satisfies the invariant.
LEMMA InitIInv == Init => IInv
  BY SnapshotAssumption
  DEF Init, IInv, TypeOK, HandlerKnows, OneCallPerName, WireIsDisturbed, StillMissing,
      TitledOnce, WaitsForItsOwn, BoundIsItsOwn, DeletedIsGone, PCName, Ids

\* Every step leaves the state well typed.
LEMMA TypeStep == TypeOK /\ HandlerKnows /\ [Next]_vars => TypeOK'
<1> SUFFICES ASSUME TypeOK, HandlerKnows, [Next]_vars PROVE TypeOK'
  OBVIOUS
<1> USE SnapshotAssumption DEF TypeOK, PCName, Ids
<1> USE DEF request, cloud, side, known
<1>1. ASSUME NEW h \in Handlers, Calls(h) PROVE TypeOK'
  BY <1>1 DEF Calls, CreateSnapshot, DeleteSnapshot, Call
<1>2. ASSUME NEW h \in Handlers, GetBlockStorageBackupByName(h) PROVE TypeOK'
  BY <1>2 DEF GetBlockStorageBackupByName, Goto, ReturnSnapshot, ReturnError, Return,
              Titled, HandlerKnows
<1>3. ASSUME NEW h \in Handlers, CheckBackupInProgress(h) PROVE TypeOK'
  BY <1>3 DEF CheckBackupInProgress, Goto, ReturnError, Return
<1>4. ASSUME NEW h \in Handlers, CreateBackup(h) PROVE TypeOK'
  BY <1>4 DEF CreateBackup, NewBackup, ReturnFault, Return, HandlerKnows
<1>5. ASSUME NEW h \in Handlers, WaitForStorageOnline(h) PROVE TypeOK'
  BY <1>5 DEF WaitForStorageOnline, ReturnSnapshot, Return
<1>6. ASSUME NEW h \in Handlers, CheckBackupType(h) PROVE TypeOK'
  BY <1>6 DEF CheckBackupType, Goto, ReturnDeleted, Return
<1>7. ASSUME NEW h \in Handlers, DeleteBackup(h) PROVE TypeOK'
  BY <1>7 DEF DeleteBackup, RemoveStorage, ReturnDeleted, ReturnError, Return
<1>8. ASSUME NEW h \in Handlers, DeleteUnanswered(h) PROVE TypeOK'
  BY <1>8 DEF DeleteUnanswered, ReturnDeleted, Return
<1>9. ASSUME NEW h \in Handlers, ApiError(h) \/ Abandon(h) \/ Cancel(h) PROVE TypeOK'
  BY <1>9 DEF ApiError, Abandon, Cancel, ReturnFault, Return, HandlerKnows
<1>10. ASSUME NEW n \in Names, NEW v \in Volumes, Lands(n, v) PROVE TypeOK'
  BY <1>10 DEF Lands, NewBackup
<1>11. ASSUME NEW b \in Backups, BackupDone(b) PROVE TypeOK'
  BY <1>11 DEF BackupDone
<1>12. ASSUME NEW u \in Volumes \union Backups, StorageDeleted(u) PROVE TypeOK'
  BY <1>12 DEF StorageDeleted, RemoveStorage
<1>13. CASE Crash \/ UNCHANGED vars
  BY <1>13 DEF Crash, vars
<1> QED
  BY <1>1, <1>2, <1>3, <1>4, <1>5, <1>6, <1>7, <1>8, <1>9, <1>10, <1>11, <1>12, <1>13
  DEF Next, Step, Environment

\* Every step preserves the invariant.
LEMMA NextIInv == IInv /\ [Next]_vars => IInv'
<1> SUFFICES ASSUME IInv, [Next]_vars PROVE IInv'
  OBVIOUS
<1> TypeOK'
  BY TypeStep DEF IInv
<1> USE SnapshotAssumption DEF TypeOK, IInv, Ids, PCName, Live
<1> USE DEF request, cloud, side, known
<1>1. ASSUME NEW h \in Handlers, Calls(h) PROVE IInv'
  <2> USE <1>1 DEF Calls, CreateSnapshot, DeleteSnapshot, Call
  <2>1. HandlerKnows'
    BY DEF HandlerKnows
  <2>2. OneCallPerName' /\ WireIsDisturbed' /\ StillMissing'
    BY DEF OneCallPerName, WireIsDisturbed, StillMissing
  <2>3. TitledOnce' /\ WaitsForItsOwn' /\ BoundIsItsOwn' /\ DeletedIsGone'
    BY DEF TitledOnce, WaitsForItsOwn, BoundIsItsOwn, DeletedIsGone
  <2> QED BY <2>1, <2>2, <2>3
<1>2. ASSUME NEW h \in Handlers, GetBlockStorageBackupByName(h) PROVE IInv'
  <2> USE <1>2 DEF GetBlockStorageBackupByName, Goto, ReturnSnapshot, ReturnError, Return,
                   Titled
  <2>1. HandlerKnows'
    BY DEF HandlerKnows
  <2>2. OneCallPerName' /\ WireIsDisturbed'
    BY DEF OneCallPerName, WireIsDisturbed
  <2>3. StillMissing'
    BY DEF StillMissing
  <2>4. TitledOnce' /\ WaitsForItsOwn' /\ DeletedIsGone'
    BY DEF TitledOnce, WaitsForItsOwn, DeletedIsGone
  <2>5. BoundIsItsOwn'
    BY DEF BoundIsItsOwn, HandlerKnows
  <2> QED BY <2>1, <2>2, <2>3, <2>4, <2>5
<1>3. ASSUME NEW h \in Handlers, CheckBackupInProgress(h) PROVE IInv'
  <2> USE <1>3 DEF CheckBackupInProgress, Goto, ReturnError, Return
  <2>1. HandlerKnows'
    BY DEF HandlerKnows
  <2>2. OneCallPerName' /\ WireIsDisturbed'
    BY DEF OneCallPerName, WireIsDisturbed
  <2>3. StillMissing'
    BY DEF StillMissing
  <2>4. TitledOnce' /\ WaitsForItsOwn' /\ DeletedIsGone' /\ BoundIsItsOwn'
    BY DEF TitledOnce, WaitsForItsOwn, DeletedIsGone, BoundIsItsOwn
  <2> QED BY <2>1, <2>2, <2>3, <2>4
\* The backup is the first under the name, and nobody else is about to make one.
<1>4. ASSUME NEW h \in Handlers, CreateBackup(h) PROVE IInv'
  <2> USE <1>4 DEF CreateBackup, NewBackup, ReturnFault, Return
  <2>1. HandlerKnows'
    BY DEF HandlerKnows
  <2>2. OneCallPerName' /\ WireIsDisturbed'
    BY DEF OneCallPerName, WireIsDisturbed
  <2>3. StillMissing'
    BY DEF StillMissing, OneCallPerName
  <2>4. TitledOnce'
    BY DEF TitledOnce, StillMissing
  <2>5. WaitsForItsOwn' /\ DeletedIsGone'
    BY DEF WaitsForItsOwn, DeletedIsGone
  <2>6. BoundIsItsOwn'
    BY DEF BoundIsItsOwn
  <2> QED BY <2>1, <2>2, <2>3, <2>4, <2>5, <2>6
<1>5. ASSUME NEW h \in Handlers, WaitForStorageOnline(h) PROVE IInv'
  <2> USE <1>5 DEF WaitForStorageOnline, ReturnSnapshot, Return
  <2>1. HandlerKnows'
    BY DEF HandlerKnows
  <2>2. OneCallPerName' /\ WireIsDisturbed' /\ StillMissing'
    BY DEF OneCallPerName, WireIsDisturbed, StillMissing
  <2>3. TitledOnce' /\ WaitsForItsOwn' /\ DeletedIsGone'
    BY DEF TitledOnce, WaitsForItsOwn, DeletedIsGone
  <2>4. BoundIsItsOwn'
    BY DEF BoundIsItsOwn, WaitsForItsOwn, HandlerKnows
  <2> QED BY <2>1, <2>2, <2>3, <2>4
<1>6. ASSUME NEW h \in Handlers, CheckBackupType(h) PROVE IInv'
  <2> USE <1>6 DEF CheckBackupType, Goto, ReturnDeleted, Return
  <2>1. HandlerKnows'
    BY DEF HandlerKnows
  <2>2. OneCallPerName' /\ WireIsDisturbed' /\ StillMissing'
    BY DEF OneCallPerName, WireIsDisturbed, StillMissing
  <2>3. TitledOnce' /\ WaitsForItsOwn' /\ DeletedIsGone'
    BY DEF TitledOnce, WaitsForItsOwn, DeletedIsGone
  <2>4. BoundIsItsOwn'
    BY DEF BoundIsItsOwn
  <2> QED BY <2>1, <2>2, <2>3, <2>4
<1>7. ASSUME NEW h \in Handlers, DeleteBackup(h) PROVE IInv'
  <2> USE <1>7 DEF DeleteBackup, RemoveStorage, ReturnDeleted, ReturnError, Return
  <2>1. HandlerKnows'
    BY DEF HandlerKnows
  <2>2. OneCallPerName' /\ WireIsDisturbed'
    BY DEF OneCallPerName, WireIsDisturbed
  <2>3. StillMissing'
    BY DEF StillMissing
  <2>4. TitledOnce' /\ WaitsForItsOwn'
    BY DEF TitledOnce, WaitsForItsOwn
  <2>5. DeletedIsGone'
    BY DEF DeletedIsGone
  <2>6. BoundIsItsOwn'
    BY DEF BoundIsItsOwn
  <2> QED BY <2>1, <2>2, <2>3, <2>4, <2>5, <2>6
<1>8. ASSUME NEW h \in Handlers, DeleteUnanswered(h) PROVE IInv'
  <2> USE <1>8 DEF DeleteUnanswered, ReturnDeleted, Return
  <2>1. HandlerKnows' /\ OneCallPerName' /\ WireIsDisturbed' /\ StillMissing'
    BY DEF HandlerKnows, OneCallPerName, WireIsDisturbed, StillMissing
  <2>2. TitledOnce' /\ WaitsForItsOwn' /\ BoundIsItsOwn' /\ DeletedIsGone'
    BY DEF TitledOnce, WaitsForItsOwn, BoundIsItsOwn, DeletedIsGone
  <2> QED BY <2>1, <2>2
<1>9. ASSUME NEW h \in Handlers, ApiError(h) \/ Abandon(h) \/ Cancel(h) PROVE IInv'
  <2> USE <1>9 DEF ApiError, Abandon, Cancel, ReturnFault, Return
  <2>1. HandlerKnows'
    BY DEF HandlerKnows
  <2>2. OneCallPerName' /\ WireIsDisturbed' /\ StillMissing'
    BY DEF OneCallPerName, WireIsDisturbed, StillMissing
  <2>3. TitledOnce' /\ WaitsForItsOwn' /\ BoundIsItsOwn' /\ DeletedIsGone'
    BY DEF TitledOnce, WaitsForItsOwn, BoundIsItsOwn, DeletedIsGone
  <2> QED BY <2>1, <2>2, <2>3
<1>10. ASSUME NEW n \in Names, NEW v \in Volumes, Lands(n, v) PROVE IInv'
  <2> USE <1>10 DEF Lands, NewBackup
  <2>1. HandlerKnows' /\ OneCallPerName' /\ WireIsDisturbed' /\ DeletedIsGone'
    BY DEF HandlerKnows, OneCallPerName, WireIsDisturbed, DeletedIsGone
  <2>2. StillMissing'
    BY DEF StillMissing, WireIsDisturbed
  <2>3. TitledOnce'
    BY DEF TitledOnce, WireIsDisturbed
  <2>4. WaitsForItsOwn' /\ BoundIsItsOwn'
    BY DEF WaitsForItsOwn, BoundIsItsOwn
  <2> QED BY <2>1, <2>2, <2>3, <2>4
<1>11. ASSUME NEW b \in Backups, BackupDone(b) PROVE IInv'
  <2> USE <1>11 DEF BackupDone
  <2>1. HandlerKnows' /\ OneCallPerName' /\ WireIsDisturbed' /\ StillMissing'
    BY DEF HandlerKnows, OneCallPerName, WireIsDisturbed, StillMissing
  <2>2. TitledOnce' /\ WaitsForItsOwn' /\ BoundIsItsOwn' /\ DeletedIsGone'
    BY DEF TitledOnce, WaitsForItsOwn, BoundIsItsOwn, DeletedIsGone
  <2> QED BY <2>1, <2>2
<1>12. ASSUME NEW u \in Volumes \union Backups, StorageDeleted(u) PROVE IInv'
  <2> USE <1>12 DEF StorageDeleted, RemoveStorage
  <2>1. HandlerKnows' /\ OneCallPerName' /\ WireIsDisturbed' /\ StillMissing'
    BY DEF HandlerKnows, OneCallPerName, WireIsDisturbed, StillMissing
  <2>2. TitledOnce' /\ WaitsForItsOwn' /\ BoundIsItsOwn' /\ DeletedIsGone'
    BY DEF TitledOnce, WaitsForItsOwn, BoundIsItsOwn, DeletedIsGone
  <2> QED BY <2>1, <2>2
<1>13. CASE Crash \/ UNCHANGED vars
  <2> USE <1>13 DEF Crash, vars
  <2>1. HandlerKnows' /\ OneCallPerName' /\ WireIsDisturbed' /\ StillMissing'
    BY DEF HandlerKnows, OneCallPerName, WireIsDisturbed, StillMissing
  <2>2. TitledOnce' /\ WaitsForItsOwn' /\ BoundIsItsOwn' /\ DeletedIsGone'
    BY DEF TitledOnce, WaitsForItsOwn, BoundIsItsOwn, DeletedIsGone
  <2> QED BY <2>1, <2>2
<1> QED
  BY <1>1, <1>2, <1>3, <1>4, <1>5, <1>6, <1>7, <1>8, <1>9, <1>10, <1>11, <1>12, <1>13
  DEF Next, Step, Environment

-----------------------------------------------------------------------------

\* The invariant holds in every reachable state.
LEMMA Invariance == Spec => []IInv
  BY InitIInv, NextIInv, PTL DEF Spec

\* A set in which no two elements differ has at most one.
LEMMA AtMostOne ==
  ASSUME NEW S, IsFiniteSet(S), \A x, y \in S : x = y
  PROVE  Cardinality(S) <= 1
<1>1. CASE S = {}
  BY <1>1, FS_EmptySet
<1>2. CASE S # {}
  <2>1. PICK x \in S : TRUE
    BY <1>2
  <2>2. S = {x}
    BY <2>1
  <2> QED BY <2>2, FS_Singleton
<1> QED BY <1>1, <1>2

\* Every reachable state is well typed: what a snapshot was answered with is a
\* backup, and every backup's UUID was given out by the API.
THEOREM TypeCorrect == Spec => []TypeOK
<1>1. IInv => TypeOK
  BY DEF IInv
<1> QED BY Invariance, <1>1, PTL

\* A name has one backup although CreateSnapshot's lookup and CreateBackup are
\* separate requests, whatever retries, cancellations, crashes and lost answers
\* come between them, unless a CreateBackup was abandoned on the wire.
THEOREM CreatesOneBackup == Spec => []OneBackupPerName
<1>1. IInv => OneBackupPerName
  <2> SUFFICES ASSUME IInv, NEW n \in Names \ disturbed PROVE Cardinality(Titled(n)) <= 1
    BY DEF OneBackupPerName
  <2>1. IsFiniteSet(Titled(n))
    <3>1. Titled(n) \in SUBSET Backups
      BY DEF IInv, TypeOK, Titled
    <3> QED BY <3>1, SnapshotAssumption, FS_Subset
  <2>2. \A b, c \in Titled(n) : b = c
    BY DEF IInv, TitledOnce, Titled
  <2> QED BY <2>1, <2>2, AtMostOne
<1> QED BY Invariance, <1>1, PTL

\* The snapshot that was answered for a name is a backup of the source that was
\* asked for (the comparison in CreateSnapshot).
THEOREM AnswersWithItsSource == Spec => []SnapshotOfItsSource
<1>1. IInv => SnapshotOfItsSource
  BY DEF IInv, BoundIsItsOwn, SnapshotOfItsSource
<1> QED BY Invariance, <1>1, PTL

\* DeleteSnapshot says OK, with all its requests answered, only when the backup
\* does not exist (DeleteBlockStorageBackup).
THEOREM OkMeansGone == Spec => []DeletedIsGone
<1>1. IInv => DeletedIsGone
  BY DEF IInv
<1> QED BY Invariance, <1>1, PTL

\* CreateSnapshot answers with no other snapshot while the one it gave exists.
THEOREM AnswerIsStable == Spec => SnapshotIsStable
<1> DEFINE Stable == \A n \in Names \ disturbed :
                        bound[n] \in backups /\ bound'[n] # bound[n] => bound'[n] = NoStorage
<1>1. IInv /\ [Next]_vars => [Stable]_vars
  <2> SUFFICES ASSUME IInv, Next, NEW n \in Names \ disturbed,
                      bound[n] \in backups, bound'[n] # bound[n]
               PROVE  bound'[n] = NoStorage
    OBVIOUS
  <2> USE SnapshotAssumption DEF IInv, TypeOK, Ids, request, cloud, side, known
  <2>1. ASSUME NEW h \in Handlers, GetBlockStorageBackupByName(h) PROVE FALSE
    BY <2>1 DEF GetBlockStorageBackupByName, Goto, ReturnSnapshot, ReturnError, Return,
                Titled, TitledOnce, BoundIsItsOwn, HandlerKnows
  <2>2. ASSUME NEW h \in Handlers, WaitForStorageOnline(h) PROVE FALSE
    BY <2>2 DEF WaitForStorageOnline, ReturnSnapshot, Return, WaitsForItsOwn, TitledOnce,
                BoundIsItsOwn, HandlerKnows
  <2>3. ASSUME NEW h \in Handlers,
               CheckBackupType(h) \/ DeleteBackup(h) \/ DeleteUnanswered(h)
        PROVE  bound'[n] = NoStorage
    BY <2>3 DEF CheckBackupType, DeleteBackup, DeleteUnanswered, Goto, ReturnDeleted,
                ReturnError, Return, HandlerKnows
  <2>4. ASSUME NEW h \in Handlers,
               \/ Calls(h) \/ CheckBackupInProgress(h) \/ CreateBackup(h)
               \/ ApiError(h) \/ Abandon(h) \/ Cancel(h)
        PROVE  FALSE
    BY <2>4 DEF Calls, CreateSnapshot, DeleteSnapshot, Call, CheckBackupInProgress, Goto,
                CreateBackup, ApiError, Abandon, Cancel, ReturnError, ReturnFault
  <2>5. CASE Environment
    BY <2>5 DEF Environment, Lands, BackupDone, StorageDeleted, Crash
  <2> QED BY <2>1, <2>2, <2>3, <2>4, <2>5 DEF Next, Step
<1> QED BY Invariance, <1>1, PTL DEF Spec, SnapshotIsStable

\* DeleteSnapshot deletes no volume: what it deletes was seen to be a backup, and
\* the UUID does not become a volume's.
THEOREM DeletesOnlyBackups == Spec => OnlyBackupsDeleted
<1> DEFINE Kept == \A h \in Handlers : op[h] = "delete" /\ pc'[h] = "idle" => volumes' = volumes
<1>1. IInv /\ [Next]_vars => [Kept]_vars
  <2> SUFFICES ASSUME IInv, Next, NEW h \in Handlers, op[h] = "delete", pc'[h] = "idle"
               PROVE  volumes' = volumes
    OBVIOUS
  <2> USE SnapshotAssumption DEF IInv, TypeOK, Ids, request, cloud, side, known
  <2>1. ASSUME NEW g \in Handlers, DeleteBackup(g) PROVE volumes' = volumes
    <3>1. uuid[g] \notin volumes
      BY <2>1 DEF DeleteBackup, HandlerKnows
    <3>2. volumes \ {uuid[g]} = volumes
      BY <3>1
    <3> QED BY <2>1, <3>2 DEF DeleteBackup, RemoveStorage
  <2>2. ASSUME NEW g \in Handlers, Calls(g) \/ Step(g), ~ DeleteBackup(g)
        PROVE  volumes' = volumes
    BY <2>2 DEF Step, Calls, CreateSnapshot, DeleteSnapshot, Call, CheckBackupInProgress,
                CreateBackup, NewBackup, ApiError, Abandon, Cancel, CheckBackupType,
                DeleteUnanswered, GetBlockStorageBackupByName, WaitForStorageOnline
  \* Another actor may delete a volume, but then no handler returns.
  <2>3. ASSUME NEW u \in Volumes \union Backups, StorageDeleted(u) PROVE FALSE
    BY <2>3 DEF StorageDeleted, HandlerKnows
  <2>4. CASE Environment
    BY <2>3, <2>4 DEF Environment, Lands, NewBackup, BackupDone, Crash
  <2> QED BY <2>1, <2>2, <2>4 DEF Next
<1> QED BY Invariance, <1>1, PTL DEF Spec, OnlyBackupsDeleted

\* A CreateSnapshot that meets no fault succeeds, unless its source is gone or
\* busy with a backup of another name, or the name is taken: the half-made backup
\* of an earlier attempt is found by its title and is no obstacle.
THEOREM RetrySucceeds == Spec => CreateSnapshotRecovers
<1> DEFINE Done(h) == \/ bound'[name[h]] # NoStorage
                      \/ src[h] \notin volumes
                      \/ \E b \in backups :
                            \/ origin[b] = src[h] /\ title[b] # name[h]
                                 /\ state[b] = "maintenance"
                            \/ origin[b] # src[h] /\ title[b] = name[h]
           Recovers == \A h \in awaited :
                          /\ op[h] = "create" /\ pc'[h] = "idle"
                          /\ h \notin troubled' /\ name[h] \notin disturbed'
                          => Done(h)
<1>1. IInv /\ [Next]_vars => [Recovers]_vars
  <2> SUFFICES ASSUME IInv, Next, NEW h \in awaited, op[h] = "create", pc'[h] = "idle",
                      h \notin troubled', name[h] \notin disturbed'
               PROVE  Done(h)
    OBVIOUS
  <2> h \in Handlers /\ pc[h] # "idle" /\ name[h] \in Names
    BY DEF IInv, TypeOK, HandlerKnows
  <2> USE SnapshotAssumption DEF IInv, TypeOK, Ids, request, cloud, side, known
  <2>1. CASE GetBlockStorageBackupByName(h)
    BY <2>1 DEF GetBlockStorageBackupByName, Goto, ReturnSnapshot, ReturnError, Return,
                Titled, Live
  \* A backup in progress of the source has another title: none had this one.
  <2>2. CASE CheckBackupInProgress(h)
    <3>1. disturbed' = disturbed
      BY <2>2 DEF CheckBackupInProgress
    <3> QED BY <2>2, <3>1 DEF CheckBackupInProgress, Goto, Backuping, StillMissing
  <2>3. CASE WaitForStorageOnline(h)
    BY <2>3 DEF WaitForStorageOnline, ReturnSnapshot, Return, Live
  <2>4. CASE \/ Calls(h) \/ CreateBackup(h) \/ CheckBackupType(h) \/ DeleteBackup(h)
             \/ DeleteUnanswered(h) \/ ApiError(h) \/ Abandon(h) \/ Cancel(h)
    BY <2>4 DEF Calls, CreateSnapshot, DeleteSnapshot, Call, CreateBackup, CheckBackupType,
                DeleteBackup, DeleteUnanswered, ApiError, Abandon, Cancel, ReturnFault,
                Return, HandlerKnows
  <2>5. ASSUME NEW g \in Handlers, g # h, Calls(g) \/ Step(g) PROVE FALSE
    <3>1. pc' = [pc EXCEPT ![g] = pc'[g]]
      BY <2>5 DEF Step, Calls, CreateSnapshot, DeleteSnapshot, Call, Goto, Return,
                  ReturnError, ReturnFault, ReturnSnapshot, ReturnDeleted,
                  GetBlockStorageBackupByName, CheckBackupInProgress, CreateBackup,
                  WaitForStorageOnline, CheckBackupType, DeleteBackup, DeleteUnanswered,
                  ApiError, Abandon, Cancel
    <3> QED BY <2>5, <3>1
  <2>6. CASE Environment
    BY <2>6 DEF Environment, Lands, BackupDone, StorageDeleted, Crash
  <2> QED BY <2>1, <2>2, <2>3, <2>4, <2>5, <2>6 DEF Next, Step
<1> QED BY Invariance, <1>1, PTL DEF Spec, CreateSnapshotRecovers

=============================================================================
