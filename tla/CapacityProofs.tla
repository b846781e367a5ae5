-------------------------- MODULE CapacityProofs ---------------------------
(***************************************************************************)
(* How many entries the two tables of the volume manager need: with two    *)
(* more than there are HTTP tasks, and without failures, no handle is ever *)
(* lost and every route finds the entries it needs.                        *)
(***************************************************************************)
EXTENDS OwnershipProofs, FiniteSetTheorems

---------------------------------------------------------------------------
\* Counting handles.

\* Where the open entries each have an owner other than t, and no owner has
\* two, there are fewer of them than tasks.
LEMMA FewerThanTasks ==
    ASSUME NEW Open, IsFiniteSet(Open), NEW own, NEW t \in Tasks,
           \A x \in Open : \E u \in Tasks \ {t} : x \in own[u],
           \A u \in Tasks \ {t} : \A x, y \in own[u] : x = y
    PROVE  Cardinality(Open) + 1 <= Cardinality(Tasks)
<1> DEFINE Others == Tasks \ {t}
           owner == [x \in Open |-> CHOOSE u \in Others : x \in own[u]]
<1>1. IsFiniteSet(Tasks) /\ Cardinality(Tasks) \in Nat
    BY ServerAssumption, FS_CardinalityType
<1>2. IsFiniteSet(Others) /\ Cardinality(Others) = Cardinality(Tasks) - 1
    BY <1>1, FS_RemoveElement
<1>3. \A x \in Open : owner[x] \in Others /\ x \in own[owner[x]]
    OBVIOUS
<1> HIDE DEF Others, owner
<1>4. owner \in [Open -> Others]
    BY <1>3 DEF owner
<1>5. \A x, y \in Open : owner[x] = owner[y] => x = y
    BY <1>3 DEF Others
<1>6. ~(Cardinality(Others) < Cardinality(Open))
    BY <1>2, <1>4, <1>5, FS_PigeonHole
<1>7. Cardinality(Open) \in Nat /\ Cardinality(Others) \in Nat
    BY <1>2, FS_CardinalityType
<1>8. QED
    BY <1>1, <1>2, <1>6, <1>7

LEMMA DbFilesCount == Cardinality(DbFiles) = 2
<1>1. IsFiniteSet({WalFile}) /\ Cardinality({WalFile}) = 1
    BY FS_Singleton
<1>2. Cardinality({WalFile} \cup {DbFile}) = 2
  <2>1. DbFile \notin {WalFile}
    BY VolumeAssumption
  <2>2. Cardinality({WalFile} \cup {DbFile}) = Cardinality({WalFile}) + 1
    BY <1>1, <2>1, FS_AddElement
  <2>3. QED
    BY <1>1, <2>2
<1>3. DbFiles = {WalFile} \cup {DbFile}
    BY DEF DbFiles
<1>4. QED
    BY <1>2, <1>3

\* FreshDirs(1): the handle of one directory.
LEMMA OneFreshDir == ASSUME NEW D \in FreshDirs(1) PROVE \A x, y \in D : x = y
<1>1. D \in SUBSET DirSlots /\ Cardinality(D) = 1
    BY DEF FreshDirs, FreeSlots
<1>2. IsFiniteSet(D)
    BY <1>1, FS_Subset, VolumeAssumption
<1>3. \E x : D = {x}
    BY <1>1, <1>2, FS_Singleton
<1>4. QED
    BY <1>3

---------------------------------------------------------------------------
\* The hypotheses, and the inductive invariant.

FaultFree == Faults = {}
RoomForDirs == Cardinality(Tasks) + 2 <= Cardinality(DirSlots)
RoomForFiles == Cardinality(Tasks) + 2 <= MaxFiles

\* GET /fs keeps one directory, whatever it had to open to find it.
OneDirectory == \A t \in Tasks : pc[t] \in FsPhases => \A x, y \in dirs[t] : x = y

\* The counters of the database are past the name of every uploaded file, so
\* no name comes back after a deletion.
NamesUsed == onCard \cap Files \subseteq used
EmptyOffCard == \A f \in Files : len[f] > 0 => f \in onCard

\* A range that began inside its file does so until the file is deleted.
StreamsInRange ==
    \A t \in Tasks : pc[t] = "lock" /\ req[t].op = "stream" =>
        /\ req[t].file \in used
        /\ req[t].file \in onCard => req[t].pos < len[req[t].file]

CapInv ==
    /\ OInv
    /\ NothingLeaked /\ NobodyPanics
    /\ OneDirectory
    /\ NamesUsed /\ EmptyOffCard /\ StreamsInRange

LEMMA InitCapInv == Init => CapInv
<1> SUFFICES ASSUME Init PROVE CapInv
    OBVIOUS
<1> USE DEF Init, VolumeInit, ManagerInit
<1>1. OInv
    BY InitOInv
<1>2. NothingLeaked /\ NobodyPanics
    BY DEF NothingLeaked, LeakedDirs, LeakedFiles, NobodyPanics
<1>3. OneDirectory /\ StreamsInRange
    BY DEF OneDirectory, StreamsInRange, FsPhases
<1>4. NamesUsed /\ EmptyOffCard
    BY VolumeAssumption DEF NamesUsed, EmptyOffCard
<1>5. QED
    BY <1>1, <1>2, <1>3, <1>4 DEF CapInv

---------------------------------------------------------------------------
\* While the mutex is free a request owns one directory and one file at most.

LEMMA OneEach ==
    ASSUME CapInv, StateFree, NEW u \in Tasks
    PROVE  (\A x, y \in dirs[u] : x = y) /\ (\A x, y \in files[u] : x = y)
<1>1. pc[u] \in Phases \ LockedPhases
    BY TypeParts, ServerAssumption
    DEF CapInv, OInv, IInv, TaskTypes, BuffersNeverContended, StateFree
<1>2. pc[u] \in EmptyPhases \cup StreamPhases \cup FsPhases
    BY <1>1
    DEF Phases, RawPhases, ScopedPhases, LockedPhases, EmptyPhases, StreamPhases, FsPhases
<1>3. Owns(pc[u], req[u], dirs[u], files[u])
    BY DEF CapInv, OInv, HandlesMatchPhases
<1>4. QED
    BY <1>2, <1>3 DEF Owns, CapInv, OneDirectory

LEMMA Room ==
    ASSUME CapInv, StateFree, NEW t \in Tasks
    PROVE  /\ RoomForDirs /\ dirs[t] = {} => CanOpenDirs(3)
           /\ RoomForFiles /\ files[t] = {} => CanOpenFiles(3)
<1>1. /\ HandleTypes
      /\ \A x \in openDirs : \E u \in Tasks : x \in dirs[u]
      /\ \A f \in openFiles : \E u \in Tasks : f \in files[u]
    BY TypeParts DEF CapInv, OInv, IInv, NothingLeaked, LeakedDirs, LeakedFiles
<1>2. IsFiniteSet(openDirs) /\ IsFiniteSet(openFiles)
  <2>1. IsFiniteSet(AllFiles)
    <3>1. IsFiniteSet(Files \cup {DbFile})
      BY VolumeAssumption, FS_AddElement
    <3>2. IsFiniteSet((Files \cup {DbFile}) \cup {WalFile})
      BY <3>1, FS_AddElement
    <3>3. AllFiles = (Files \cup {DbFile}) \cup {WalFile}
      BY DEF AllFiles, DbFiles
    <3>4. QED
      BY <3>2, <3>3
  <2>2. QED
    BY <1>1, <2>1, FS_Subset, VolumeAssumption DEF HandleTypes
<1>3. Cardinality(Tasks) \in Nat /\ Cardinality(openDirs) \in Nat /\ Cardinality(openFiles) \in Nat
    BY <1>2, FS_CardinalityType, ServerAssumption
<1>4. ASSUME RoomForDirs, dirs[t] = {} PROVE CanOpenDirs(3)
  <2>1. \A x \in openDirs : \E u \in Tasks \ {t} : x \in dirs[u]
    BY <1>1, <1>4
  <2>2. Cardinality(openDirs) + 1 <= Cardinality(Tasks)
    BY <1>2, <2>1, OneEach, FewerThanTasks
  <2>3. Cardinality(FreeSlots) = Cardinality(DirSlots) - Cardinality(openDirs)
    <3>1. DirSlots \cap openDirs = openDirs
      BY <1>1 DEF HandleTypes
    <3>2. QED
      BY <3>1, FS_Difference, VolumeAssumption DEF FreeSlots
  <2>4. Cardinality(DirSlots) \in Nat
    BY FS_CardinalityType, VolumeAssumption
  <2>5. QED
    BY <1>3, <1>4, <2>2, <2>3, <2>4 DEF RoomForDirs, CanOpenDirs
<1>5. ASSUME RoomForFiles, files[t] = {} PROVE CanOpenFiles(3)
  <2>1. \A f \in openFiles : \E u \in Tasks \ {t} : f \in files[u]
    BY <1>1, <1>5
  <2>2. Cardinality(openFiles) + 1 <= Cardinality(Tasks)
    BY <1>2, <2>1, OneEach, FewerThanTasks
  <2>3. QED
    BY <1>3, <1>5, <2>2, VolumeAssumption DEF RoomForFiles, CanOpenFiles
<1>6. QED
    BY <1>4, <1>5

---------------------------------------------------------------------------
\* Without failures no step loses a handle.

\* The losses that the layout of the tables and the counters rule out.
LEMMA NoLoss ==
    ASSUME FaultFree, CapInv, RoomForDirs, NEW t \in Tasks
    PROVE  /\ ~StreamNoRoot(t) /\ ~ListNoRoot(t)
           /\ ~DeleteLosesDbDir(t) /\ ~RangeOutOfBounds(t)
<1>1. ASSUME NEW n \in 1 .. 3, CanOpenDirs(3) PROVE CanOpenDirs(n)
  <2>1. IsFiniteSet(FreeSlots)
    BY FS_Difference, VolumeAssumption DEF FreeSlots
  <2>2. QED
    BY <1>1, <2>1, FS_CardinalityType DEF CanOpenDirs
<1>2. Owns(pc[t], req[t], dirs[t], files[t])
    BY DEF CapInv, OInv, HandlesMatchPhases
<1>3. ~StreamNoRoot(t)
  <2> SUFFICES ASSUME StreamNoRoot(t) PROVE FALSE
    OBVIOUS
  <2>1. StateFree /\ dirs[t] = {}
    BY <1>2 DEF StreamNoRoot, Owns, StreamPhases
  <2>2. QED
    BY <1>1, <2>1, Room DEF StreamNoRoot
<1>4. ~DeleteLosesDbDir(t)
  <2> SUFFICES ASSUME DeleteLosesDbDir(t) PROVE FALSE
    OBVIOUS
  <2>1. StateFree /\ dirs[t] = {}
    BY <1>2 DEF DeleteLosesDbDir, AtLock, Owns, EmptyPhases
  <2>2. QED
    BY <2>1, Room DEF DeleteLosesDbDir, FaultFree
<1>5. ~RangeOutOfBounds(t)
  <2> SUFFICES ASSUME RangeOutOfBounds(t) PROVE FALSE
    OBVIOUS
  <2>1. req[t] \in Request /\ req[t].file \in Files /\ len[req[t].file] \in Nat /\ req[t].pos \in Nat
    BY TypeParts, VolumeAssumption
    DEF RangeOutOfBounds, AtLock, CapInv, OInv, IInv, RequestsNameFiles, TaskTypes, DiskTypes, Request
  <2>2. req[t].file \in onCard /\ pc[t] = "lock" /\ req[t].op = "stream"
    BY DEF RangeOutOfBounds, AtLock, CanOpenForRange, CanOpenFile
  <2>3. req[t].pos < len[req[t].file]
    BY <2>2 DEF CapInv, StreamsInRange
  <2>4. QED
    BY <2>1, <2>3 DEF RangeOutOfBounds
<1>6. ~ListNoRoot(t)
  <2> SUFFICES ASSUME ListNoRoot(t) PROVE FALSE
    OBVIOUS
  <2>1. StateFree /\ dirs[t] = {}
    BY <1>2 DEF ListNoRoot, Owns, EmptyPhases
  <2>2. QED
    BY <1>1, <2>1, Room DEF ListNoRoot
<1>7. QED
    BY <1>3, <1>4, <1>5, <1>6

\* What a step of a request does to the handles, to the counters and to the
\* request's phase.
LEMMA Outcome ==
    ASSUME FaultFree, CapInv, RoomForDirs, NEW t \in Tasks, Act(t)
    PROVE  /\ UNCHANGED <<tables, handles>> \/ AcquiresFresh(t) \/ Release(t)
           /\ used' = used \/ NewCreated(t)
           /\ pc'[t] = "lock" => Accept(t)
           /\ pc'[t] # "panicked"
           /\ pc'[t] \in FsPhases =>
                  (UNCHANGED dirs /\ pc[t] \in FsPhases) \/ FsResolveDir(t) \/ FsResolveFile(t)
<1>1. TaskTypes
    BY TypeParts DEF CapInv, OInv, IInv
<1> USE NoLoss DEF FinishPlain, Finish, Goto, Panic, TaskTypes, FsPhases, handles, disk, FaultFree
<1>2. CASE StreamStep(t)
    BY <1>1, <1>2
    DEF StreamStep, RangeRefused, RangeAccepted, StreamHead, StreamHeadLost, StreamCheck,
        StreamBegin, StreamSend, StreamSendLost, StreamDone, CanOpenForRange,
        CanOpenFile, AcquiresFresh
<1>3. CASE UploadStep(t) \/ DeleteStep(t)
    BY <1>1, <1>3, FreshDisjoint
    DEF UploadStep, NewRefused, NewCreated, UploadEnd, ChunkRefused, ChunkBegin, ChunkWrite,
        ChunkDone, DeleteStep, DeleteRefused, DeleteFile, FsMusicDelete, DeleteDb,
        ChunkCanStart, CanOpenFile, AcquiresFresh
<1>4. CASE BrowseStep(t)
    BY <1>1, <1>4, FreshDisjoint
    DEF BrowseStep, ListInactive, ListCheck, ListNoRoot, ListBegin, ListNoDb, ListDone,
        FsNotResolved, FsResolveDir, FsResolveFile, FsHead, FsHeadLost, FsBegin,
        FsIterateFails, FsSent, FsSendLost, FsClose, CanResolve, CanOpenFile, CanOpenDb, AtLock,
        AcquiresFresh
<1>5. CASE Accept(t) \/ Timeout(t) \/ Reconnect(t)
    BY <1>1, <1>5 DEF Accept, Timeout, TimeoutClosing, TimeoutForgetting, Reconnect
<1>6. QED
    BY <1>2, <1>3, <1>4, <1>5 DEF Act, Step

LEMMA NothingLeakedStep ==
    ASSUME FaultFree, CapInv, RoomForDirs, NEW t \in Tasks, Act(t)
    PROVE  NothingLeaked'
<1>1. HandleTypes /\ LeakedDirs = {} /\ LeakedFiles = {}
    BY TypeParts DEF CapInv, OInv, IInv, NothingLeaked
<1>2. CASE UNCHANGED <<tables, handles>>
    BY <1>1, <1>2 DEF NothingLeaked, LeakedDirs, LeakedFiles, tables, handles
<1>3. CASE AcquiresFresh(t)
  <2>1. LeakedDirs' \subseteq LeakedDirs /\ LeakedFiles' \subseteq LeakedFiles
    BY <1>1, <1>3 DEF LeakedDirs, LeakedFiles, HandleTypes, AcquiresFresh, Acquire
  <2>2. QED
    BY <1>1, <2>1 DEF NothingLeaked
<1>4. CASE Release(t)
  <2>1. LeakedDirs' \subseteq LeakedDirs /\ LeakedFiles' \subseteq LeakedFiles
    BY <1>1, <1>4 DEF LeakedDirs, LeakedFiles, HandleTypes, Release
  <2>2. QED
    BY <1>1, <2>1 DEF NothingLeaked
<1>5. QED
    BY <1>2, <1>3, <1>4, Outcome

LEMMA OneDirectoryStep ==
    ASSUME FaultFree, CapInv, RoomForDirs, NEW t \in Tasks, Act(t)
    PROVE  OneDirectory'
<1>1. HandleTypes /\ Owns(pc[t], req[t], dirs[t], files[t])
    BY TypeParts DEF CapInv, OInv, IInv, HandlesMatchPhases
<1>2. SUFFICES ASSUME NEW s \in Tasks, pc'[s] \in FsPhases PROVE \A x, y \in dirs'[s] : x = y
    BY DEF OneDirectory
<1>3. CASE s # t
    BY <1>2, <1>3, OthersKept DEF CapInv, OInv, OneDirectory
<1>4. CASE s = t /\ UNCHANGED dirs /\ pc[t] \in FsPhases
    BY <1>4 DEF CapInv, OneDirectory
<1>5. CASE s = t /\ (FsResolveDir(t) \/ FsResolveFile(t))
  <2>1. dirs[t] = {}
    BY <1>1, <1>5 DEF FsResolveDir, FsResolveFile, AtLock, Owns, EmptyPhases
  <2>2. dirs'[t] = {} \/ \E D \in FreshDirs(1) : dirs'[t] = D
    BY <1>1, <1>5, <2>1 DEF FsResolveDir, FsResolveFile, Acquire, HandleTypes
  <2>3. QED
    BY <1>5, <2>2, OneFreshDir
<1>6. QED
    BY <1>2, <1>3, <1>4, <1>5, Outcome

LEMMA NobodyPanicsStep ==
    ASSUME FaultFree, CapInv, RoomForDirs, NEW t \in Tasks, Act(t)
    PROVE  NobodyPanics'
BY Outcome, OthersKept DEF CapInv, OInv, NobodyPanics

---------------------------------------------------------------------------
\* Without failures no client asks beyond the end of a file.

LEMMA FilesStep ==
    ASSUME FaultFree, CapInv, RoomForDirs, NEW t \in Tasks, Act(t)
    PROVE  NamesUsed' /\ EmptyOffCard' /\ StreamsInRange'
<1>1. /\ TaskTypes /\ DiskTypes /\ OInv
      /\ len \in [Files -> Nat] /\ \A s \in Tasks : req[s] \in Request /\ req[s].pos \in Nat
    BY TypeParts, VolumeAssumption DEF CapInv, OInv, IInv, TaskTypes, DiskTypes, Request
<1>2. used \subseteq used'
    BY Outcome, <1>1 DEF NewCreated
\* The file of a request that asked for one.
<1>3. req[t].op \in {"chunk"} \cup NamedOps => req[t].file \in Files
    BY DEF CapInv, OInv, IInv, RequestsNameFiles
<1>4. \A f \in Files : f \in onCard' => f \in used' /\ (f \in used => f \in onCard /\ len[f] <= len'[f])
  <2> SUFFICES ASSUME NEW f \in Files, f \in onCard'
               PROVE  f \in used' /\ (f \in used => f \in onCard /\ len[f] <= len'[f])
    OBVIOUS
  <2>1. f \in onCard => f \in used
    BY DEF CapInv, NamesUsed
  <2>2. CASE FilesKept
    BY <1>1, <1>2, <2>1, <2>2 DEF FilesKept
  <2>3. CASE ChunkWrite(t)
    BY <1>1, <1>2, <2>1, <2>3 DEF ChunkWrite
  <2>4. CASE NewCreated(t)
    BY <1>1, <1>2, <2>1, <2>4, VolumeAssumption DEF NewCreated, NewCanCreate, FaultFree
  <2>5. CASE DeleteFile(t) \/ FsMusicDelete(t)
    BY <1>1, <1>2, <2>1, <2>5, VolumeAssumption DEF DeleteFile, FsMusicDelete
  <2>6. QED
    BY <1>1, <2>2, <2>3, <2>4, <2>5, DiskEffects
<1>5. NamesUsed'
    BY <1>4 DEF NamesUsed
<1>6. EmptyOffCard'
  <2> SUFFICES ASSUME NEW f \in Files, len'[f] > 0 PROVE f \in onCard'
    BY DEF EmptyOffCard
  <2>1. len[f] > 0 => f \in onCard
    BY DEF CapInv, EmptyOffCard
  <2>2. CASE FilesKept
    BY <2>1, <2>2 DEF FilesKept
  <2>3. CASE ChunkWrite(t)
    <3>1. req[t].file \in onCard
      BY <2>3 DEF ChunkWrite, CapInv, OInv, IInv, HandlesMatchPhases, Owns, HandlesOwnedOnce, OpenFilesExist
    <3>2. QED
      BY <1>1, <2>1, <2>3, <3>1 DEF ChunkWrite
  <2>4. CASE NewCreated(t)
    BY <2>1, <2>4 DEF NewCreated
  <2>5. CASE DeleteFile(t) \/ FsMusicDelete(t)
    BY <1>1, <2>1, <2>5 DEF DeleteFile, FsMusicDelete
  <2>6. QED
    BY <1>1, <2>2, <2>3, <2>4, <2>5, DiskEffects
<1>7. StreamsInRange'
  <2> SUFFICES ASSUME NEW s \in Tasks, pc'[s] = "lock", req'[s].op = "stream"
               PROVE  /\ req'[s].file \in used'
                      /\ req'[s].file \in onCard' => req'[s].pos < len'[req'[s].file]
    BY DEF StreamsInRange
  <2>1. CASE s # t
    <3>1. pc[s] = "lock" /\ req'[s] = req[s] /\ req[s].op = "stream" /\ req[s].file \in Files
      BY <2>1, OthersKept DEF CapInv, OInv, IInv, RequestsNameFiles
    <3>2. /\ req[s].file \in used
          /\ req[s].file \in onCard => req[s].pos < len[req[s].file]
      BY <3>1 DEF CapInv, StreamsInRange
    <3>3. len'[req[s].file] \in Nat
      BY <3>1, <1>1, TypeStep, VolumeAssumption DEF OInv, TypeOK, VolumeTypeOK
    <3>4. QED
      BY <1>1, <1>2, <1>4, <3>1, <3>2, <3>3
  <2>2. CASE s = t
    <3>1. Accept(t)
      BY <2>2, Outcome
    <3>2. PICK op \in Routes :
              \E r \in ClientRequest(op) :
                  /\ op = "stream" => r.pos < len[r.file]
                  /\ req' = [req EXCEPT ![t] = r]
      BY <3>1 DEF Accept, FaultFree
    <3> PICK r \in ClientRequest(op) :
                  /\ op = "stream" => r.pos < len[r.file]
                  /\ req' = [req EXCEPT ![t] = r]
      BY <3>2
    <3>3. req'[t] = r /\ r.op = op
      BY <1>1, RouteAssumption DEF TaskTypes, ClientRequest, Ops, NamedOps, PlainOps
    <3>4. op = "stream" /\ r.file \in Files /\ r.pos \in Nat /\ r.pos < len[r.file]
      <4>1. op = "stream" /\ r.pos < len[r.file]
        BY <2>2, <3>2, <3>3
      <4>2. r \in [op : {op}, file : Files, pos : 0 .. MaxLen, left : {0}]
        BY <4>1 DEF ClientRequest, NamedOps, PlainOps
      <4>3. QED
        BY <4>1, <4>2, VolumeAssumption
    <3>5. r.file \in onCard
      BY <1>1, <3>4 DEF CapInv, EmptyOffCard
    <3>6. UNCHANGED disk
      BY <3>1 DEF Accept
    <3>7. QED
      BY <2>2, <3>3, <3>4, <3>5, <3>6 DEF disk, CapInv, NamesUsed
  <2>3. QED
    BY <2>1, <2>2
<1>8. QED
    BY <1>5, <1>6, <1>7

---------------------------------------------------------------------------

LEMMA NextCapInv ==
    ASSUME FaultFree, RoomForDirs
    PROVE  CapInv /\ [Next]_vars => CapInv'
<1> SUFFICES ASSUME CapInv, [Next]_vars PROVE CapInv'
    OBVIOUS
<1>1. OInv'
    BY NextOInv DEF CapInv
<1>2. ASSUME NEW t \in Tasks, Act(t) PROVE CapInv'
    BY <1>1, <1>2, NothingLeakedStep, NobodyPanicsStep, OneDirectoryStep, FilesStep DEF CapInv
<1>3. CASE UNCHANGED vars
    BY <1>1, <1>3
    DEF vars, CapInv, NothingLeaked, LeakedDirs, LeakedFiles, NobodyPanics, OneDirectory,
        NamesUsed, EmptyOffCard, StreamsInRange
<1>4. QED
    BY <1>2, <1>3 DEF Next, Act

\* Without failures, and with two more directory entries than tasks, the
\* server never loses an entry of the volume manager's tables.
THEOREM NothingLeakedTheorem ==
    ASSUME FaultFree, RoomForDirs
    PROVE  Spec => []NothingLeaked
<1>1. CapInv => NothingLeaked
    BY DEF CapInv
<1>2. CapInv /\ [Next]_vars => CapInv'
    BY NextCapInv
<1>3. QED
    BY <1>1, <1>2, InitCapInv, PTL DEF Spec

\* Under the same hypotheses no request reaches unreachable!() or unwrap() of
\* an Err, so a single request can never halt the device: the only Err without
\* failures would come from a full table of directories.
THEOREM NobodyPanicsTheorem ==
    ASSUME FaultFree, RoomForDirs
    PROVE  Spec => []NobodyPanics
<1>1. CapInv => NobodyPanics
    BY DEF CapInv
<1>2. CapInv /\ [Next]_vars => CapInv'
    BY NextCapInv
<1>3. QED
    BY <1>1, <1>2, InitCapInv, PTL DEF Spec

\* With two more entries than tasks in both tables (the firmware has 4 and 4
\* for its 2 tasks) a request that takes the mutex always finds the entries
\* that the hungriest route needs.
THEOREM CapacityTheorem ==
    ASSUME FaultFree, RoomForDirs, RoomForFiles
    PROVE  Spec => []CapacitySuffices
<1>1. CapInv => CapacitySuffices
  <2> SUFFICES ASSUME CapInv, NEW t \in Tasks, pc[t] \in {"lock", "listLock"}, StateFree
               PROVE  CanOpenDirs(3) /\ CanOpenFiles(Cardinality(DbFiles) + 1)
    BY DEF CapacitySuffices
  <2>1. dirs[t] = {} /\ files[t] = {}
    BY DEF CapInv, OInv, HandlesMatchPhases, Owns, EmptyPhases
  <2>2. CanOpenDirs(3) /\ CanOpenFiles(3)
    BY <2>1, Room
  <2>3. QED
    BY <2>2, DbFilesCount
<1>2. CapInv /\ [Next]_vars => CapInv'
    BY NextCapInv
<1>3. QED
    BY <1>1, <1>2, InitCapInv, PTL DEF Spec

=============================================================================
