------------------------- MODULE MusicServerProofs -------------------------
(***************************************************************************)
(* Safety of MusicServer for every number of tasks, files and table        *)
(* entries, and for every combination of faults.                           *)
(***************************************************************************)
EXTENDS MusicServer, Integers, TLAPS

---------------------------------------------------------------------------
\* The inductive invariant.

\* A route that names an uploaded file was asked for one.
RequestsNameFiles ==
    \A t \in Tasks : req[t].op \in {"stream", "chunk"} \cup NamedOps => req[t].file \in Files

\* A stream owns its file, which holds what the stream still has to send.
StreamsOwnTheirBytes ==
    \A t \in Tasks : pc[t] \in StreamPhases =>
        /\ req[t].op = "stream"
        /\ req[t].file \in files[t]
        /\ req[t].pos + req[t].left <= len[req[t].file]

\* No file is deleted while the table of open files has it.
OpenFilesExist == openFiles \subseteq onCard

IInv ==
    /\ TypeOK
    /\ BuffersNeverContended
    /\ HandlesOwnedOnce
    /\ RequestsNameFiles
    /\ StreamsOwnTheirBytes
    /\ OpenFilesExist
    /\ \A t \in Tasks : pc[t] = "receiving" => req[t].op = "chunk"

---------------------------------------------------------------------------

LEMMA InitIInv == Init => IInv
<1> SUFFICES ASSUME Init PROVE IInv
    OBVIOUS
<1> USE DEF Init, VolumeInit, ManagerInit
<1>1. TypeOK
    BY VolumeAssumption, ServerAssumption
    DEF TypeOK, VolumeTypeOK, ManagerTypeOK, AllFiles, DbFiles, Locks, Phases, RawPhases,
        ScopedPhases, NoRequest, Request, Ops, NamedOps, PlainOps
<1>2. BuffersNeverContended
    BY ServerAssumption DEF BuffersNeverContended, Locks, LockedPhases, ScopedPhases
<1>3. HandlesOwnedOnce
    BY DEF HandlesOwnedOnce
<1>4. RequestsNameFiles /\ StreamsOwnTheirBytes /\ OpenFilesExist
    BY DEF RequestsNameFiles, StreamsOwnTheirBytes, OpenFilesExist, NoRequest, NamedOps, StreamPhases
<1>5. QED
    BY <1>1, <1>2, <1>3, <1>4 DEF IInv

---------------------------------------------------------------------------
\* What the helpers of FileManager do to the types.

LEMMA GotoType ==
    ASSUME pc \in [Tasks -> Phases], NEW t \in Tasks, NEW x \in Phases, Goto(t, x)
    PROVE  pc' \in [Tasks -> Phases]
BY DEF Goto

LEMMA NoRequestType == NoRequest \in Request
BY VolumeAssumption, ServerAssumption DEF NoRequest, Request, Ops, PlainOps

LEMMA FinishType ==
    ASSUME pc \in [Tasks -> Phases], req \in [Tasks -> Request],
           NEW t \in Tasks, Finish(t)
    PROVE  pc' \in [Tasks -> Phases] /\ req' \in [Tasks -> Request]
<1>1. "idle" \in Phases
    BY DEF Phases
<1>2. QED
    BY <1>1, GotoType, NoRequestType DEF Finish

HandleTypes ==
    /\ openDirs \in SUBSET DirSlots
    /\ openFiles \in SUBSET AllFiles
    /\ dirs \in [Tasks -> SUBSET DirSlots]
    /\ files \in [Tasks -> SUBSET AllFiles]

LEMMA AcquireType ==
    ASSUME HandleTypes, NEW t \in Tasks,
           NEW D \in SUBSET DirSlots, NEW F \in SUBSET AllFiles, Acquire(t, D, F)
    PROVE  HandleTypes'
BY DEF HandleTypes, Acquire

LEMMA ReleaseType ==
    ASSUME HandleTypes, NEW t \in Tasks, Release(t) \/ Forget(t)
    PROVE  HandleTypes'
BY DEF HandleTypes, Release, Forget, tables

LEMMA LockType ==
    ASSUME held \in [Locks -> Tasks \cup {NoTask}], NEW t \in Tasks,
           Unlock(t) \/ \E B \in SUBSET Locks : Lock(t, B)
    PROVE  held' \in [Locks -> Tasks \cup {NoTask}]
BY DEF Lock, Unlock

LEMMA LeftType ==
    ASSUME NEW r \in Request, NEW n \in 0 .. ChunkLen
    PROVE  [r EXCEPT !.left = n] \in Request
BY DEF Request

DiskTypes ==
    /\ onCard \in SUBSET AllFiles
    /\ len \in [Files -> 0 .. MaxLen]
    /\ used \in SUBSET Files

TaskTypes ==
    /\ card \in {"NoCard", "Active"}
    /\ held \in [Locks -> Tasks \cup {NoTask}]
    /\ pc \in [Tasks -> Phases]
    /\ req \in [Tasks -> Request]

LEMMA TypeParts == TypeOK <=> HandleTypes /\ DiskTypes /\ TaskTypes
BY DEF TypeOK, VolumeTypeOK, ManagerTypeOK, HandleTypes, DiskTypes, TaskTypes

HeldMoves(t) == UNCHANGED held \/ Unlock(t) \/ \E B \in SUBSET Locks : Lock(t, B)

LEMMA GotoTasks ==
    ASSUME TaskTypes, NEW t \in Tasks, NEW x \in Phases, Goto(t, x), HeldMoves(t),
           UNCHANGED <<card, req>>
    PROVE  TaskTypes'
BY GotoType, LockType DEF TaskTypes, HeldMoves

LEMMA FinishTasks ==
    ASSUME TaskTypes, NEW t \in Tasks, Finish(t), HeldMoves(t), UNCHANGED card
    PROVE  TaskTypes'
BY FinishType, LockType DEF TaskTypes, HeldMoves

---------------------------------------------------------------------------
\* Every step keeps the types.

LEMMA StreamType ==
    ASSUME IInv, NEW t \in Tasks, StreamStep(t)
    PROVE  TypeOK'
<1> USE DEF IInv
<1>0. HandleTypes /\ DiskTypes /\ TaskTypes
    BY TypeParts
<1> USE DEF RangeRefused, RangeOutOfBounds, RangeAccepted, StreamHead, StreamHeadLost,
            StreamCheck, StreamBegin, StreamNoRoot, StreamSend, StreamSendLost, StreamDone, FinishPlain
<1>1. HandleTypes'
  <2>1. CASE UNCHANGED <<tables, handles>>
    BY <1>0, <2>1 DEF HandleTypes, tables, handles
  <2>2. CASE RangeOutOfBounds(t)
    BY <1>0, <2>2 DEF HandleTypes, DiskTypes, CanOpenForRange, CanOpenFile, handles
  <2>3. CASE RangeAccepted(t)
    <3>1. req[t].file \in AllFiles
        BY <1>0, <2>3 DEF CanOpenForRange, CanOpenFile, DiskTypes
    <3>2. QED
        BY <1>0, <2>3, <3>1, AcquireType
  <2>4. CASE Release(t) \/ Forget(t)
    BY <1>0, <2>4, ReleaseType
  <2>5. QED
    BY <2>1, <2>2, <2>3, <2>4 DEF StreamStep
<1>2. DiskTypes'
    BY <1>0 DEF StreamStep, DiskTypes, disk
<1>3. TaskTypes'
  <2>1. CASE RangeAccepted(t)
    <3>1. MinOf(ChunkLen, len[req[t].file] - req[t].pos) \in 0 .. ChunkLen
        BY <1>0, <2>1, ServerAssumption
        DEF MinOf, TaskTypes, DiskTypes, RequestsNameFiles, AtLock, Request
    <3>2. [req[t] EXCEPT !.left = MinOf(ChunkLen, len[req[t].file] - req[t].pos)] \in Request
        BY <1>0, <3>1, LeftType DEF TaskTypes
    <3>3. QED
        BY <1>0, <2>1, <3>2, GotoType DEF TaskTypes, Phases, RawPhases
  <2>2. CASE StreamSend(t)
    <3>1. req[t].left - 1 \in 0 .. ChunkLen /\ req[t].pos + 1 \in 0 .. MaxLen
        BY <1>0, <2>2
        DEF TaskTypes, DiskTypes, Request, StreamsOwnTheirBytes, StreamPhases, RequestsNameFiles
    <3>2. [[req[t] EXCEPT !.left = @ - 1] EXCEPT !.pos = @ + 1] \in Request
        BY <1>0, <3>1 DEF TaskTypes, Request
    <3>3. QED
        BY <1>0, <2>2, <3>2 DEF TaskTypes
  <2>3. CASE Finish(t) /\ HeldMoves(t) /\ UNCHANGED card
    BY <1>0, <2>3, FinishTasks
  <2>4. CASE \E x \in Phases : Goto(t, x) /\ HeldMoves(t) /\ UNCHANGED <<card, req>>
    BY <1>0, <2>4, GotoTasks
  <2>5. QED
    BY <2>1, <2>2, <2>3, <2>4
    DEF StreamStep, HeldMoves, Panic, Phases, RawPhases, ScopedPhases, Locks
<1>4. QED
    BY <1>1, <1>2, <1>3
    DEF TypeOK, VolumeTypeOK, ManagerTypeOK, HandleTypes, DiskTypes, TaskTypes

LEMMA UploadType ==
    ASSUME IInv, NEW t \in Tasks, UploadStep(t) \/ DeleteStep(t)
    PROVE  TypeOK'
<1> USE DEF IInv
<1>0. HandleTypes /\ DiskTypes /\ TaskTypes
    BY TypeParts
<1> USE DEF NewRefused, NewCreated, UploadEnd, ChunkRefused, ChunkBegin, ChunkWrite, ChunkDone,
            DeleteLosesDbDir, DeleteRefused, DeleteFile, FsMusicDelete, DeleteDb, FinishPlain
<1>1. HandleTypes'
  <2>1. CASE UNCHANGED <<tables, handles>>
    BY <1>0, <2>1 DEF HandleTypes, tables, handles
  <2>2. CASE DeleteLosesDbDir(t)
    BY <1>0, <2>2 DEF HandleTypes, handles, FreshDirs, FreeSlots
  <2>3. CASE ChunkBegin(t)
    <3>1. req[t].file \in AllFiles
        BY <1>0, <2>3 DEF ChunkCanStart, CanOpenFile, DiskTypes
    <3>2. \A D \in FreshDirs(2) : D \in SUBSET DirSlots
        BY DEF FreshDirs, FreeSlots
    <3>3. QED
        BY <1>0, <2>3, <3>1, <3>2, AcquireType
  <2>4. CASE Release(t)
    BY <1>0, <2>4, ReleaseType
  <2>5. QED
    BY <2>1, <2>2, <2>3, <2>4 DEF UploadStep, DeleteStep
<1>2. DiskTypes'
  <2>1. CASE ChunkWrite(t)
    <3>1. req[t].pos + 1 \in 0 .. MaxLen
        BY <1>0, <2>1, VolumeAssumption DEF TaskTypes, Request
    <3>2. QED
        BY <1>0, <2>1, <3>1 DEF DiskTypes
  <2>2. CASE ~ChunkWrite(t)
    <3>1. AtLock(t, {"new"}) => req[t].file \in Files
        BY DEF AtLock, RequestsNameFiles, NamedOps
    <3>2. QED
        BY <1>0, <2>2, <3>1, VolumeAssumption
        DEF UploadStep, DeleteStep, DiskTypes, disk, DbOpened, AllFiles
  <2>3. QED
    BY <2>1, <2>2
<1>3. TaskTypes'
  <2>1. CASE ChunkWrite(t)
    <3>1. [req[t] EXCEPT !.pos = req[t].pos + 1] \in Request
        BY <1>0, <2>1, VolumeAssumption DEF TaskTypes, Request
    <3>2. QED
        BY <1>0, <2>1, <3>1 DEF TaskTypes
  <2>2. CASE Finish(t) /\ HeldMoves(t) /\ UNCHANGED card
    BY <1>0, <2>2, FinishTasks
  <2>3. CASE \E x \in Phases : Goto(t, x) /\ HeldMoves(t) /\ UNCHANGED <<card, req>>
    BY <1>0, <2>3, GotoTasks
  <2>4. QED
    BY <2>1, <2>2, <2>3
    DEF UploadStep, DeleteStep, HeldMoves, Phases, ScopedPhases, Locks
<1>4. QED
    BY <1>1, <1>2, <1>3
    DEF TypeOK, VolumeTypeOK, ManagerTypeOK, HandleTypes, DiskTypes, TaskTypes

LEMMA BrowseType ==
    ASSUME IInv, NEW t \in Tasks, BrowseStep(t)
    PROVE  TypeOK'
<1> USE DEF IInv
<1>0. HandleTypes /\ DiskTypes /\ TaskTypes
    BY TypeParts
<1> USE DEF ListInactive, ListCheck, ListNoRoot, ListBegin, ListNoDb, ListDone, FsNotResolved,
            FsResolveDir, FsResolveFile, FsHead, FsHeadLost, FsBegin, FsIterateFails, FsSent,
            FsSendLost, FsClose, FinishPlain
<1>1. HandleTypes'
  <2>1. CASE UNCHANGED <<tables, handles>>
    BY <1>0, <2>1 DEF HandleTypes, tables, handles
  <2>2. CASE \E D \in SUBSET DirSlots, F \in SUBSET AllFiles : Acquire(t, D, F)
    BY <1>0, <2>2, AcquireType
  <2>3. CASE Release(t) \/ Forget(t)
    BY <1>0, <2>3, ReleaseType
  <2>4. FsResolveFile(t) => req[t].file \in AllFiles
    BY <1>0 DEF CanResolve, CanOpenFile, DiskTypes, AtLock
  <2>5. \A n \in Nat : \A D \in FreshDirs(n) : D \in SUBSET DirSlots
    BY DEF FreshDirs, FreeSlots
  <2>6. QED
    BY <2>1, <2>2, <2>3, <2>4, <2>5 DEF BrowseStep, AllFiles
<1>2. DiskTypes'
    BY <1>0 DEF BrowseStep, DiskTypes, disk, AllFiles
<1>3. TaskTypes'
  <2>1. CASE Finish(t) /\ HeldMoves(t) /\ UNCHANGED card
    BY <1>0, <2>1, FinishTasks
  <2>2. CASE \E x \in Phases : Goto(t, x) /\ HeldMoves(t) /\ UNCHANGED <<card, req>>
    BY <1>0, <2>2, GotoTasks
  <2>3. \A B \in SUBSET {"BUF2"} : B \in SUBSET Locks
    BY DEF Locks
  <2>4. QED
    BY <2>1, <2>2, <2>3
    DEF BrowseStep, HeldMoves, Panic, Phases, RawPhases, ScopedPhases
<1>4. QED
    BY <1>1, <1>2, <1>3
    DEF TypeOK, VolumeTypeOK, ManagerTypeOK, HandleTypes, DiskTypes, TaskTypes

LEMMA ConnectionType ==
    ASSUME IInv, NEW t \in Tasks, Accept(t) \/ Timeout(t) \/ Reconnect(t)
    PROVE  TypeOK'
<1> USE DEF IInv, Timeout, TimeoutClosing, TimeoutForgetting, Reconnect
<1>0. HandleTypes /\ DiskTypes /\ TaskTypes
    BY TypeParts
<1>1. HandleTypes'
  <2>1. CASE UNCHANGED <<tables, handles>>
    BY <1>0, <2>1 DEF HandleTypes, tables, handles
  <2>2. QED
    BY <1>0, <2>1, ReleaseType DEF Accept
<1>2. DiskTypes'
    BY <1>0 DEF Accept, DiskTypes, disk
<1>3. TaskTypes'
  <2>1. CASE Accept(t)
    <3>1. PICK op \in Routes :
              \E r \in ClientRequest(op) : req' = [req EXCEPT ![t] = r]
        BY <2>1 DEF Accept
    <3> PICK r \in ClientRequest(op) : req' = [req EXCEPT ![t] = r]
        BY <3>1
    <3>2. r \in Request
        BY RouteAssumption, ServerAssumption, VolumeAssumption
        DEF ClientRequest, Request, Ops, NamedOps, PlainOps, AllFiles
    <3>3. QED
        BY <1>0, <2>1, <3>2, GotoType DEF Accept, TaskTypes, Phases
  <2>2. CASE Timeout(t) \/ Reconnect(t)
    BY <1>0, <2>2, FinishTasks DEF HeldMoves
  <2>3. QED
    BY <2>1, <2>2
<1>4. QED
    BY <1>1, <1>2, <1>3
    DEF TypeOK, VolumeTypeOK, ManagerTypeOK, HandleTypes, DiskTypes, TaskTypes

Act(t) == Accept(t) \/ Step(t) \/ Timeout(t) \/ Reconnect(t)

LEMMA TypeStep ==
    ASSUME IInv, NEW t \in Tasks, Act(t)
    PROVE  TypeOK'
BY StreamType, UploadType, BrowseType, ConnectionType DEF Act, Step

---------------------------------------------------------------------------
\* Every step keeps the mutexes with the phases that own them.

LEMMA LockKept ==
    ASSUME IInv, NEW t \in Tasks, NEW x, Goto(t, x), UNCHANGED held,
           x \in LockedPhases <=> pc[t] \in LockedPhases
    PROVE  BuffersNeverContended'
BY TypeParts DEF IInv, TaskTypes, Goto, BuffersNeverContended

LEMMA LockTaken ==
    ASSUME IInv, NEW t \in Tasks, NEW x \in LockedPhases, Goto(t, x),
           NEW B \in SUBSET {"BUF", "BUF2"}, Lock(t, B)
    PROVE  BuffersNeverContended'
<1>1. held' = [l \in Locks |-> IF l \in B \cup {"state"} THEN t ELSE held[l]]
    BY DEF Lock
<1>2. held["state"] = NoTask /\ held["BUF"] = NoTask /\ held["BUF2"] = NoTask
    BY ServerAssumption DEF Lock, StateFree, IInv, BuffersNeverContended
<1>3. pc' = [pc EXCEPT ![t] = x] /\ pc \in [Tasks -> Phases]
    BY TypeParts DEF IInv, TaskTypes, Goto
<1>4. QED
    BY <1>1, <1>2, <1>3, ServerAssumption DEF IInv, BuffersNeverContended, Locks

LEMMA LockReleased ==
    ASSUME IInv, NEW t \in Tasks, NEW x, x \notin LockedPhases, Goto(t, x), Unlock(t)
    PROVE  BuffersNeverContended'
<1>1. held' = [l \in Locks |-> IF held[l] = t THEN NoTask ELSE held[l]]
    BY DEF Unlock
<1>2. pc' = [pc EXCEPT ![t] = x] /\ pc \in [Tasks -> Phases]
    BY TypeParts DEF IInv, TaskTypes, Goto
<1>3. held \in [Locks -> Tasks \cup {NoTask}]
    BY TypeParts DEF IInv, TaskTypes
<1>4. QED
    BY <1>1, <1>2, <1>3, ServerAssumption DEF IInv, BuffersNeverContended, Locks

LEMMA LockStep ==
    ASSUME IInv, NEW t \in Tasks, Act(t)
    PROVE  BuffersNeverContended'
<1>1. CASE UNCHANGED <<pc, held>>
    BY <1>1 DEF IInv, BuffersNeverContended
<1> DEFINE Locked(x) == x \in LockedPhases
<1>2. CASE \E x : Goto(t, x) /\ UNCHANGED held /\ (Locked(x) <=> Locked(pc[t]))
    BY <1>2, LockKept
<1>3. CASE \E x \in LockedPhases, B \in SUBSET {"BUF", "BUF2"} : Goto(t, x) /\ Lock(t, B)
    BY <1>3, LockTaken
<1>4. CASE \E x : ~Locked(x) /\ Goto(t, x) /\ Unlock(t)
    BY <1>4, LockReleased
<1> USE DEF Finish, FinishPlain, Panic, AtLock, LockedPhases, ScopedPhases
<1>5. CASE StreamStep(t)
    BY <1>5, <1>1, <1>2, <1>3, <1>4
    DEF StreamStep, RangeRefused, RangeOutOfBounds, RangeAccepted, StreamHead, StreamHeadLost,
        StreamCheck, StreamBegin, StreamNoRoot, StreamSend, StreamSendLost, StreamDone
<1>6. CASE UploadStep(t) \/ DeleteStep(t)
    BY <1>6, <1>1, <1>2, <1>3, <1>4
    DEF UploadStep, NewRefused, NewCreated, UploadEnd, ChunkRefused, ChunkBegin, ChunkWrite,
        ChunkDone, DeleteStep, DeleteLosesDbDir, DeleteRefused, DeleteFile, FsMusicDelete, DeleteDb
<1>7. CASE BrowseStep(t)
    BY <1>7, <1>1, <1>2, <1>3, <1>4
    DEF BrowseStep, ListInactive, ListCheck, ListNoRoot, ListBegin, ListNoDb, ListDone,
        FsNotResolved, FsResolveDir, FsResolveFile, FsHead, FsHeadLost, FsBegin,
        FsIterateFails, FsSent, FsSendLost, FsClose
<1>8. CASE Accept(t) \/ Timeout(t) \/ Reconnect(t)
    BY <1>8, <1>1, <1>2, <1>3, <1>4
    DEF Accept, Timeout, TimeoutClosing, TimeoutForgetting, Reconnect
<1>9. QED
    BY <1>5, <1>6, <1>7, <1>8 DEF Act, Step

---------------------------------------------------------------------------
\* Every step keeps handles with one owner.

LEMMA AcquireOnce ==
    ASSUME IInv, NEW t \in Tasks, NEW D, NEW F, Acquire(t, D, F),
           D \cap openDirs = {}, F \cap openFiles = {}
    PROVE  HandlesOwnedOnce'
BY TypeParts DEF IInv, HandleTypes, Acquire, HandlesOwnedOnce

LEMMA ReleaseOnce ==
    ASSUME IInv, NEW t \in Tasks, Release(t) \/ Forget(t)
    PROVE  HandlesOwnedOnce'
BY TypeParts DEF IInv, HandleTypes, Release, Forget, tables, HandlesOwnedOnce

LEMMA GrowOnce ==
    ASSUME IInv, UNCHANGED handles, openDirs \subseteq openDirs', openFiles \subseteq openFiles'
    PROVE  HandlesOwnedOnce'
BY DEF IInv, HandlesOwnedOnce, handles

LEMMA FreshDisjoint == \A n \in Nat : \A D \in FreshDirs(n) : D \cap openDirs = {}
BY DEF FreshDirs, FreeSlots

LEMMA HandleStep ==
    ASSUME IInv, NEW t \in Tasks, Act(t)
    PROVE  HandlesOwnedOnce'
<1>1. CASE UNCHANGED handles /\ openDirs \subseteq openDirs' /\ openFiles \subseteq openFiles'
    BY <1>1, GrowOnce
<1>2. CASE Release(t) \/ Forget(t)
    BY <1>2, ReleaseOnce
<1>3. CASE \E D, F : Acquire(t, D, F) /\ D \cap openDirs = {} /\ F \cap openFiles = {}
    BY <1>3, AcquireOnce
<1> USE DEF FinishPlain, tables
<1>4. CASE StreamStep(t)
    BY <1>4, <1>1, <1>2, <1>3
    DEF StreamStep, RangeRefused, RangeOutOfBounds, RangeAccepted, StreamHead, StreamHeadLost,
        StreamCheck, StreamBegin, StreamNoRoot, StreamSend, StreamSendLost, StreamDone,
        CanOpenForRange, CanOpenFile
<1>5. CASE UploadStep(t) \/ DeleteStep(t)
    BY <1>5, <1>1, <1>2, <1>3, FreshDisjoint
    DEF UploadStep, NewRefused, NewCreated, UploadEnd, ChunkRefused, ChunkBegin, ChunkWrite,
        ChunkDone, DeleteStep, DeleteLosesDbDir, DeleteRefused, DeleteFile, FsMusicDelete,
        DeleteDb, ChunkCanStart, CanOpenFile
<1>6. CASE BrowseStep(t)
    BY <1>6, <1>1, <1>2, <1>3, FreshDisjoint
    DEF BrowseStep, ListInactive, ListCheck, ListNoRoot, ListBegin, ListNoDb, ListDone,
        FsNotResolved, FsResolveDir, FsResolveFile, FsHead, FsHeadLost, FsBegin,
        FsIterateFails, FsSent, FsSendLost, FsClose, CanResolve, CanOpenFile, CanOpenDb, AtLock
<1>7. CASE Accept(t) \/ Timeout(t) \/ Reconnect(t)
    BY <1>7, <1>1, <1>2
    DEF Accept, Timeout, TimeoutClosing, TimeoutForgetting, Reconnect
<1>8. QED
    BY <1>4, <1>5, <1>6, <1>7 DEF Act, Step

---------------------------------------------------------------------------
\* Every step keeps open files on the card.

LEMMA ExistStep ==
    ASSUME IInv, NEW t \in Tasks, Act(t)
    PROVE  OpenFilesExist'
<1>1. CASE UNCHANGED onCard /\ openFiles' \subseteq openFiles
    BY <1>1 DEF IInv, OpenFilesExist
<1>2. CASE UNCHANGED openFiles /\ openFiles \subseteq onCard'
    BY <1>2 DEF OpenFilesExist
<1>3. CASE \E D, F : Acquire(t, D, F) /\ F \subseteq onCard' /\ onCard \subseteq onCard'
    BY <1>3 DEF IInv, OpenFilesExist, Acquire
<1> USE DEF FinishPlain, tables, disk
<1>4. CASE StreamStep(t)
    BY <1>4, <1>1, <1>3
    DEF StreamStep, RangeRefused, RangeOutOfBounds, RangeAccepted, StreamHead, StreamHeadLost,
        StreamCheck, StreamBegin, StreamNoRoot, StreamSend, StreamSendLost, StreamDone,
        CanOpenForRange, CanOpenFile, Release, Forget, IInv, OpenFilesExist
<1>5. CASE UploadStep(t) \/ DeleteStep(t)
  <2>1. openFiles \subseteq onCard
    BY DEF IInv, OpenFilesExist
  <2>2. QED
    BY <1>5, <2>1, <1>1, <1>2, <1>3
    DEF UploadStep, NewRefused, NewCreated, UploadEnd, ChunkRefused, ChunkBegin, ChunkWrite,
        ChunkDone, DeleteStep, DeleteLosesDbDir, DeleteRefused, DeleteFile, FsMusicDelete,
        DeleteDb, ChunkCanStart, CanOpenFile, CanDelete, DbOpened, Release
<1>6. CASE BrowseStep(t)
    BY <1>6, <1>1, <1>3
    DEF BrowseStep, ListInactive, ListCheck, ListNoRoot, ListBegin, ListNoDb, ListDone,
        FsNotResolved, FsResolveDir, FsResolveFile, FsHead, FsHeadLost, FsBegin,
        FsIterateFails, FsSent, FsSendLost, FsClose, CanResolve, CanOpenFile, AtLock,
        Release, Forget
<1>7. CASE Accept(t) \/ Timeout(t) \/ Reconnect(t)
    BY <1>7, <1>1
    DEF Accept, Timeout, TimeoutClosing, TimeoutForgetting, Reconnect, Release, Forget
<1>8. QED
    BY <1>4, <1>5, <1>6, <1>7 DEF Act, Step

---------------------------------------------------------------------------
\* Every step keeps what the streams have promised.

\* A step of one task leaves the other tasks' requests and handles alone.
LEMMA OthersKept ==
    ASSUME IInv, NEW t \in Tasks, Act(t), NEW s \in Tasks, s # t
    PROVE  /\ pc'[s] = pc[s] /\ req'[s] = req[s]
           /\ files'[s] = files[s] /\ dirs'[s] = dirs[s]
<1>1. TaskTypes /\ HandleTypes
    BY TypeParts DEF IInv
<1> USE <1>1 DEF TaskTypes, HandleTypes, Goto, Finish, FinishPlain, Panic, handles, Acquire,
                 Release, Forget
<1>2. CASE StreamStep(t)
    BY <1>2
    DEF StreamStep, RangeRefused, RangeOutOfBounds, RangeAccepted, StreamHead, StreamHeadLost,
        StreamCheck, StreamBegin, StreamNoRoot, StreamSend, StreamSendLost, StreamDone
<1>3. CASE UploadStep(t) \/ DeleteStep(t)
    BY <1>3
    DEF UploadStep, NewRefused, NewCreated, UploadEnd, ChunkRefused, ChunkBegin, ChunkWrite,
        ChunkDone, DeleteStep, DeleteLosesDbDir, DeleteRefused, DeleteFile, FsMusicDelete, DeleteDb
<1>4. CASE BrowseStep(t)
    BY <1>4
    DEF BrowseStep, ListInactive, ListCheck, ListNoRoot, ListBegin, ListNoDb, ListDone,
        FsNotResolved, FsResolveDir, FsResolveFile, FsHead, FsHeadLost, FsBegin,
        FsIterateFails, FsSent, FsSendLost, FsClose
<1>5. CASE Accept(t) \/ Timeout(t) \/ Reconnect(t)
    BY <1>5 DEF Accept, Timeout, TimeoutClosing, TimeoutForgetting, Reconnect
<1>6. QED
    BY <1>2, <1>3, <1>4, <1>5 DEF Act, Step

\* An open file never gets shorter.
LEMMA OpenFilesGrow ==
    ASSUME IInv, NEW t \in Tasks, Act(t), NEW f \in openFiles \cap Files
    PROVE  len[f] <= len'[f]
<1>1. len \in [Files -> 0 .. MaxLen] /\ MaxLen \in Nat /\ req \in [Tasks -> Request]
    BY TypeParts, VolumeAssumption DEF IInv, DiskTypes, TaskTypes
<1>2. CASE UNCHANGED len
    BY <1>1, <1>2
<1>3. CASE ChunkWrite(t)
    BY <1>1, <1>3 DEF ChunkWrite, Request
<1>4. CASE DeleteFile(t) \/ FsMusicDelete(t)
    BY <1>1, <1>4 DEF DeleteFile, FsMusicDelete, CanDelete
<1> USE DEF disk
<1>5. CASE StreamStep(t)
    BY <1>5, <1>2
    DEF StreamStep, RangeRefused, RangeOutOfBounds, RangeAccepted, StreamHead, StreamHeadLost,
        StreamCheck, StreamBegin, StreamNoRoot, StreamSend, StreamSendLost, StreamDone
<1>6. CASE UploadStep(t) \/ DeleteStep(t)
    BY <1>6, <1>2, <1>3, <1>4
    DEF UploadStep, NewRefused, NewCreated, UploadEnd, ChunkRefused, ChunkBegin,
        ChunkDone, DeleteStep, DeleteLosesDbDir, DeleteRefused, DeleteDb
<1>7. CASE BrowseStep(t)
    BY <1>7, <1>2
    DEF BrowseStep, ListInactive, ListCheck, ListNoRoot, ListBegin, ListNoDb, ListDone,
        FsNotResolved, FsResolveDir, FsResolveFile, FsHead, FsHeadLost, FsBegin,
        FsIterateFails, FsSent, FsSendLost, FsClose
<1>8. CASE Accept(t) \/ Timeout(t) \/ Reconnect(t)
    BY <1>8, <1>2 DEF Accept, Timeout, TimeoutClosing, TimeoutForgetting, Reconnect
<1>9. QED
    BY <1>5, <1>6, <1>7, <1>8 DEF Act, Step

\* The stepping task's own stream.
LEMMA OwnStream ==
    ASSUME IInv, NEW t \in Tasks, Act(t), pc'[t] \in StreamPhases
    PROVE  /\ req'[t].op = "stream" /\ req'[t].file = req[t].file
           /\ req[t].file \in files'[t] \cap openFiles'
           /\ req'[t].pos + req'[t].left <= len[req[t].file]
           /\ len' = len
<1>1. TaskTypes /\ HandleTypes /\ DiskTypes
    BY TypeParts DEF IInv
<1>2. ~Finish(t) /\ ~Panic(t)
    BY <1>1 DEF Finish, Panic, Goto, TaskTypes, StreamPhases
<1>3. \A x : Goto(t, x) => x \in StreamPhases
    BY <1>1 DEF Goto, TaskTypes
<1>4. CASE RangeAccepted(t)
  <2>1. req[t] \in Request /\ req[t].file \in Files
    BY <1>1, <1>4 DEF RangeAccepted, AtLock, TaskTypes, IInv, RequestsNameFiles
  <2>2. len[req[t].file] \in Nat /\ ChunkLen \in Nat /\ req[t].pos \in Nat
    BY <1>1, <2>1, ServerAssumption, VolumeAssumption DEF DiskTypes, Request
  <2>3. req'[t] = [req[t] EXCEPT !.left = MinOf(ChunkLen, len[req[t].file] - req[t].pos)]
    BY <1>1, <1>4 DEF RangeAccepted, TaskTypes
  <2>4. /\ req'[t].op = req[t].op /\ req'[t].file = req[t].file /\ req'[t].pos = req[t].pos
        /\ req'[t].left = MinOf(ChunkLen, len[req[t].file] - req[t].pos)
    BY <2>1, <2>3 DEF Request
  <2>5. req[t].op = "stream" /\ req[t].file \in files'[t] \cap openFiles' /\ len' = len
    BY <1>1, <1>4 DEF RangeAccepted, AtLock, Acquire, HandleTypes, disk
  <2>6. req'[t].pos + req'[t].left <= len[req[t].file]
    BY <2>2, <2>4 DEF MinOf
  <2>7. QED
    BY <2>4, <2>5, <2>6
<1>5. CASE StreamSend(t)
  <2>1. req[t] \in Request /\ pc[t] \in StreamPhases /\ UNCHANGED <<tables, handles, disk>>
    BY <1>1, <1>5 DEF StreamSend, TaskTypes, StreamPhases
  <2>2. req'[t] = [req[t] EXCEPT !.left = @ - 1, !.pos = @ + 1]
    BY <1>1, <1>5 DEF StreamSend, TaskTypes
  <2>3. /\ req'[t].op = req[t].op /\ req'[t].file = req[t].file
        /\ req'[t].pos = req[t].pos + 1 /\ req'[t].left = req[t].left - 1
        /\ req[t].pos \in Int /\ req[t].left \in Int
    BY <2>1, <2>2, VolumeAssumption, ServerAssumption DEF Request
  <2>4. QED
    BY <2>1, <2>3 DEF IInv, StreamsOwnTheirBytes, HandlesOwnedOnce, tables, handles, disk
<1>6. CASE StreamHead(t) \/ StreamCheck(t) \/ StreamBegin(t)
    BY <1>6 DEF StreamHead, StreamCheck, StreamBegin, tables, handles, disk, IInv, StreamPhases,
                StreamsOwnTheirBytes, HandlesOwnedOnce
<1>7. ~UploadStep(t) /\ ~DeleteStep(t)
    BY <1>2, <1>3
    DEF UploadStep, NewRefused, NewCreated, UploadEnd, ChunkRefused, ChunkBegin, ChunkWrite,
        ChunkDone, DeleteStep, DeleteLosesDbDir, DeleteRefused, DeleteFile, FsMusicDelete,
        DeleteDb, FinishPlain, StreamPhases
<1>8. ~BrowseStep(t)
    BY <1>2, <1>3
    DEF BrowseStep, ListInactive, ListCheck, ListNoRoot, ListBegin, ListNoDb, ListDone,
        FsNotResolved, FsResolveDir, FsResolveFile, FsHead, FsHeadLost, FsBegin,
        FsIterateFails, FsSent, FsSendLost, FsClose, FinishPlain, StreamPhases
<1>9. ~Accept(t) /\ ~Timeout(t) /\ ~Reconnect(t)
    BY <1>2, <1>3
    DEF Accept, Timeout, TimeoutClosing, TimeoutForgetting, Reconnect, StreamPhases
<1>10. QED
    BY <1>2, <1>4, <1>5, <1>6, <1>7, <1>8, <1>9
    DEF Act, Step, StreamStep, RangeRefused, RangeOutOfBounds, StreamHeadLost,
        StreamNoRoot, StreamSendLost, StreamDone, FinishPlain

LEMMA StreamsStep ==
    ASSUME IInv, NEW t \in Tasks, Act(t)
    PROVE  StreamsOwnTheirBytes'
<1> SUFFICES ASSUME NEW s \in Tasks, pc'[s] \in StreamPhases
             PROVE  /\ req'[s].op = "stream"
                    /\ req'[s].file \in files'[s]
                    /\ req'[s].pos + req'[s].left <= len'[req'[s].file]
    BY DEF StreamsOwnTheirBytes
<1>1. CASE s = t
    BY <1>1, OwnStream
<1>2. CASE s # t
  <2>1. pc'[s] = pc[s] /\ req'[s] = req[s] /\ files'[s] = files[s]
    BY <1>2, OthersKept
  <2>2. /\ req[s].op = "stream" /\ req[s].file \in files[s]
        /\ req[s].pos + req[s].left <= len[req[s].file]
    BY <2>1 DEF IInv, StreamsOwnTheirBytes
  <2>3. req[s].file \in openFiles \cap Files
    BY <2>2 DEF IInv, HandlesOwnedOnce, RequestsNameFiles
  <2>4. len[req[s].file] <= len'[req[s].file]
    BY <2>3, OpenFilesGrow
  <2>5. /\ req[s].pos + req[s].left \in Int
        /\ len[req[s].file] \in Int /\ len'[req[s].file] \in Int
    BY <2>3, TypeParts, TypeStep, VolumeAssumption, ServerAssumption
    DEF IInv, TaskTypes, DiskTypes, Request, TypeOK, VolumeTypeOK
  <2>6. QED
    BY <2>1, <2>2, <2>4, <2>5
<1>3. QED
    BY <1>1, <1>2

---------------------------------------------------------------------------
\* Every step keeps the request with the phase it is in.

LEMMA RequestStep ==
    ASSUME IInv, NEW t \in Tasks, Act(t)
    PROVE  /\ RequestsNameFiles'
           /\ \A s \in Tasks : pc'[s] = "receiving" => req'[s].op = "chunk"
<1>1. TaskTypes
    BY TypeParts DEF IInv
<1>2. CASE UNCHANGED req /\ \E x : Goto(t, x) /\ (x = "receiving" => req[t].op = "chunk")
    BY <1>1, <1>2 DEF Goto, TaskTypes, IInv, RequestsNameFiles
<1>3. CASE Finish(t)
    BY <1>1, <1>3 DEF Finish, Goto, NoRequest, NamedOps, TaskTypes, IInv, RequestsNameFiles
<1>4. CASE /\ UNCHANGED pc \/ \E x : x # "receiving" /\ Goto(t, x)
           /\ req'[t].op = req[t].op /\ req'[t].file = req[t].file
           /\ \A s \in Tasks \ {t} : req'[s] = req[s]
    BY <1>1, <1>4 DEF Goto, TaskTypes, IInv, RequestsNameFiles
<1>5. CASE Accept(t)
  <2>1. PICK op \in Routes :
            \E r \in ClientRequest(op) : req' = [req EXCEPT ![t] = r]
    BY <1>5 DEF Accept
  <2> PICK r \in ClientRequest(op) : req' = [req EXCEPT ![t] = r]
    BY <2>1
  <2>2. r.op \in {"stream", "chunk"} \cup NamedOps => r.file \in Files
    BY RouteAssumption DEF ClientRequest, Ops, NamedOps, PlainOps
  <2>3. QED
    BY <1>1, <1>5, <2>2 DEF Accept, Goto, TaskTypes, IInv, RequestsNameFiles
<1>6. CASE RangeAccepted(t) \/ StreamSend(t) \/ ChunkWrite(t)
  <2>1. \A s \in Tasks \ {t} : req'[s] = req[s]
    BY <1>1, <1>6 DEF RangeAccepted, StreamSend, ChunkWrite, TaskTypes
  <2>2. UNCHANGED pc \/ Goto(t, "streamHead")
    BY <1>6 DEF RangeAccepted, StreamSend, ChunkWrite
  <2>3. req[t] \in Request
    BY <1>1 DEF TaskTypes
  <2>4. req'[t].op = req[t].op /\ req'[t].file = req[t].file
    BY <1>1, <1>6, <2>3 DEF RangeAccepted, StreamSend, ChunkWrite, TaskTypes, Request
  <2>5. QED
    BY <1>4, <2>1, <2>2, <2>4
<1> USE DEF FinishPlain, Panic
<1>7. CASE StreamStep(t)
    BY <1>7, <1>2, <1>3, <1>6
    DEF StreamStep, RangeRefused, RangeOutOfBounds, StreamHead, StreamHeadLost,
        StreamCheck, StreamBegin, StreamNoRoot, StreamSendLost, StreamDone
<1>8. CASE UploadStep(t) \/ DeleteStep(t)
    BY <1>8, <1>2, <1>3, <1>6
    DEF UploadStep, NewRefused, NewCreated, UploadEnd, ChunkRefused, ChunkBegin, ChunkDone,
        DeleteStep, DeleteLosesDbDir, DeleteRefused, DeleteFile, FsMusicDelete, DeleteDb, AtLock
<1>9. CASE BrowseStep(t)
    BY <1>9, <1>2, <1>3
    DEF BrowseStep, ListInactive, ListCheck, ListNoRoot, ListBegin, ListNoDb, ListDone,
        FsNotResolved, FsResolveDir, FsResolveFile, FsHead, FsHeadLost, FsBegin,
        FsIterateFails, FsSent, FsSendLost, FsClose
<1>10. CASE Timeout(t) \/ Reconnect(t)
    BY <1>10, <1>3 DEF Timeout, TimeoutClosing, TimeoutForgetting, Reconnect
<1>11. QED
    BY <1>5, <1>7, <1>8, <1>9, <1>10 DEF Act, Step

---------------------------------------------------------------------------

LEMMA NextIInv == IInv /\ [Next]_vars => IInv'
<1> SUFFICES ASSUME IInv, [Next]_vars PROVE IInv'
    OBVIOUS
<1>1. ASSUME NEW t \in Tasks, Act(t) PROVE IInv'
    BY <1>1, TypeStep, LockStep, HandleStep, RequestStep, StreamsStep, ExistStep DEF IInv
<1>2. CASE UNCHANGED vars
    BY <1>2
    DEF vars, IInv, TypeOK, VolumeTypeOK, ManagerTypeOK, BuffersNeverContended,
        HandlesOwnedOnce, RequestsNameFiles, StreamsOwnTheirBytes, OpenFilesExist
<1>3. QED
    BY <1>1, <1>2 DEF Next, Act

LEMMA Invariance == Spec => []IInv
<1>1. QED
    BY InitIInv, NextIInv, PTL DEF Spec

\* Every variable stays in its type: no counter of a stream or of an upload
\* leaves its bounds, and every handle is one of the tables'.
THEOREM TypeCorrect == Spec => []TypeOK
<1>1. IInv => TypeOK
    BY DEF IInv
<1>2. QED
    BY <1>1, Invariance, PTL

\* http_task.rs and statics.rs: get_buf() and get_buf2() never wait, so the
\* state mutex and the buffers cannot deadlock.
THEOREM BuffersTheorem == Spec => []BuffersNeverContended
<1>1. IInv => BuffersNeverContended
    BY DEF IInv
<1>2. QED
    BY <1>1, Invariance, PTL

\* No two requests own a handle, and an owned handle is open.
THEOREM HandlesTheorem == Spec => []HandlesOwnedOnce
<1>1. IInv => HandlesOwnedOnce
    BY DEF IInv
<1>2. QED
    BY <1>1, Invariance, PTL

\* range.rs keeps its Content-Length: what it has announced stays on the card
\* until it is sent.
THEOREM PromisedBytesTheorem == Spec => []PromisedBytesOnCard
<1>1. IInv => PromisedBytesOnCard
    BY DEF IInv, PromisedBytesOnCard, StreamsOwnTheirBytes, HandlesOwnedOnce, OpenFilesExist
<1>2. QED
    BY <1>1, Invariance, PTL

=============================================================================
