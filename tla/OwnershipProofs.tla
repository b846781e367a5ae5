-------------------------- MODULE OwnershipProofs --------------------------
(***************************************************************************)
(* What a request owns in each phase; how handles get lost; and that the   *)
(* server implements FileOwnership.                                        *)
(***************************************************************************)
EXTENDS MusicServerProofs

FsPhases == {"fsHead", "fsLock", "fsSend", "fsClose"}
EmptyPhases == {"idle", "lock", "listLock", "panicked"}

\* The handles of one request.
Owns(p, r, D, F) ==
    /\ p \in EmptyPhases => D = {} /\ F = {}
    /\ p \in StreamPhases => D = {} /\ F = {r.file}
    /\ p = "receiving" => F = {r.file}
    /\ p = "listing" => F \subseteq DbFiles
    /\ p \in FsPhases /\ r.op = "fsFile" => D = {} /\ F = {r.file}
    /\ p \in FsPhases /\ r.op # "fsFile" => r.op \in {"fsRoot", "fsDir"} /\ F = {}

HandlesMatchPhases == \A t \in Tasks : Owns(pc[t], req[t], dirs[t], files[t])

\* An upload writes at or before the end of its file.
UploadsLeaveNoHole ==
    \A t \in Tasks : pc[t] = "receiving" => req[t].pos <= len[req[t].file]

OInv == IInv /\ HandlesMatchPhases /\ UploadsLeaveNoHole

LEMMA InitOInv == Init => OInv
<1> SUFFICES ASSUME Init PROVE OInv
    OBVIOUS
<1>1. IInv
    BY InitIInv
<1>2. HandlesMatchPhases /\ UploadsLeaveNoHole
    BY VolumeAssumption
    DEF Init, VolumeInit, ManagerInit, HandlesMatchPhases, Owns, StreamPhases, FsPhases, UploadsLeaveNoHole
<1>3. QED
    BY <1>1, <1>2 DEF OInv

\* The stepping task's own handles.
LEMMA OwnHandles ==
    ASSUME OInv, NEW t \in Tasks, Act(t)
    PROVE  Owns(pc'[t], req'[t], dirs'[t], files'[t])
<1>1. /\ TaskTypes /\ HandleTypes /\ NoRequest.op = "list"
      /\ Owns(pc[t], req[t], dirs[t], files[t])
    BY TypeParts DEF OInv, IInv, HandlesMatchPhases, NoRequest
<1> DEFINE Moves(x) == Goto(t, x) /\ UNCHANGED <<handles, req>>
<1>2. CASE (Release(t) \/ Forget(t)) /\ (Finish(t) \/ Panic(t))
    BY <1>1, <1>2
    DEF Owns, Release, Forget, Finish, Panic, Goto, TaskTypes, HandleTypes, EmptyPhases,
        StreamPhases, FsPhases
<1>3. CASE UNCHANGED handles /\ pc[t] \in EmptyPhases /\ pc'[t] \in EmptyPhases
    BY <1>1, <1>3 DEF Owns, handles, EmptyPhases, StreamPhases, FsPhases
<1>4. CASE \/ pc[t] \in StreamPhases /\ \E x \in StreamPhases : Moves(x)
           \/ pc[t] \in FsPhases /\ \E x \in FsPhases : Moves(x)
    BY <1>1, <1>4 DEF Owns, handles, Goto, TaskTypes, EmptyPhases, StreamPhases, FsPhases
<1>5. CASE RangeAccepted(t)
  <2>1. dirs[t] = {} /\ files[t] = {}
    BY <1>1, <1>5 DEF RangeAccepted, AtLock, Owns, EmptyPhases
  <2>2. req[t] \in Request
    BY <1>1 DEF TaskTypes
  <2>3. /\ pc'[t] = "streamHead" /\ dirs'[t] = {} /\ files'[t] = {req[t].file}
        /\ req'[t].file = req[t].file
    BY <1>1, <1>5, <2>1, <2>2 DEF RangeAccepted, Acquire, Goto, TaskTypes, HandleTypes, Request
  <2>4. QED
    BY <2>3 DEF Owns, EmptyPhases, StreamPhases, FsPhases
<1>6. CASE StreamSend(t) \/ ChunkWrite(t)
  <2>1. req[t] \in Request /\ UNCHANGED <<pc, handles>>
    BY <1>1, <1>6 DEF StreamSend, ChunkWrite, TaskTypes
  <2>2. req'[t].file = req[t].file /\ req'[t].op = req[t].op
    BY <1>1, <1>6, <2>1 DEF StreamSend, ChunkWrite, TaskTypes, Request
  <2>3. QED
    BY <1>1, <2>1, <2>2 DEF Owns, handles
<1>7. CASE ChunkBegin(t) \/ ListBegin(t) \/ ListNoDb(t) \/ FsResolveDir(t) \/ FsResolveFile(t)
  <2>1. dirs[t] = {} /\ files[t] = {} /\ UNCHANGED req
    BY <1>1, <1>7
    DEF ChunkBegin, ListBegin, ListNoDb, FsResolveDir, FsResolveFile, AtLock, Owns, EmptyPhases
  <2>2. CASE ChunkBegin(t) \/ ListBegin(t) \/ ListNoDb(t)
    BY <1>1, <2>1, <2>2
    DEF ChunkBegin, ListBegin, ListNoDb, Owns, Acquire, Goto, TaskTypes, HandleTypes,
        EmptyPhases, StreamPhases, FsPhases
  <2>3. CASE FsResolveDir(t) \/ FsResolveFile(t)
    BY <1>1, <2>1, <2>3
    DEF FsResolveDir, FsResolveFile, AtLock, Owns, Acquire, Goto, TaskTypes, HandleTypes,
        EmptyPhases, StreamPhases, FsPhases
  <2>4. QED
    BY <1>7, <2>2, <2>3
<1> USE DEF FinishPlain, Panic, AtLock
<1>8. CASE StreamStep(t)
    BY <1>1, <1>8, <1>2, <1>3, <1>4, <1>5, <1>6
    DEF StreamStep, RangeRefused, RangeOutOfBounds, StreamHead, StreamHeadLost, StreamCheck,
        StreamBegin, StreamNoRoot, StreamSendLost, StreamDone, Finish, Goto, TaskTypes,
        EmptyPhases, StreamPhases, handles
<1>9. CASE UploadStep(t) \/ DeleteStep(t)
    BY <1>1, <1>9, <1>2, <1>3, <1>6, <1>7
    DEF UploadStep, NewRefused, NewCreated, UploadEnd, ChunkRefused, ChunkDone, DeleteStep,
        DeleteLosesDbDir, DeleteRefused, DeleteFile, FsMusicDelete, DeleteDb, Finish, Goto,
        TaskTypes, EmptyPhases
<1>10. CASE BrowseStep(t)
    BY <1>1, <1>10, <1>2, <1>3, <1>4, <1>7
    DEF BrowseStep, ListInactive, ListCheck, ListNoRoot, ListDone, FsNotResolved, FsHead,
        FsHeadLost, FsBegin, FsIterateFails, FsSent, FsSendLost, FsClose, Finish, Goto,
        TaskTypes, EmptyPhases, FsPhases, handles
<1>11. CASE Accept(t) \/ Timeout(t) \/ Reconnect(t)
    BY <1>1, <1>11, <1>2, <1>3
    DEF Accept, Timeout, TimeoutClosing, TimeoutForgetting, Reconnect, Finish, Goto,
        TaskTypes, EmptyPhases
<1>12. QED
    BY <1>8, <1>9, <1>10, <1>11 DEF Act, Step

LEMMA HandlesMatchStep ==
    ASSUME OInv, NEW t \in Tasks, Act(t)
    PROVE  HandlesMatchPhases'
<1> SUFFICES ASSUME NEW s \in Tasks
             PROVE  Owns(pc'[s], req'[s], dirs'[s], files'[s])
    BY DEF HandlesMatchPhases
<1>1. CASE s = t
    BY <1>1, OwnHandles
<1>2. CASE s # t
    BY <1>2, OthersKept DEF OInv, HandlesMatchPhases
<1>3. QED
    BY <1>1, <1>2

LEMMA HolesStep ==
    ASSUME OInv, NEW t \in Tasks, Act(t)
    PROVE  UploadsLeaveNoHole'
<1> SUFFICES ASSUME NEW s \in Tasks, pc'[s] = "receiving"
             PROVE  req'[s].pos <= len'[req'[s].file]
    BY DEF UploadsLeaveNoHole
<1>1. TaskTypes /\ DiskTypes /\ VolumeAssumption
    BY TypeParts, VolumeAssumption DEF OInv, IInv
<1>2. CASE s # t
  <2>1. pc[s] = "receiving" /\ req'[s] = req[s]
    BY <1>2, OthersKept DEF OInv
  <2>2. req[s].file \in openFiles \cap Files /\ req[s].pos <= len[req[s].file]
    BY <2>1
    DEF OInv, IInv, HandlesMatchPhases, Owns, HandlesOwnedOnce, RequestsNameFiles, UploadsLeaveNoHole
  <2>3. len[req[s].file] <= len'[req[s].file]
    BY <2>2, OpenFilesGrow DEF OInv
  <2>4. req[s].pos \in Int /\ len[req[s].file] \in Int /\ len'[req[s].file] \in Int
    BY <1>1, <2>2, TypeStep
    DEF OInv, TaskTypes, DiskTypes, Request, TypeOK, VolumeTypeOK, VolumeAssumption
  <2>5. QED
    BY <2>1, <2>2, <2>3, <2>4
<1>3. CASE s = t /\ ChunkBegin(t)
    BY <1>3 DEF ChunkBegin, ChunkCanStart, disk
<1>4. CASE s = t /\ ChunkWrite(t)
  <2>1. req[t] \in Request /\ req[t].file \in Files /\ req[t].pos <= len[req[t].file]
    BY <1>1, <1>4
    DEF ChunkWrite, TaskTypes, OInv, IInv, RequestsNameFiles, UploadsLeaveNoHole
  <2>2. req'[t] = [req[t] EXCEPT !.pos = @ + 1]
    BY <1>1, <1>4 DEF ChunkWrite, TaskTypes
  <2>3. req'[t].pos = req[t].pos + 1 /\ req'[t].file = req[t].file /\ req[t].pos \in Int
    BY <1>1, <2>1, <2>2 DEF Request, VolumeAssumption
  <2>4. len'[req[t].file] =
            IF len[req[t].file] > req[t].pos THEN len[req[t].file] ELSE req[t].pos + 1
    BY <1>1, <1>4, <2>1 DEF ChunkWrite, DiskTypes
  <2>5. len[req[t].file] \in Int
    BY <1>1, <2>1 DEF DiskTypes, VolumeAssumption
  <2>6. QED
    BY <1>4, <2>3, <2>4, <2>5
<1>5. ~ChunkBegin(t) /\ ~ChunkWrite(t) => pc'[t] # "receiving"
  <2> SUFFICES ASSUME ~ChunkBegin(t), ~ChunkWrite(t)
               PROVE  pc'[t] # "receiving"
    OBVIOUS
  <2> USE <1>1 DEF TaskTypes, Goto, Finish, FinishPlain, Panic
  <2>1. CASE StreamStep(t)
    BY <2>1
    DEF StreamStep, RangeRefused, RangeOutOfBounds, RangeAccepted, StreamHead, StreamHeadLost,
        StreamCheck, StreamBegin, StreamNoRoot, StreamSend, StreamSendLost, StreamDone
  <2>2. CASE UploadStep(t) \/ DeleteStep(t)
    BY <2>2
    DEF UploadStep, NewRefused, NewCreated, UploadEnd, ChunkRefused, ChunkDone, DeleteStep,
        DeleteLosesDbDir, DeleteRefused, DeleteFile, FsMusicDelete, DeleteDb
  <2>3. CASE BrowseStep(t)
    BY <2>3
    DEF BrowseStep, ListInactive, ListCheck, ListNoRoot, ListBegin, ListNoDb, ListDone,
        FsNotResolved, FsResolveDir, FsResolveFile, FsHead, FsHeadLost, FsBegin,
        FsIterateFails, FsSent, FsSendLost, FsClose
  <2>4. CASE Accept(t) \/ Timeout(t) \/ Reconnect(t)
    BY <2>4 DEF Accept, Timeout, TimeoutClosing, TimeoutForgetting, Reconnect
  <2>5. QED
    BY <2>1, <2>2, <2>3, <2>4 DEF Act, Step
<1>6. QED
    BY <1>2, <1>3, <1>4, <1>5

LEMMA NextOInv == OInv /\ [Next]_vars => OInv'
<1> SUFFICES ASSUME OInv, [Next]_vars PROVE OInv'
    OBVIOUS
<1>1. IInv'
    BY NextIInv DEF OInv
<1>2. ASSUME NEW t \in Tasks, Act(t) PROVE OInv'
    BY <1>1, <1>2, HandlesMatchStep, HolesStep DEF OInv
<1>3. CASE UNCHANGED vars
    BY <1>1, <1>3 DEF vars, OInv, HandlesMatchPhases, UploadsLeaveNoHole
<1>4. QED
    BY <1>2, <1>3 DEF Next, Act

LEMMA OwnershipInvariance == Spec => []OInv
<1>1. QED
    BY InitOInv, NextOInv, PTL DEF Spec

---------------------------------------------------------------------------
\* How handles get lost.

AcquiresFresh(t) ==
    \E D, F : Acquire(t, D, F) /\ D \cap openDirs = {} /\ F \cap openFiles = {}

LEMMA Effects ==
    ASSUME OInv, NEW t \in Tasks, Act(t)
    PROVE  \/ UNCHANGED <<tables, handles>>
           \/ AcquiresFresh(t)
           \/ Release(t)
           \/ Forget(t) /\ pc[t] \in RawPhases /\ Ends(t)
           \/ RangeOutOfBounds(t)
           \/ DeleteLosesDbDir(t)
<1>1. TaskTypes
    BY TypeParts DEF OInv, IInv
<1> USE DEF FinishPlain
<1>2. CASE StreamStep(t)
    BY <1>1, <1>2
    DEF StreamStep, RangeRefused, RangeAccepted, StreamHead, StreamHeadLost, StreamCheck,
        StreamBegin, StreamNoRoot, StreamSend, StreamSendLost, StreamDone, CanOpenForRange,
        CanOpenFile, AcquiresFresh, RawPhases, Ends, Finish, Panic, Goto, TaskTypes
<1>3. CASE UploadStep(t) \/ DeleteStep(t)
    BY <1>3, FreshDisjoint
    DEF UploadStep, NewRefused, NewCreated, UploadEnd, ChunkRefused, ChunkBegin, ChunkWrite,
        ChunkDone, DeleteStep, DeleteRefused, DeleteFile, FsMusicDelete, DeleteDb,
        ChunkCanStart, CanOpenFile, AcquiresFresh
<1>4. CASE BrowseStep(t)
    BY <1>1, <1>4, FreshDisjoint
    DEF BrowseStep, ListInactive, ListCheck, ListNoRoot, ListBegin, ListNoDb, ListDone,
        FsNotResolved, FsResolveDir, FsResolveFile, FsHead, FsHeadLost, FsBegin,
        FsIterateFails, FsSent, FsSendLost, FsClose, CanResolve, CanOpenFile, CanOpenDb, AtLock,
        AcquiresFresh, RawPhases, Ends, Finish, Panic, Goto, TaskTypes
<1>5. CASE Accept(t) \/ Timeout(t) \/ Reconnect(t)
    BY <1>1, <1>5
    DEF Accept, Timeout, TimeoutClosing, TimeoutForgetting, Reconnect, Pending, Ends, Finish,
        Goto, TaskTypes
<1>6. QED
    BY <1>2, <1>3, <1>4, <1>5 DEF Act, Step

LEMMA LeaksKept ==
    ASSUME OInv, NEW t \in Tasks, Act(t)
    PROVE  LeakedDirs \subseteq LeakedDirs' /\ LeakedFiles \subseteq LeakedFiles'
<1>1. HandleTypes
    BY TypeParts DEF OInv, IInv
<1>2. CASE UNCHANGED <<tables, handles>>
    BY <1>2 DEF LeakedDirs, LeakedFiles, tables, handles
<1>3. CASE AcquiresFresh(t)
    BY <1>1, <1>3 DEF LeakedDirs, LeakedFiles, HandleTypes, AcquiresFresh, Acquire
<1>4. CASE Release(t) \/ Forget(t)
    BY <1>1, <1>4 DEF LeakedDirs, LeakedFiles, HandleTypes, Release, Forget, tables
<1>5. CASE RangeOutOfBounds(t) \/ DeleteLosesDbDir(t)
    BY <1>5 DEF LeakedDirs, LeakedFiles, RangeOutOfBounds, DeleteLosesDbDir, handles
<1>6. QED
    BY <1>2, <1>3, <1>4, <1>5, Effects

LEMMA LeaksCaused ==
    ASSUME OInv, NEW t \in Tasks, Act(t)
    PROVE  /\ \A f \in LeakedFiles' \ LeakedFiles :
                  Ends(t) /\ req[t].op \in {"stream", "fsFile"} /\ req[t].file = f
           /\ LeakedDirs' \ LeakedDirs # {} =>
                  Ends(t) /\ req[t].op \in {"fsRoot", "fsDir", "delete"}
<1>1. TaskTypes /\ HandleTypes /\ Owns(pc[t], req[t], dirs[t], files[t])
    BY TypeParts DEF OInv, IInv, HandlesMatchPhases
<1>2. CASE UNCHANGED <<tables, handles>>
    BY <1>2 DEF LeakedDirs, LeakedFiles, tables, handles
<1>3. CASE AcquiresFresh(t)
    BY <1>1, <1>3 DEF LeakedDirs, LeakedFiles, HandleTypes, AcquiresFresh, Acquire
<1>4. CASE Release(t)
    BY <1>1, <1>4 DEF LeakedDirs, LeakedFiles, HandleTypes, Release
<1>5. CASE Forget(t) /\ pc[t] \in RawPhases /\ Ends(t)
  <2>1. LeakedDirs' \subseteq LeakedDirs \cup dirs[t] /\ LeakedFiles' \subseteq LeakedFiles \cup files[t]
    BY <1>1, <1>5 DEF LeakedDirs, LeakedFiles, HandleTypes, Forget, tables
  <2>2. \/ dirs[t] = {} /\ files[t] = {req[t].file} /\ req[t].op \in {"stream", "fsFile"}
        \/ files[t] = {} /\ req[t].op \in {"fsRoot", "fsDir"}
    BY <1>1, <1>5
    DEF Owns, RawPhases, StreamPhases, FsPhases, OInv, IInv, StreamsOwnTheirBytes
  <2>3. QED
    BY <1>5, <2>1, <2>2
<1>6. CASE RangeOutOfBounds(t) \/ DeleteLosesDbDir(t)
  <2>1. Ends(t)
    BY <1>1, <1>6 DEF RangeOutOfBounds, DeleteLosesDbDir, AtLock, Ends, Finish, Goto, TaskTypes
  <2>2. QED
    BY <1>6, <2>1
    DEF RangeOutOfBounds, DeleteLosesDbDir, AtLock, LeakedDirs, LeakedFiles, handles
<1>7. QED
    BY <1>2, <1>3, <1>4, <1>5, <1>6, Effects

\* A handle that was lost stays lost: nothing in the server gives an entry of
\* the volume manager's tables back once no request owns it.
THEOREM LeaksAreForeverTheorem == Spec => LeaksAreForever
<1> DEFINE Kept == LeakedDirs \subseteq LeakedDirs' /\ LeakedFiles \subseteq LeakedFiles'
<1>1. OInv /\ [Next]_vars => [Kept]_vars
    BY LeaksKept DEF Next, Act
<1>2. QED
    BY <1>1, OwnershipInvariance, PTL DEF Spec, LeaksAreForever

\* The only ways to lose a handle: a /stream or /fs request ends with the file
\* it opened, an /fs or /delete request ends with a directory.
THEOREM LeaksHaveOneCauseTheorem == Spec => LeaksHaveOneCause
<1> DEFINE Caused ==
      /\ \A f \in LeakedFiles' \ LeakedFiles : \E t \in Tasks :
             Ends(t) /\ req[t].op \in {"stream", "fsFile"} /\ req[t].file = f
      /\ LeakedDirs' \ LeakedDirs # {} => \E t \in Tasks :
             Ends(t) /\ req[t].op \in {"fsRoot", "fsDir", "delete"}
<1>1. OInv /\ [Next]_vars => [Caused]_vars
    BY LeaksCaused DEF Next, Act
<1>2. QED
    BY <1>1, OwnershipInvariance, PTL DEF Spec, LeaksHaveOneCause

---------------------------------------------------------------------------
\* The server implements FileOwnership.

OwnedOnce(f, open, own) ==
    /\ \A t \in Tasks : f \in own[t] => f \in open
    /\ \A s, t \in Tasks : f \in own[s] /\ f \in own[t] => s = t

LEMMA OwnerFacts ==
    ASSUME NEW f, NEW open, NEW own, OwnedOnce(f, open, own)
    PROVE  /\ f \notin open => OwnerOf(f, open, own) = NoTask
           /\ \A t \in Tasks : f \in own[t] => OwnerOf(f, open, own) = t
           /\ f \in open /\ (\A t \in Tasks : f \notin own[t]) => OwnerOf(f, open, own) = NoFile
<1>1. ASSUME NEW t \in Tasks, f \in own[t] PROVE OwnerOf(f, open, own) = t
  <2> DEFINE c == CHOOSE s \in Tasks : f \in own[s]
  <2>1. c \in Tasks /\ f \in own[c]
    BY <1>1
  <2>2. c = t
    BY <1>1, <2>1 DEF OwnedOnce
  <2>3. OwnerOf(f, open, own) = c
    BY <1>1 DEF OwnerOf, OwnedOnce
  <2>4. QED
    BY <2>2, <2>3
<1>2. QED
    BY <1>1 DEF OwnerOf

LEMMA SameOwner ==
    ASSUME NEW f, NEW open, NEW own, NEW open2, NEW own2,
           OwnedOnce(f, open, own), OwnedOnce(f, open2, own2),
           f \in open <=> f \in open2,
           \A t \in Tasks : f \in own[t] <=> f \in own2[t]
    PROVE  OwnerOf(f, open, own) = OwnerOf(f, open2, own2)
<1>1. CASE f \notin open
    BY <1>1, OwnerFacts
<1>2. CASE \E t \in Tasks : f \in own[t]
    BY <1>2, OwnerFacts
<1>3. CASE f \in open /\ \A t \in Tasks : f \notin own[t]
    BY <1>3, OwnerFacts
<1>4. QED
    BY <1>1, <1>2, <1>3

LEMMA Owned ==
    /\ OInv => \A f : OwnedOnce(f, openFiles, files)
    /\ OInv' => \A f : OwnedOnce(f, openFiles', files')
BY DEF OInv, IInv, HandlesOwnedOnce, OwnedOnce

\* A request owns at most one uploaded file.
LEMMA OneFile ==
    ASSUME NEW p \in Phases, NEW r, NEW D, NEW F, Owns(p, r, D, F)
    PROVE  \E f : F \cap Files \subseteq {f}
BY VolumeAssumption
DEF Owns, Phases, RawPhases, ScopedPhases, EmptyPhases, StreamPhases, FsPhases

FilesKept == onCard' \cap Files = onCard \cap Files /\ UNCHANGED len
\* The file f changes hands, if any does.
OnlyFile(f) == \A g \in Files \ {f} :
    (g \in openFiles <=> g \in openFiles') /\ \A s \in Tasks : g \in files[s] <=> g \in files'[s]

LEMMA Handed ==
    ASSUME OInv, OInv', FilesKept, NEW f \in Files, f \in onCard, OnlyFile(f)
    PROVE  Ownership!Hand(f, OwnerOf(f, openFiles, files), OwnerOf(f, openFiles', files'))
<1>1. \A g \in Files \ {f} : OwnerOf(g, openFiles, files) = OwnerOf(g, openFiles', files')
    BY SameOwner, Owned DEF OnlyFile
<1>2. FileOwner' = [FileOwner EXCEPT ![f] = OwnerOf(f, openFiles', files')]
    BY <1>1 DEF FileOwner
<1>3. QED
    BY <1>2 DEF Ownership!Hand, FileOwner, FilesKept

LEMMA Unhanded ==
    ASSUME OInv, OInv', \A f \in Files : (f \in openFiles <=> f \in openFiles')
                            /\ \A s \in Tasks : f \in files[s] <=> f \in files'[s]
    PROVE  UNCHANGED FileOwner
<1>1. \A g \in Files : OwnerOf(g, openFiles, files) = OwnerOf(g, openFiles', files')
    BY SameOwner, Owned
<1>2. QED
    BY <1>1 DEF FileOwner

LEMMA DiskEffects ==
    ASSUME OInv, NEW t \in Tasks, Act(t)
    PROVE  \/ FilesKept
           \/ (ChunkWrite(t) \/ NewCreated(t) \/ DeleteFile(t) \/ FsMusicDelete(t))
              /\ UNCHANGED <<tables, handles>>
<1> USE VolumeAssumption DEF FilesKept, disk, FinishPlain
<1>1. CASE StreamStep(t)
    BY <1>1
    DEF StreamStep, RangeRefused, RangeOutOfBounds, RangeAccepted, StreamHead, StreamHeadLost,
        StreamCheck, StreamBegin, StreamNoRoot, StreamSend, StreamSendLost, StreamDone
<1>2. CASE UploadStep(t) \/ DeleteStep(t)
    BY <1>2
    DEF UploadStep, NewRefused, NewCreated, UploadEnd, ChunkRefused, ChunkBegin, ChunkWrite,
        ChunkDone, DeleteStep, DeleteLosesDbDir, DeleteRefused, DeleteFile, FsMusicDelete,
        DeleteDb, DbOpened
<1>3. CASE BrowseStep(t)
    BY <1>3
    DEF BrowseStep, ListInactive, ListCheck, ListNoRoot, ListBegin, ListNoDb, ListDone,
        FsNotResolved, FsResolveDir, FsResolveFile, FsHead, FsHeadLost, FsBegin,
        FsIterateFails, FsSent, FsSendLost, FsClose
<1>4. CASE Accept(t) \/ Timeout(t) \/ Reconnect(t)
    BY <1>4 DEF Accept, Timeout, TimeoutClosing, TimeoutForgetting, Reconnect
<1>5. QED
    BY <1>1, <1>2, <1>3, <1>4 DEF Act, Step

ownership == <<FileOwner, onCard \cap Files, len>>

\* Requests that open or close what they own.
LEMMA HandlesMapped ==
    ASSUME OInv, OInv', FilesKept, NEW t \in Tasks,
           AcquiresFresh(t) \/ Release(t) \/ Forget(t)
    PROVE  [Ownership!Next]_ownership
<1>1. HandleTypes /\ pc[t] \in Phases /\ pc'[t] \in Phases
    BY TypeParts DEF OInv, IInv, TypeOK, ManagerTypeOK
<1>2. PICK f, g : files[t] \cap Files \subseteq {f} /\ files'[t] \cap Files \subseteq {g}
  <2>1. \E f : files[t] \cap Files \subseteq {f}
    BY <1>1, OneFile DEF OInv, HandlesMatchPhases
  <2>2. Owns(pc'[t], req'[t], dirs'[t], files'[t])
    BY DEF OInv, HandlesMatchPhases
  <2>3. \E g : files'[t] \cap Files \subseteq {g}
    BY <1>1, <2>2, OneFile
  <2>4. QED
    BY <2>1, <2>3
<1>3. /\ \A s \in Tasks : files[s] \subseteq openFiles /\ (s # t => files[s] \cap files[t] = {})
      /\ openFiles \subseteq onCard /\ openFiles' \subseteq onCard'
    BY DEF OInv, IInv, HandlesOwnedOnce, OpenFilesExist
<1>4. CASE AcquiresFresh(t)
  <2>1. PICK F : /\ F \cap openFiles = {} /\ openFiles' = openFiles \cup F
                 /\ files' = [files EXCEPT ![t] = @ \cup F]
    BY <1>4 DEF AcquiresFresh, Acquire
  <2>2. files'[t] = files[t] \cup F /\ \A s \in Tasks \ {t} : files'[s] = files[s]
    BY <1>1, <2>1 DEF HandleTypes
  <2>3. CASE F \cap Files = {}
    BY <2>1, <2>2, <2>3, Unhanded DEF ownership, FilesKept
  <2>4. CASE F \cap Files # {}
    <3>1. g \in F \cap Files /\ F \cap Files = {g}
      BY <1>2, <2>2, <2>4
    <3>2. g \in onCard /\ g \notin openFiles
      BY <1>3, <2>1, <3>1 DEF FilesKept
    <3>3. OnlyFile(g)
      BY <2>1, <2>2, <3>1 DEF OnlyFile
    <3>4. OwnerOf(g, openFiles, files) = NoTask /\ OwnerOf(g, openFiles', files') = t
      BY <2>2, <3>1, <3>2, Owned, OwnerFacts
    <3>5. Ownership!Open(t, g)
      BY <3>1, <3>2, <3>3, <3>4, Handed DEF Ownership!Open
    <3>6. QED
      BY <3>1, <3>5 DEF Ownership!Next
  <2>5. QED
    BY <2>3, <2>4
<1>5. CASE Release(t) \/ Forget(t)
  <2>1. files'[t] = {} /\ \A s \in Tasks \ {t} : files'[s] = files[s]
    BY <1>1, <1>5 DEF HandleTypes, Release, Forget
  <2>2. openFiles' = openFiles \/ openFiles' = openFiles \ files[t]
    BY <1>5 DEF Release, Forget, tables
  <2>3. CASE files[t] \cap Files = {}
    BY <2>1, <2>2, <2>3, Unhanded DEF ownership, FilesKept
  <2>4. CASE files[t] \cap Files # {}
    <3>1. f \in Files /\ f \in files[t] /\ files[t] \cap Files = {f}
      BY <1>2, <2>4
    <3>2. f \in onCard /\ f \in openFiles
      BY <1>3, <3>1
    <3>3. OnlyFile(f)
      BY <2>1, <2>2, <3>1 DEF OnlyFile
    <3>4. OwnerOf(f, openFiles, files) = t
      BY <3>1, Owned, OwnerFacts
    <3>5. CASE openFiles' = openFiles
      <4>1. \A s \in Tasks : f \notin files'[s]
        BY <1>3, <2>1, <3>1
      <4>2. OwnerOf(f, openFiles', files') = NoFile
        BY <3>2, <3>5, <4>1, Owned, OwnerFacts
      <4>3. Ownership!Lose(f)
        BY <3>1, <3>2, <3>3, <3>4, <4>2, Handed DEF Ownership!Lose
      <4>4. QED
        BY <3>1, <4>3 DEF Ownership!Next
    <3>6. CASE openFiles' = openFiles \ files[t]
      <4>1. OwnerOf(f, openFiles', files') = NoTask
        BY <3>1, <3>6, Owned, OwnerFacts
      <4>2. Ownership!Close(t, f)
        BY <3>1, <3>2, <3>3, <3>4, <4>1, Handed DEF Ownership!Close
      <4>3. QED
        BY <3>1, <4>2 DEF Ownership!Next
    <3>7. QED
      BY <2>2, <3>5, <3>6
  <2>5. QED
    BY <2>3, <2>4
<1>6. QED
    BY <1>4, <1>5

\* Writing, creating and deleting files.
LEMMA DiskMapped ==
    ASSUME OInv, OInv', NEW t \in Tasks, UNCHANGED <<tables, handles>>,
           ChunkWrite(t) \/ NewCreated(t) \/ DeleteFile(t) \/ FsMusicDelete(t)
    PROVE  [Ownership!Next]_ownership
<1> DEFINE f == req[t].file
<1>1. UNCHANGED FileOwner
    BY DEF FileOwner, tables, handles
<1>2. f \in Files
  <2>1. req[t].op \in {"chunk"} \cup NamedOps
    BY DEF ChunkWrite, NewCreated, DeleteFile, FsMusicDelete, AtLock, NamedOps, OInv, IInv
  <2>2. QED
    BY <2>1 DEF OInv, IInv, RequestsNameFiles
<1>3. len \in [Files -> Nat]
    BY TypeParts, VolumeAssumption DEF OInv, IInv, DiskTypes
<1>4. f \notin openFiles => FileOwner[f] = NoTask
    BY <1>2, Owned, OwnerFacts DEF FileOwner
<1>5. CASE ChunkWrite(t)
  <2>1. f \in files[t] /\ req[t].pos <= len[f]
    BY <1>5 DEF ChunkWrite, OInv, HandlesMatchPhases, Owns, UploadsLeaveNoHole
  <2>2. FileOwner[f] = t /\ f \in onCard
    BY <1>2, <2>1, Owned, OwnerFacts
    DEF FileOwner, OInv, IInv, HandlesOwnedOnce, OpenFilesExist
  <2>3. req[t].pos \in Nat
    BY TypeParts, VolumeAssumption DEF OInv, IInv, TaskTypes, Request
  <2>4. /\ UNCHANGED onCard
        /\ len' = [len EXCEPT ![f] = IF @ > req[t].pos THEN @ ELSE req[t].pos + 1]
    BY <1>5 DEF ChunkWrite
  <2>5. CASE len[f] > req[t].pos
    BY <1>1, <1>3, <2>4, <2>5 DEF ownership
  <2>6. CASE len[f] = req[t].pos
    <3>1. len' = [len EXCEPT ![f] = @ + 1]
      <4>1. (IF len[f] > req[t].pos THEN len[f] ELSE req[t].pos + 1) = len[f] + 1
        BY <2>3, <2>6
      <4>2. QED
        BY <2>4, <4>1
    <3>2. Ownership!Grow(t, f)
      BY <1>1, <1>2, <2>2, <2>4, <3>1 DEF Ownership!Grow
    <3>3. QED
      BY <1>2, <3>2 DEF Ownership!Next
  <2>7. QED
    BY <1>2, <1>3, <2>1, <2>3, <2>5, <2>6
<1>6. CASE NewCreated(t)
  <2>1. f \notin onCard /\ f \notin openFiles
    BY <1>2, <1>6
    DEF NewCreated, NewCanCreate, OInv, IInv, OpenFilesExist
  <2>2. onCard' \cap Files = (onCard \cap Files) \cup {f} /\ UNCHANGED len
    BY <1>2, <1>6, VolumeAssumption DEF NewCreated
  <2>3. QED
    BY <1>1, <1>2, <1>4, <2>1, <2>2 DEF Ownership!Next, Ownership!Create
<1>7. CASE UNCHANGED <<onCard, len>>
    BY <1>1, <1>7 DEF ownership
<1>8. CASE /\ CanDelete(f) /\ len' = [len EXCEPT ![f] = 0]
           /\ onCard' \cap Files = (onCard \cap Files) \ {f}
    BY <1>1, <1>2, <1>4, <1>8 DEF CanDelete, Ownership!Next, Ownership!Remove
<1>9. QED
    BY <1>5, <1>6, <1>7, <1>8, VolumeAssumption DEF DeleteFile, FsMusicDelete

\* start >= total_len: the file is lost the moment it is opened.
LEMMA LossMapped ==
    ASSUME OInv, OInv', FilesKept, NEW t \in Tasks, RangeOutOfBounds(t)
    PROVE  [Ownership!Next]_ownership
<1> DEFINE f == req[t].file
<1>1. f \in Files /\ f \in onCard /\ f \notin openFiles
    BY DEF RangeOutOfBounds, AtLock, CanOpenForRange, CanOpenFile, OInv, IInv, RequestsNameFiles
<1>2. openFiles' = openFiles \cup {f} /\ UNCHANGED files
    BY DEF RangeOutOfBounds, handles
<1>3. \A s \in Tasks : f \notin files'[s]
    BY <1>1, <1>2 DEF OInv, IInv, HandlesOwnedOnce
<1>4. OwnerOf(f, openFiles, files) = NoTask /\ OwnerOf(f, openFiles', files') = NoFile
    BY <1>1, <1>2, <1>3, Owned, OwnerFacts
<1>5. OnlyFile(f)
    BY <1>2 DEF OnlyFile
<1>6. Ownership!Hand(f, NoTask, NoFile)
    BY <1>1, <1>4, <1>5, Handed
<1>7. QED
    BY <1>1, <1>6 DEF Ownership!Next, Ownership!Lose

LEMMA InitMapped == Init => Ownership!Init
BY VolumeAssumption
DEF Init, VolumeInit, ManagerInit, Ownership!Init, FileOwner, OwnerOf

LEMMA StepMapped ==
    ASSUME OInv, OInv', NEW t \in Tasks, Act(t)
    PROVE  [Ownership!Next]_ownership
<1>1. CASE FilesKept
  <2>1. CASE UNCHANGED files /\ UNCHANGED openFiles
    BY <1>1, <2>1 DEF FileOwner, ownership, FilesKept
  <2>2. CASE AcquiresFresh(t) \/ Release(t) \/ Forget(t)
    BY <1>1, <2>2, HandlesMapped
  <2>3. CASE RangeOutOfBounds(t)
    BY <1>1, <2>3, LossMapped
  <2>4. UNCHANGED <<tables, handles>> \/ DeleteLosesDbDir(t) => UNCHANGED files /\ UNCHANGED openFiles
    BY DEF tables, handles, DeleteLosesDbDir
  <2>5. QED
    BY <2>1, <2>2, <2>3, <2>4, Effects
<1>2. QED
    BY <1>1, DiskMapped, DiskEffects

\* The server implements FileOwnership: for every file, the requests, the
\* timeouts and the failures of all tasks together only open it when it is
\* closed, write it while they have it open, create and delete it while nobody
\* has it open, or lose it for good.
THEOREM FilesHaveOneOwnerTheorem == Spec => FilesHaveOneOwner
<1>1. OInv /\ OInv' /\ [Next]_vars => [Ownership!Next]_ownership
  <2> SUFFICES ASSUME OInv, OInv', [Next]_vars PROVE [Ownership!Next]_ownership
    OBVIOUS
  <2>1. CASE UNCHANGED vars
    BY <2>1 DEF vars, FileOwner, ownership
  <2>2. QED
    BY <2>1, StepMapped DEF Next, Act
<1>2. QED
    BY <1>1, InitMapped, OwnershipInvariance, PTL
    DEF Spec, FilesHaveOneOwner, Ownership!Spec, ownership

=============================================================================
