---------------------------- MODULE FileManager ----------------------------
(***************************************************************************)
(* file_manager/src/lib.rs: the mutex around the volume manager, the state *)
(* of the card, and what a request that runs in an HTTP task holds between *)
(* two await points.  Code between two awaits runs without interruption    *)
(* (one cooperative executor), so it is one action.                        *)
(***************************************************************************)
EXTENDS VolumeManager

CONSTANTS
    Tasks,      \* the HTTP tasks that serve connections
    NoTask,     \* "no task holds this mutex"
    NoFile,     \* "this request names no file"
    Faults,     \* what may go wrong, a subset of FaultKinds
    ChunkLen    \* buffers of BUF_SIZE bytes in one 16 KiB answer

FaultKinds == {"timeout",   \* the 10 s with_timeout around serve() expires
               "write",     \* the client is gone: a socket write fails
               "io",        \* the card fails to read or iterate
               "range"}     \* a client asks for a range at or after the end

ASSUME ServerAssumption ==
    /\ IsFiniteSet(Tasks) /\ NoTask \notin Tasks /\ NoFile \notin AllFiles
    /\ Faults \subseteq FaultKinds
    /\ ChunkLen \in Nat \ {0}

VARIABLES
    card,   \* FileManagerState.card_state, as FileManager::new left it
    held,   \* the holder of each mutex
    pc,     \* where each task's request is suspended
    req,    \* the request each task serves
    dirs,   \* the directory handles its future owns
    files   \* the file handles its future owns

vars == <<openDirs, openFiles, onCard, len, used, card, held, pc, req, dirs, files>>
handles == <<dirs, files>>

\* FileManager.state, and the two static buffers of server/src/statics.rs.
Locks == {"state", "BUF", "BUF2"}

\* Suspended with raw handles that nothing closes on drop ...
RawPhases == {"streamHead", "streamCheck", "streamLock",
              "fsHead", "fsLock", "fsSend", "fsClose"}
\* ... and with handles that close themselves.
ScopedPhases == {"streaming", "receiving", "listing"}
\* Suspended with the state mutex held, and suspended waiting for it.
LockedPhases == ScopedPhases \cup {"fsSend"}
WaitPhases == {"lock", "streamCheck", "streamLock", "listLock", "fsLock", "fsClose"}
Phases == {"idle", "listLock", "lock", "panicked"} \cup RawPhases \cup ScopedPhases

NamedOps == {"new", "end", "delete", "fsMusicDelete"}
PlainOps == {"list", "deleteDb", "fsRoot", "fsDir"}
FsOps == {"fsRoot", "fsDir", "fsFile"}
Ops == {"stream", "chunk", "fsFile"} \cup NamedOps \cup PlainOps

\* A request: its route, the file it names, the position it starts at, and
\* the buffers a stream has promised but not yet sent.
Request == [op : Ops, file : AllFiles \cup {NoFile},
            pos : 0 .. MaxLen, left : 0 .. ChunkLen]
NoRequest == [op |-> "list", file |-> NoFile, pos |-> 0, left |-> 0]

ManagerTypeOK ==
    /\ card \in {"NoCard", "Active"}
    /\ held \in [Locks -> Tasks \cup {NoTask}]
    /\ pc \in [Tasks -> Phases]
    /\ req \in [Tasks -> Request]
    /\ dirs \in [Tasks -> SUBSET DirSlots]
    /\ files \in [Tasks -> SUBSET AllFiles]

\* FileManager::new tries to mount the card once; nothing mounts it later.
ManagerInit ==
    /\ card \in {"NoCard", "Active"}
    /\ held = [l \in Locks |-> NoTask]
    /\ pc = [t \in Tasks |-> "idle"]
    /\ req = [t \in Tasks |-> NoRequest]
    /\ dirs = [t \in Tasks |-> {}]
    /\ files = [t \in Tasks |-> {}]

StateFree == held["state"] = NoTask

\* The request's first acquisition of the mutex.
AtLock(t, ops) == pc[t] = "lock" /\ req[t].op \in ops /\ StateFree

\* state.lock().await, then the buffers B.  A task takes a buffer only while
\* it holds the state mutex, so the second await never suspends
\* (BuffersNeverContended) and the two acquisitions are one step.
Lock(t, B) ==
    /\ StateFree /\ \A b \in B : held[b] = NoTask
    /\ held' = [l \in Locks |-> IF l \in B \cup {"state"} THEN t ELSE held[l]]

\* The guards a future drops: every mutex it holds is released.
Unlock(t) == held' = [l \in Locks |-> IF held[l] = t THEN NoTask ELSE held[l]]

Goto(t, phase) == pc' = [pc EXCEPT ![t] = phase]

\* The response is complete, or the connection is dropped.
Finish(t) == Goto(t, "idle") /\ req' = [req EXCEPT ![t] = NoRequest]

\* A failed unreachable!() or unwrap().
Panic(t) == Goto(t, "panicked") /\ UNCHANGED req

\* Take the directories D and the files F and keep them across an await.
Acquire(t, D, F) ==
    /\ openDirs' = openDirs \cup D /\ openFiles' = openFiles \cup F
    /\ dirs' = [dirs EXCEPT ![t] = @ \cup D]
    /\ files' = [files EXCEPT ![t] = @ \cup F]

\* Close what the request owns: Drop of Directory and File, or an explicit
\* close_file and close_dir.
Release(t) ==
    /\ openDirs' = openDirs \ dirs[t] /\ openFiles' = openFiles \ files[t]
    /\ dirs' = [dirs EXCEPT ![t] = {}] /\ files' = [files EXCEPT ![t] = {}]

\* Drop raw handles: the request ends, the tables keep the entries.
Forget(t) ==
    /\ dirs' = [dirs EXCEPT ![t] = {}] /\ files' = [files EXCEPT ![t] = {}]
    /\ UNCHANGED tables

\* The request is answered and has never owned a handle across an await.
FinishPlain(t) == Finish(t) /\ UNCHANGED <<card, held, tables, handles>>

\* Handles in the tables that no request owns any more.
LeakedDirs == openDirs \ UNION {dirs[t] : t \in Tasks}
LeakedFiles == openFiles \ UNION {files[t] : t \in Tasks}

=============================================================================
