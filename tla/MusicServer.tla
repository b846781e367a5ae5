---------------------------- MODULE MusicServer ----------------------------
(***************************************************************************)
(* The HTTP server: actual/src/http_task.rs and the routes of              *)
(* actual/src/router.rs (development/src/main.rs on a PC).  Each task      *)
(* serves one request at a time; all tasks share the file manager.         *)
(***************************************************************************)
EXTENDS StreamHandler, UploadHandler, BrowseHandler

CONSTANTS
    Routes,     \* the operations clients ask for, a subset of Ops
    PanicHalts  \* TRUE on the ESP32, where a panic stops the device

ASSUME RouteAssumption == Routes \subseteq Ops /\ PanicHalts \in BOOLEAN

Halted == PanicHalts /\ \E t \in Tasks : pc[t] = "panicked"

\* What a client can ask for.  Positions are chosen by the client.
ClientRequest(op) ==
    CASE op \in {"stream", "chunk"} ->
             [op : {op}, file : Files, pos : 0 .. MaxLen, left : {0}]
      [] op \in NamedOps -> [op : {op}, file : Files, pos : {0}, left : {0}]
      [] op \in PlainOps -> [op : {op}, file : {NoFile}, pos : {0}, left : {0}]
      [] op = "fsFile"   -> [op : {op}, file : AllFiles, pos : {0}, left : {0}]

\* A request is read from the connection and its handler waits for the mutex.
Accept(t) ==
    /\ pc[t] = "idle"
    /\ \E op \in Routes : \E r \in ClientRequest(op) :
           /\ op = "stream" /\ "range" \notin Faults => r.pos < len[r.file]
           /\ req' = [req EXCEPT ![t] = r]
    /\ Goto(t, "lock")
    /\ UNCHANGED <<card, held, tables, handles, disk>>

\* Mutant: the timer does not cover the time spent waiting for the mutex.
PendingOnSocket(t) ==
    pc[t] \notin {"idle", "panicked"} \cup WaitPhases

\* with_timeout(10 s, serve) drops the handler's future where it is pending:
\* at any socket operation, or at the mutex if somebody holds it.
Pending(t) ==
    /\ pc[t] \notin {"idle", "panicked"}
    /\ pc[t] \in WaitPhases => ~StateFree

TimeoutClosing(t) ==
    /\ "timeout" \in Faults /\ Pending(t) /\ pc[t] \notin RawPhases
    /\ Release(t) /\ Unlock(t) /\ Finish(t)
    /\ UNCHANGED <<card, disk>>

\* Mutant: the tables are cleared after a timeout.
TimeoutClearing(t) ==
    /\ "timeout" \in Faults /\ Pending(t) /\ pc[t] \in RawPhases
    /\ openDirs' = {} /\ openFiles' = {}
    /\ dirs' = [dirs EXCEPT ![t] = {}] /\ files' = [files EXCEPT ![t] = {}]
    /\ Unlock(t) /\ Finish(t)
    /\ UNCHANGED <<card, disk>>

\* Nothing in the dropped future closes a raw handle.
TimeoutForgetting(t) ==
    /\ "timeout" \in Faults /\ Pending(t) /\ pc[t] \in RawPhases
    /\ Forget(t) /\ Unlock(t) /\ Finish(t)
    /\ UNCHANGED <<card, disk>>

Timeout(t) == TimeoutClosing(t) \/ TimeoutForgetting(t)

\* On a PC a panic ends one tokio task; the listener goes on.
Reconnect(t) ==
    /\ pc[t] = "panicked"
    /\ Finish(t)
    /\ UNCHANGED <<card, held, tables, handles, disk>>

Step(t) == StreamStep(t) \/ UploadStep(t) \/ DeleteStep(t) \/ BrowseStep(t)

TypeOK == VolumeTypeOK /\ ManagerTypeOK

Init == VolumeInit /\ ManagerInit

Next ==
    /\ ~Halted
    /\ \E t \in Tasks : Accept(t) \/ Step(t) \/ Timeout(t) \/ Reconnect(t)

Spec == Init /\ [][Next]_vars

\* The executor polls a woken task, and the 10 s timer ends what stays
\* pending.  A request that waits for the mutex can take it or time out at any
\* moment, so weak fairness of the two together is enough.
FirmwareFairness == \A t \in Tasks : WF_vars(~Halted /\ (Step(t) \/ Timeout(t)))

\* Without the timer: tokio's mutex is first come, first served, so a request
\* that finds it free again and again gets it.
DevelopmentFairness == \A t \in Tasks : SF_vars(~Halted /\ Step(t))

---------------------------------------------------------------------------
\* Safety

\* The state mutex is held exactly in the phases whose code has the guard in
\* scope, and a buffer is held only by the holder of the mutex: the await in
\* get_buf() and get_buf2() never waits, so the two mutexes cannot deadlock.
BuffersNeverContended ==
    /\ \A t \in Tasks : held["state"] = t <=> pc[t] \in LockedPhases
    /\ \A b \in {"BUF", "BUF2"} : held[b] \in {NoTask, held["state"]}

\* Two requests never own the same handle, and what a request owns is in the
\* tables: closing it cannot hit BadHandle or another request's file.
HandlesOwnedOnce ==
    /\ \A t \in Tasks : dirs[t] \subseteq openDirs /\ files[t] \subseteq openFiles
    /\ \A s, t \in Tasks : s # t => dirs[s] \cap dirs[t] = {} /\ files[s] \cap files[t] = {}

\* From the moment Content-Length is announced until the last byte, across two
\* releases of the mutex, the file is still there and still holds every byte
\* that was promised, whatever the other requests upload and delete.
StreamPhases == {"streamHead", "streamCheck", "streamLock", "streaming"}
PromisedBytesOnCard ==
    \A t \in Tasks : pc[t] \in StreamPhases =>
        /\ req[t].file \in files[t] \cap onCard
        /\ req[t].pos + req[t].left <= len[req[t].file]

\* The tables hold nothing but what live requests own.
NothingLeaked == LeakedDirs = {} /\ LeakedFiles = {}

\* Whenever the mutex is free, the request that takes it next finds room for
\* what the hungriest route (upload-new, delete) opens: three directories, the
\* database and one file.
CapacitySuffices ==
    \A t \in Tasks : pc[t] \in {"lock", "listLock"} /\ StateFree =>
        CanOpenDirs(3) /\ CanOpenFiles(Cardinality(DbFiles) + 1)

\* Without failures no request gets to unreachable!() (range.rs:69,
\* list.rs:122) or to an unwrap() of an Err: the device never halts.
NobodyPanics == \A t \in Tasks : pc[t] # "panicked"

---------------------------------------------------------------------------
\* Action properties

\* There is no way back: an entry of the tables that lost its owner stays
\* until the device restarts.
LeaksAreForever ==
    [][LeakedDirs \subseteq LeakedDirs' /\ LeakedFiles \subseteq LeakedFiles']_vars

\* Only the end of a /stream or /fs request can lose a file, and only the file
\* it opened; only the end of an /fs or /delete request can lose a directory.
Ends(t) == pc[t] \notin {"idle", "panicked"} /\ pc'[t] \in {"idle", "panicked"}
LeaksHaveOneCause ==
    [][/\ \A f \in LeakedFiles' \ LeakedFiles : \E t \in Tasks :
              Ends(t) /\ req[t].op \in {"stream", "fsFile"} /\ req[t].file = f
       /\ LeakedDirs' \ LeakedDirs # {} => \E t \in Tasks :
              Ends(t) /\ req[t].op \in {"fsRoot", "fsDir", "delete"}]_vars

\* The server implements FileOwnership: a file is Lost when the table of open
\* files has it and no request does.
OwnerOf(f, open, own) ==
    IF f \notin open THEN NoTask
    ELSE IF \E t \in Tasks : f \in own[t] THEN CHOOSE t \in Tasks : f \in own[t]
    ELSE NoFile
FileOwner == [f \in Files |-> OwnerOf(f, openFiles, files)]
Ownership == INSTANCE FileOwnership WITH
    Clients <- Tasks, Free <- NoTask, Lost <- NoFile,
    owner <- FileOwner, present <- onCard \cap Files, size <- len
FilesHaveOneOwner == Ownership!Spec

---------------------------------------------------------------------------
\* Liveness

EveryRequestEnds ==
    \A t \in Tasks : pc[t] \notin {"idle", "panicked"} ~>
                         pc[t] \in {"idle", "panicked"} \/ Halted

\* On the device every request comes to an end although nothing is known of
\* the order in which embassy's mutex wakes its waiters: the timer of
\* http_task.rs:29 also covers the time spent waiting for the mutex.
TimerEndsRequests == FirmwareFairness => EveryRequestEnds

\* On a PC, where no timer ends a request, every request comes to an end: each
\* holder of the mutex releases it, through errors and panics as well.
MutexEndsRequests == DevelopmentFairness => EveryRequestEnds

---------------------------------------------------------------------------
\* What the code asserts with unreachable!().

\* range.rs:69
StreamArmUnreachable == \A t \in Tasks : ~(pc[t] = "panicked" /\ req[t].op = "stream")
\* list.rs:122
ListArmUnreachable == \A t \in Tasks : ~(pc[t] = "panicked" /\ req[t].op = "list")

=============================================================================
