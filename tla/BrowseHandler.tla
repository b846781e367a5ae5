--------------------------- MODULE BrowseHandler ---------------------------
(***************************************************************************)
(* GET /list/<dir>, server/src/list.rs, and GET /fs/<path>,                *)
(* server/src/fs.rs with FileManager::resolve_path_iter and                *)
(* close_file_type.                                                        *)
(***************************************************************************)
EXTENDS FileManager

---------------------------------------------------------------------------
\* GET /list: is_card_active, then one acquisition of the mutex for the whole
\* listing.

ListInactive(t) ==
    /\ AtLock(t, {"list"}) /\ card # "Active"
    /\ FinishPlain(t)
    /\ UNCHANGED disk

ListCheck(t) ==
    /\ AtLock(t, {"list"}) /\ card = "Active"
    /\ Goto(t, "listLock")
    /\ UNCHANGED <<card, held, req, tables, handles, disk>>

\* The root directory does not open: Err, which unreachable!() receives.
ListNoRoot(t) ==
    /\ pc[t] = "listLock" /\ StateFree
    /\ ~CanOpenDirs(1)
    /\ Panic(t)
    /\ UNCHANGED <<card, held, tables, handles, disk>>

\* The database opens: root, its directory and its files stay open while the
\* rows are written.
ListBegin(t) ==
    /\ pc[t] = "listLock" /\ Lock(t, {})
    /\ CanOpenDirs(2) /\ CanOpenDb
    /\ \E D \in FreshDirs(2) : Acquire(t, D, DbFiles)
    /\ onCard' = onCard \cup DbFiles
    /\ Goto(t, "listing")
    /\ UNCHANGED <<card, req, len, used>>

\* It does not, whatever the reason: the error is written with the root
\* directory still open.
ListNoDb(t) ==
    /\ pc[t] = "listLock" /\ Lock(t, {})
    /\ CanOpenDirs(1)
    /\ \E D \in FreshDirs(1) : Acquire(t, D, {})
    /\ Goto(t, "listing")
    /\ UNCHANGED <<card, req, disk>>

\* Mutant: the database keeps raw handles that nobody closes.
ListDoneRaw(t) ==
    /\ pc[t] = "listing"
    /\ Forget(t) /\ Unlock(t) /\ Finish(t)
    /\ UNCHANGED <<card, disk>>

\* The last chunk is written, or a write fails and is returned as Ok(Err(_)).
ListDone(t) ==
    /\ pc[t] = "listing"
    /\ Release(t) /\ Unlock(t) /\ Finish(t)
    /\ UNCHANGED <<card, disk>>

---------------------------------------------------------------------------
\* GET /fs: resolve_path_iter walks from the root; at every moment at most two
\* directories are open, and one raw handle is the result.

CanResolve(r) ==
    /\ card = "Active"
    /\ CanOpenDirs(IF r.op = "fsRoot" THEN 1 ELSE 2)
    /\ r.op = "fsFile" => CanOpenFile(r.file)

FsNotResolved(t) ==
    /\ AtLock(t, FsOps) /\ ~CanResolve(req[t])
    /\ FinishPlain(t)
    /\ UNCHANGED disk

FsResolveDir(t) ==
    /\ AtLock(t, {"fsRoot", "fsDir"}) /\ CanResolve(req[t])
    /\ \E D \in FreshDirs(1) : Acquire(t, D, {})
    /\ Goto(t, "fsHead")
    /\ UNCHANGED <<card, held, req, disk>>

FsResolveFile(t) ==
    /\ AtLock(t, {"fsFile"}) /\ CanResolve(req[t])
    /\ Acquire(t, {}, {req[t].file})
    /\ Goto(t, "fsHead")
    /\ UNCHANGED <<card, held, req, disk>>

\* The response's headers are written, or the client is gone and FsIterChunks
\* is dropped with its raw handle.
FsHead(t) ==
    /\ pc[t] = "fsHead"
    /\ Goto(t, "fsLock")
    /\ UNCHANGED <<card, held, req, tables, handles, disk>>

FsHeadLost(t) ==
    /\ pc[t] = "fsHead" /\ "write" \in Faults
    /\ Forget(t) /\ Finish(t)
    /\ UNCHANGED <<card, held, disk>>

\* A directory is iterated and its entries are written under the mutex; a TXT
\* or HTM file is read through BUF2 under the mutex.
FsBegin(t) ==
    /\ pc[t] = "fsLock"
    /\ \E B \in SUBSET {"BUF2"} : (B # {} => req[t].op = "fsFile") /\ Lock(t, B)
    /\ Goto(t, "fsSend")
    /\ UNCHANGED <<card, req, tables, handles, disk>>

\* iterate_dir(..).unwrap() on a card that does not answer.
FsIterateFails(t) ==
    /\ pc[t] = "fsLock" /\ StateFree /\ req[t].op # "fsFile"
    /\ "io" \in Faults
    /\ Forget(t) /\ Panic(t)
    /\ UNCHANGED <<card, held, disk>>

\* Mutant: the guard of BUF2 is still in scope during close_file_type.
FsSentKeepsBuffer(t) ==
    /\ pc[t] = "fsSend"
    /\ held' = [held EXCEPT !["state"] = NoTask]
    /\ Goto(t, "fsClose")
    /\ UNCHANGED <<card, req, tables, handles, disk>>

\* Everything is written and the guard goes out of scope.
FsSent(t) ==
    /\ pc[t] = "fsSend"
    /\ Unlock(t) /\ Goto(t, "fsClose")
    /\ UNCHANGED <<card, req, tables, handles, disk>>

\* write_chunk(..).await? returns before close_file_type.
FsSendLost(t) ==
    /\ pc[t] = "fsSend" /\ "write" \in Faults
    /\ Unlock(t) /\ Forget(t) /\ Finish(t)
    /\ UNCHANGED <<card, disk>>

\* Mutant: the raw handle is dropped, not closed.
FsCloseForgets(t) ==
    /\ pc[t] = "fsClose" /\ StateFree
    /\ Forget(t) /\ Finish(t)
    /\ UNCHANGED <<card, held, disk>>

\* close_file_type, an acquisition of its own.
FsClose(t) ==
    /\ pc[t] = "fsClose" /\ StateFree
    /\ Release(t) /\ Finish(t)
    /\ UNCHANGED <<card, held, disk>>

BrowseStep(t) ==
    \/ ListInactive(t) \/ ListCheck(t) \/ ListNoRoot(t)
    \/ ListBegin(t) \/ ListNoDb(t) \/ ListDone(t)
    \/ FsNotResolved(t) \/ FsResolveDir(t) \/ FsResolveFile(t)
    \/ FsHead(t) \/ FsHeadLost(t) \/ FsBegin(t) \/ FsIterateFails(t)
    \/ FsSent(t) \/ FsSendLost(t) \/ FsClose(t)

=============================================================================
