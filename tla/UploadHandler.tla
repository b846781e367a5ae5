--------------------------- MODULE UploadHandler ---------------------------
(***************************************************************************)
(* The upload routes, server/src/upload.rs and server/src/chunk.rs, and    *)
(* the delete routes, server/src/delete.rs: what they do to the handle     *)
(* tables and to the files.  The rows of the database are not part of this *)
(* model: whether a lookup or an insertion succeeds is left open.          *)
(***************************************************************************)
EXTENDS FileManager

\* Every route but the streaming ones runs to its end within one acquisition
\* and closes what it opened; on its way it has created the database files if
\* it got as far as Database::new_init.
DbOpened == onCard' = onCard \cup DbFiles

---------------------------------------------------------------------------
\* POST /upload-new: root, db directory, database, then the music directory
\* and the new file, which it closes.

NewReachesDb == card = "Active" /\ CanOpenDirs(2) /\ CanOpenDb

\* The name is made from a counter in the database that only grows, and
\* ReadWriteCreate refuses a name that exists.
NewCanCreate(f) ==
    /\ NewReachesDb /\ CanOpenDirs(3)
    /\ f \notin used \cup onCard /\ CanOpenFiles(Cardinality(DbFiles) + 1)

NewRefused(t) ==
    /\ AtLock(t, {"new"})
    /\ IF NewReachesDb THEN DbOpened ELSE UNCHANGED onCard
    /\ FinishPlain(t)
    /\ UNCHANGED <<len, used>>

\* The file exists from here on, whether or not its row is inserted and the
\* counter moved.
NewCreated(t) ==
    /\ AtLock(t, {"new"})
    /\ NewCanCreate(req[t].file)
    /\ onCard' = onCard \cup DbFiles \cup {req[t].file}
    /\ \/ used' = used \cup {req[t].file}
       \/ "io" \in Faults /\ UNCHANGED used
    /\ FinishPlain(t)
    /\ UNCHANGED len

\* POST /upload-end only opens the file and drops it again.
UploadEnd(t) ==
    /\ AtLock(t, {"end"})
    /\ FinishPlain(t)
    /\ UNCHANGED disk

---------------------------------------------------------------------------
\* POST /upload-chunk: the mutex, BUF, two directories and the file are held
\* while the body is read from the network.

\* seek_from_start refuses a position past the end of the file.
ChunkCanStart(t) ==
    /\ card = "Active" /\ CanOpenDirs(2) /\ CanOpenFile(req[t].file)
    /\ req[t].pos <= len[req[t].file]

ChunkRefused(t) ==
    /\ AtLock(t, {"chunk"})
    /\ ~ChunkCanStart(t)
    /\ FinishPlain(t)
    /\ UNCHANGED disk

ChunkBegin(t) ==
    /\ AtLock(t, {"chunk"})
    /\ ChunkCanStart(t)
    /\ Lock(t, {"BUF"})
    /\ \E D \in FreshDirs(2) : Acquire(t, D, {req[t].file})
    /\ Goto(t, "receiving")
    /\ UNCHANGED <<card, req, disk>>

\* One turn of the loop: a piece of the body is written at the cursor.
ChunkWrite(t) ==
    LET r == req[t] IN
    /\ pc[t] = "receiving" /\ r.pos < MaxLen
    /\ len' = [len EXCEPT ![r.file] = IF @ > r.pos THEN @ ELSE r.pos + 1]
    /\ req' = [req EXCEPT ![t].pos = @ + 1]
    /\ UNCHANGED <<card, held, pc, tables, handles, onCard, used>>

\* Mutant: the guards are not dropped when the body has ended.
ChunkDoneKeepsGuards(t) ==
    /\ pc[t] = "receiving"
    /\ Release(t) /\ Finish(t)
    /\ UNCHANGED <<card, held, disk>>

\* Mutant: the file and the directories are raw handles.
ChunkDoneRaw(t) ==
    /\ pc[t] = "receiving"
    /\ Forget(t) /\ Unlock(t) /\ Finish(t)
    /\ UNCHANGED <<card, disk>>

\* The body ends, or reading it or writing the card fails: every way out of
\* the loop drops the file, the directories, the buffer and the mutex.
ChunkDone(t) ==
    /\ pc[t] = "receiving"
    /\ Release(t) /\ Unlock(t) /\ Finish(t)
    /\ UNCHANGED <<card, disk>>

---------------------------------------------------------------------------
\* DELETE /delete/<dir>/<name>: the database directory is open as a raw
\* handle when the music directory is opened.

DeleteReachesDb == card = "Active" /\ CanOpenDirs(3) /\ CanOpenDb

\* The music directory does not open, for want of an entry or because the card
\* fails: the ? operator returns past the raw handle of the database directory.
DeleteLosesDbDir(t) ==
    /\ AtLock(t, {"delete"})
    /\ card = "Active" /\ CanOpenDirs(2)
    /\ CanOpenDirs(3) => "io" \in Faults
    /\ \E D \in FreshDirs(1) : openDirs' = openDirs \cup D
    /\ Finish(t)
    /\ UNCHANGED <<card, held, openFiles, handles, disk>>

DeleteRefused(t) ==
    /\ AtLock(t, {"delete"})
    /\ card = "Active" /\ CanOpenDirs(2) => CanOpenDirs(3)
    /\ IF DeleteReachesDb THEN DbOpened ELSE UNCHANGED onCard
    /\ FinishPlain(t)
    /\ UNCHANGED <<len, used>>

\* Mutant: an open file is deleted all the same.
DeleteFileThoughOpen(t) ==
    /\ AtLock(t, {"delete"})
    /\ DeleteReachesDb /\ req[t].file \in onCard
    /\ onCard' = (onCard \cup DbFiles) \ {req[t].file}
    /\ len' = [len EXCEPT ![req[t].file] = 0]
    /\ FinishPlain(t)
    /\ UNCHANGED used

\* The file goes first; a failure of the row's deletion comes after it.
DeleteFile(t) ==
    /\ AtLock(t, {"delete"})
    /\ DeleteReachesDb /\ CanDelete(req[t].file)
    /\ onCard' = (onCard \cup DbFiles) \ {req[t].file}
    /\ len' = [len EXCEPT ![req[t].file] = 0]
    /\ FinishPlain(t)
    /\ UNCHANGED used

\* DELETE /fs-music-delete/<name> does not touch the database.
FsMusicDelete(t) ==
    /\ AtLock(t, {"fsMusicDelete"})
    /\ IF card = "Active" /\ CanOpenDirs(2) /\ CanDelete(req[t].file)
       THEN /\ onCard' = onCard \ {req[t].file}
            /\ len' = [len EXCEPT ![req[t].file] = 0]
       ELSE UNCHANGED <<onCard, len>>
    /\ FinishPlain(t)
    /\ UNCHANGED used

\* DELETE /db: the log, then the database file; a log that is open stops it.
DeleteDb(t) ==
    /\ AtLock(t, {"deleteDb"})
    /\ onCard' = IF card = "Active" /\ CanOpenDirs(2) /\ WalFile \notin openFiles
                 THEN onCard \ (DbFiles \ openFiles) ELSE onCard
    /\ FinishPlain(t)
    /\ UNCHANGED <<len, used>>

UploadStep(t) ==
    \/ NewRefused(t) \/ NewCreated(t) \/ UploadEnd(t)
    \/ ChunkRefused(t) \/ ChunkBegin(t) \/ ChunkWrite(t) \/ ChunkDone(t)

DeleteStep(t) ==
    \/ DeleteLosesDbDir(t) \/ DeleteRefused(t) \/ DeleteFile(t)
    \/ FsMusicDelete(t) \/ DeleteDb(t)

=============================================================================
