--------------------------- MODULE StreamHandler ---------------------------
(***************************************************************************)
(* GET /stream/<dir>/<id>, server/src/range.rs.  The route opens the file  *)
(* under one acquisition of the mutex, keeps a raw handle while the status *)
(* line and headers (Content-Length among them) are written, and sends the *)
(* bytes under a third acquisition.                                        *)
(***************************************************************************)
EXTENDS FileManager

MinOf(a, b) == IF a < b THEN a ELSE b

\* root_dir, the named directory, then the file; closed in the same step.
CanOpenForRange(f) == card = "Active" /\ CanOpenDirs(2) /\ CanOpenFile(f)

RangeRefused(t) ==
    /\ AtLock(t, {"stream"})
    /\ ~CanOpenForRange(req[t].file)
    /\ FinishPlain(t)
    /\ UNCHANGED disk

\* start >= total_len returns Err after to_raw_file: nothing closes the file.
RangeOutOfBounds(t) ==
    /\ AtLock(t, {"stream"})
    /\ CanOpenForRange(req[t].file)
    /\ req[t].pos >= len[req[t].file]
    /\ openFiles' = openFiles \cup {req[t].file}
    /\ Finish(t)
    /\ UNCHANGED <<card, held, openDirs, handles, disk>>

\* Mutant: end is not limited to total_len - 1.
RangeAcceptedPastTheEnd(t) ==
    /\ AtLock(t, {"stream"})
    /\ CanOpenForRange(req[t].file)
    /\ req[t].pos < len[req[t].file]
    /\ Acquire(t, {}, {req[t].file})
    /\ req' = [req EXCEPT ![t].left = ChunkLen]
    /\ Goto(t, "streamHead")
    /\ UNCHANGED <<card, held, disk>>

\* Mutant: content_len counts one too many.
RangeAcceptedOneTooMany(t) ==
    LET f == req[t].file IN
    /\ AtLock(t, {"stream"})
    /\ CanOpenForRange(f)
    /\ req[t].pos < len[f]
    /\ Acquire(t, {}, {f})
    /\ req' = [req EXCEPT ![t].left = MinOf(ChunkLen, len[f] - req[t].pos) + 1]
    /\ Goto(t, "streamHead")
    /\ UNCHANGED <<card, held, disk>>

\* Mutant: the File is dropped with the closure, the state keeps its number.
RangeAcceptedClosed(t) ==
    LET f == req[t].file IN
    /\ AtLock(t, {"stream"})
    /\ CanOpenForRange(f)
    /\ req[t].pos < len[f]
    /\ files' = [files EXCEPT ![t] = @ \cup {f}]
    /\ req' = [req EXCEPT ![t].left = MinOf(ChunkLen, len[f] - req[t].pos)]
    /\ Goto(t, "streamHead")
    /\ UNCHANGED <<card, held, tables, dirs, disk>>

\* A RangeState with the raw file, the start, and
\* content_len = min(start + 16 KiB, total_len) - start.
RangeAccepted(t) ==
    LET f == req[t].file IN
    /\ AtLock(t, {"stream"})
    /\ CanOpenForRange(f)
    /\ req[t].pos < len[f]
    /\ Acquire(t, {}, {f})
    /\ req' = [req EXCEPT ![t].left = MinOf(ChunkLen, len[f] - req[t].pos)]
    /\ Goto(t, "streamHead")
    /\ UNCHANGED <<card, held, disk>>

\* The status line and headers reach the client.
StreamHead(t) ==
    /\ pc[t] = "streamHead"
    /\ Goto(t, "streamCheck")
    /\ UNCHANGED <<card, held, req, tables, handles, disk>>

\* The client is gone: RangeState is dropped, its RawFile stays open.
StreamHeadLost(t) ==
    /\ pc[t] = "streamHead" /\ "write" \in Faults
    /\ Forget(t) /\ Finish(t)
    /\ UNCHANGED <<card, held, disk>>

\* write_chunks: is_card_active, an acquisition of its own.  The card that let
\* phase one open a file is still active.
StreamCheck(t) ==
    /\ pc[t] = "streamCheck" /\ StateFree /\ card = "Active"
    /\ Goto(t, "streamLock")
    /\ UNCHANGED <<card, held, req, tables, handles, disk>>

\* with_root_dir_async opens the root directory before it calls
\* HandleRangeAsync, which closes it at once and owns the file from then on.
StreamBegin(t) ==
    /\ pc[t] = "streamLock" /\ Lock(t, {"BUF"})
    /\ CanOpenDirs(1)
    /\ Goto(t, "streaming")
    /\ UNCHANGED <<card, req, tables, handles, disk>>

\* No entry left for the root directory: Err, which unreachable!() receives.
StreamNoRoot(t) ==
    /\ pc[t] = "streamLock" /\ StateFree
    /\ ~CanOpenDirs(1)
    /\ Forget(t) /\ Panic(t)
    /\ UNCHANGED <<card, held, disk>>

\* One turn of the loop: read a buffer, write it as a chunk.
StreamSend(t) ==
    /\ pc[t] = "streaming" /\ req[t].left > 0
    /\ req' = [req EXCEPT ![t].left = @ - 1, ![t].pos = @ + 1]
    /\ UNCHANGED <<card, held, pc, tables, handles, disk>>

\* Mutant: the guards outlive the failed future.
StreamSendLostKeepsGuards(t) ==
    /\ pc[t] = "streaming" /\ req[t].left > 0
    /\ Faults \cap {"write", "io"} # {}
    /\ Release(t) /\ Panic(t)
    /\ UNCHANGED <<card, held, disk>>

\* "unable to write chunk" or a failed read leaves the loop with Err: the File
\* is dropped, and unreachable!() receives the Err.
StreamSendLost(t) ==
    /\ pc[t] = "streaming" /\ req[t].left > 0
    /\ Faults \cap {"write", "io"} # {}
    /\ Release(t) /\ Unlock(t) /\ Panic(t)
    /\ UNCHANGED <<card, disk>>

\* finalize(): its own failure is passed on as Ok(Err(_)), not as Err.
StreamDone(t) ==
    /\ pc[t] = "streaming" /\ req[t].left = 0
    /\ Release(t) /\ Unlock(t) /\ Finish(t)
    /\ UNCHANGED <<card, disk>>

StreamStep(t) ==
    \/ RangeRefused(t) \/ RangeOutOfBounds(t) \/ RangeAccepted(t)
    \/ StreamHead(t) \/ StreamHeadLost(t) \/ StreamCheck(t)
    \/ StreamBegin(t) \/ StreamNoRoot(t)
    \/ StreamSend(t) \/ StreamSendLost(t) \/ StreamDone(t)

=============================================================================
