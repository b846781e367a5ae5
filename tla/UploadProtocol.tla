--------------------------- MODULE UploadProtocol ---------------------------
(***************************************************************************)
(* One upload from end to end: uploadFile() of server/src/htm/list.htm in  *)
(* a browser against upload::new, receive_chunks and upload::end.  The     *)
(* page posts one chunk after the other, each up to five times; requests   *)
(* and answers get lost, and a handler whose client has gone may still     *)
(* run, later than the page's next request.  Positions count pieces, the   *)
(* amounts that one turn of the server's loop reads and writes.            *)
(***************************************************************************)
EXTENDS Integers, Sequences

CONSTANTS
    Tasks,      \* the HTTP tasks
    NoTask,     \* the page waits for no answer
    Sizes,      \* how long the files are that users choose
    ChunkLen,   \* the pieces in a chunk (16 KiB)
    Limit,      \* positions are computed modulo this (2^32 bytes)
    Usize,      \* the server reads lengths below this (2^32 or 2^64)
    Attempts    \* how often a chunk is posted (5 in the page)

ASSUME UploadAssumption ==
    /\ NoTask \notin Tasks
    /\ ChunkLen \in Nat \ {0} /\ Limit \in Nat \ {0} /\ Attempts \in Nat \ {0}
    /\ Usize \in Nat /\ Limit <= Usize
    /\ Sizes \subseteq Nat

VARIABLES
    size,       \* the length of the user's file
    page,       \* what the page does next
    chunk,      \* the chunk it sends, counted from 0
    try,        \* the attempts at this chunk that have failed
    told,       \* what the user has been told
    exists,     \* the file is on the card
    card,       \* its contents: which piece of the user's file is where
    pc,         \* where the request of each task is suspended
    idx,        \* the chunk it is about
    done,       \* the pieces of it that the task has written
    conn,       \* the task whose answer the page waits for, if any
    received,   \* history: the chunks whose length was confirmed
    givenUp     \* history: the chunks given up after the last attempt

vars == <<size, page, chunk, try, told, exists, card, pc, idx, done, conn, received, givenUp>>
browser == <<page, chunk, try, told, received, givenUp>>
requests == <<pc, idx, done>>

\* The part of the file that a chunk is: file.slice(start, end).
Start(c) == c * ChunkLen
End(c) == IF Start(c) + ChunkLen < size THEN Start(c) + ChunkLen ELSE size
IsChunk(c) == c \in Nat /\ Start(c) < size

TypeOK ==
    /\ size \in Sizes
    /\ page \in {"new", "chunks", "done"}
    /\ chunk \in Nat /\ try \in 0 .. (Attempts - 1)
    /\ told \in {"nothing", "success", "error"}
    /\ exists \in BOOLEAN /\ card \in Seq(Nat)
    /\ pc \in [Tasks -> {"idle", "lock", "receiving"}]
    /\ idx \in [Tasks -> Nat] /\ done \in [Tasks -> 0 .. ChunkLen]
    /\ conn \in Tasks \cup {NoTask}
    /\ received \subseteq Nat /\ givenUp \subseteq Nat

Init ==
    /\ size \in Sizes
    /\ page = "new" /\ chunk = 0 /\ try = 0 /\ told = "nothing"
    /\ exists = FALSE /\ card = <<>>
    /\ pc = [t \in Tasks |-> "idle"]
    /\ idx = [t \in Tasks |-> 0] /\ done = [t \in Tasks |-> 0]
    /\ conn = NoTask
    /\ received = {} /\ givenUp = {}

---------------------------------------------------------------------------
\* The page

Tell(message) ==
    /\ page' = "done" /\ told' = message
    /\ UNCHANGED <<chunk, try, received, givenUp>>

\* The confirmed length is that of the chunk: on to the next one.
NextChunk ==
    /\ chunk' = chunk + 1 /\ try' = 0
    /\ received' = received \cup {chunk}
    /\ UNCHANGED <<page, told, givenUp>>

\* Mutant: the inner loop does not count.
TryAgainForever == UNCHANGED browser

\* Mutant: one attempt too many.
TryAgainOnceMore ==
    /\ IF try < Attempts
       THEN try' = try + 1 /\ UNCHANGED <<chunk, givenUp>>
       ELSE try' = 0 /\ chunk' = chunk + 1 /\ givenUp' = givenUp \cup {chunk}
    /\ UNCHANGED <<page, told, received>>

\* fetch throws or the status is not ok.  After the last attempt the inner
\* loop ends, and the outer one goes on as if the chunk had arrived.
TryAgain ==
    /\ IF try + 1 < Attempts
       THEN try' = try + 1 /\ UNCHANGED <<chunk, givenUp>>
       ELSE try' = 0 /\ chunk' = chunk + 1 /\ givenUp' = givenUp \cup {chunk}
    /\ UNCHANGED <<page, told, received>>

\* Mutant: a length of any size is read.
NewUploadAnySize ==
    /\ page = "new"
    /\ \/ /\ exists' = TRUE /\ page' = "chunks"
          /\ UNCHANGED <<chunk, try, told, received, givenUp>>
       \/ exists' \in BOOLEAN /\ Tell("error")
    /\ UNCHANGED <<size, card, requests, conn>>

\* POST /upload-new.  An answer that gets lost leaves the new file behind.  A
\* length that is no usize is refused with the query: on the device that is
\* every length the card has no room for, on a PC none.
NewUpload ==
    /\ page = "new"
    /\ \/ /\ size < Usize
          /\ exists' = TRUE /\ page' = "chunks"
          /\ UNCHANGED <<chunk, try, told, received, givenUp>>
       \/ exists' \in {FALSE, size < Usize} /\ Tell("error")
    /\ UNCHANGED <<size, card, requests, conn>>

Sending == page = "chunks" /\ IsChunk(chunk) /\ conn = NoTask

\* POST /upload-chunk reaches a task that waits for connections.
PostChunk(t) ==
    /\ Sending /\ pc[t] = "idle"
    /\ pc' = [pc EXCEPT ![t] = "lock"]
    /\ idx' = [idx EXCEPT ![t] = chunk]
    /\ done' = [done EXCEPT ![t] = 0]
    /\ conn' = t
    /\ UNCHANGED <<size, browser, exists, card>>

\* It does not reach one.
PostFails ==
    /\ Sending /\ TryAgain
    /\ UNCHANGED <<size, exists, card, requests, conn>>

\* The connection breaks.  The server may not notice.
Disconnect ==
    /\ conn # NoTask /\ conn' = NoTask
    /\ TryAgain
    /\ UNCHANGED <<size, exists, card, requests>>

\* POST /upload-end: "success" if the file can be opened.
EndUpload ==
    /\ page = "chunks" /\ ~IsChunk(chunk)
    /\ \/ Tell(IF exists THEN "success" ELSE "error")
       \/ Tell("error")
    /\ UNCHANGED <<size, exists, card, requests, conn>>

---------------------------------------------------------------------------
\* The server

\* (idx * 16 * 1024) as u32: from Limit on it starts again at 0.
Seek(c) == (c * ChunkLen) % Limit

MutexFree == \A t \in Tasks : pc[t] # "receiving"
EndRequest(t) == pc' = [pc EXCEPT ![t] = "idle"] /\ UNCHANGED <<idx, done>>

\* The page gets an answer only on the connection it waits for.
Hangup(t) == conn' = IF conn = t THEN NoTask ELSE conn

\* Mutant: a position past the end is accepted.
CanSeekAnywhere(t) == exists

\* The file is opened at its end, and seek_from_start goes to the chunk's
\* position unless it is past the end.
CanSeek(t) == exists /\ Seek(idx[t]) <= Len(card)

BeginChunk(t) ==
    /\ pc[t] = "lock" /\ MutexFree /\ CanSeek(t)
    /\ pc' = [pc EXCEPT ![t] = "receiving"]
    /\ UNCHANGED <<size, browser, exists, card, idx, done, conn>>

\* Mutant: the page takes an error for a confirmation.
RefuseUnnoticed(t) ==
    /\ pc[t] = "lock" /\ MutexFree
    /\ EndRequest(t) /\ Hangup(t)
    /\ IF conn = t THEN NextChunk ELSE UNCHANGED browser
    /\ UNCHANGED <<size, exists, card>>

\* No such file, a position past its end, no free handle: the error is a text
\* with status 200, which is not the expected length, and the page stops.
Refuse(t) ==
    /\ pc[t] = "lock" /\ MutexFree
    /\ EndRequest(t) /\ Hangup(t)
    /\ IF conn = t THEN Tell("error") ELSE UNCHANGED browser
    /\ UNCHANGED <<size, exists, card>>

\* What the next piece of the body is, and what writing it at p does.  The
\* longest file of FAT has Limit - 1 pieces: write leaves out what is beyond.
Piece(t) == Start(idx[t]) + done[t]
Written(p, x) ==
    IF p < Len(card) THEN [card EXCEPT ![p + 1] = x]
    ELSE IF p + 1 < Limit THEN Append(card, x) ELSE card

\* One turn of the loop in receive_chunks.
WritePiece(t) ==
    /\ pc[t] = "receiving" /\ Piece(t) < End(idx[t])
    /\ card' = Written(Seek(idx[t]) + done[t], Piece(t))
    /\ done' = [done EXCEPT ![t] = @ + 1]
    /\ UNCHANGED <<size, browser, exists, pc, idx, conn>>

\* Mutant: the length of the body is confirmed, not what has been read of it.
CompleteEarly(t) ==
    /\ pc[t] = "receiving"
    /\ EndRequest(t) /\ Hangup(t)
    /\ IF conn = t THEN NextChunk ELSE UNCHANGED browser
    /\ UNCHANGED <<size, exists, card>>

\* The body has ended, and the answer is the number of bytes read.
Complete(t) ==
    /\ pc[t] = "receiving" /\ Piece(t) = End(idx[t])
    /\ EndRequest(t) /\ Hangup(t)
    /\ IF conn = t THEN NextChunk ELSE UNCHANGED browser
    /\ UNCHANGED <<size, exists, card>>

\* The card fails, or reading the body does: an error as in Refuse.
Break(t) ==
    /\ pc[t] = "receiving"
    /\ EndRequest(t) /\ Hangup(t)
    /\ IF conn = t THEN Tell("error") ELSE UNCHANGED browser
    /\ UNCHANGED <<size, exists, card>>

\* The timer drops the handler with its connection.
Timeout(t) ==
    /\ pc[t] # "idle"
    /\ EndRequest(t) /\ Hangup(t)
    /\ IF conn = t THEN TryAgain ELSE UNCHANGED browser
    /\ UNCHANGED <<size, exists, card>>

\* Somebody deletes the file.  Its name does not come back.
Delete ==
    /\ exists /\ MutexFree /\ page # "new"
    /\ exists' = FALSE /\ card' = <<>>
    /\ UNCHANGED <<size, browser, requests, conn>>

ServerStep(t) ==
    BeginChunk(t) \/ Refuse(t) \/ WritePiece(t) \/ Complete(t) \/ Break(t) \/ Timeout(t)
PageStep == NewUpload \/ PostFails \/ EndUpload \/ \E t \in Tasks : PostChunk(t)

Next == PageStep \/ Disconnect \/ Delete \/ \E t \in Tasks : ServerStep(t)

Spec == Init /\ [][Next]_vars

\* The page's script runs; the executor polls each handler until it ends or
\* its timer ends it.
LiveSpec == Spec /\ WF_vars(PageStep) /\ \A t \in Tasks : WF_vars(ServerStep(t))

---------------------------------------------------------------------------
\* A file fits when the card can hold it or the server refuses it.  On the
\* device, where Usize = Limit, every file does.
Fits == size < Limit \/ size >= Usize

\* Safety.  Whatever is lost, repeated or late: the card holds a beginning of
\* the user's file, without a hole and without a piece in the wrong place.
PrefixOnly == Fits => \A p \in 1 .. Len(card) : card[p] = p - 1

\* Safety.  A chunk whose length the server has confirmed is on the card until
\* the file is deleted; no late handler of another attempt takes it away.
ReceiptsHold == Fits => \A c \in received : exists => End(c) <= Len(card)

\* Safety.  "success" means that the whole file is there, unless somebody has
\* deleted it since or its last chunk was given up; a chunk before the last that
\* was given up without being there never goes unnoticed.
CompleteUnlessLastGivenUp ==
    Fits /\ told = "success" /\ exists =>
        Len(card) = size \/ \E g \in givenUp : End(g) = size

\* Safety.  A file with a missing piece is noticed by every later chunk that
\* reaches the server: the confirmed chunks come before the missing ones.
ReceiptsBeforeGaps ==
    Fits /\ exists =>
        \A c \in received, g \in givenUp : Len(card) < End(g) => c < g

\* Liveness: the user is told something.
UploadEnds == <>(page = "done")

\* Safety, what "success" (upload.rs:151) tells the user after each confirmed
\* chunk was compared with its length (list.htm:152); a last chunk that the loop
\* of five attempts (list.htm:126) gives up is not compared with anything.
SuccessMeansComplete == told = "success" /\ exists => Len(card) = size
=============================================================================
