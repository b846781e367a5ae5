---------------------------- MODULE UploadProofs ----------------------------
(***************************************************************************)
(* Safety of UploadProtocol for any number of tasks, any length of file,   *)
(* chunk and limit, and any number of attempts.                            *)
(***************************************************************************)
EXTENDS UploadProtocol, TLAPS

---------------------------------------------------------------------------
\* The inductive invariant.

\* A request is about a chunk of the file and has no more than that chunk.
RequestsFit ==
    \A t \in Tasks :
        /\ pc[t] # "idle" => IsChunk(idx[t]) /\ Piece(t) <= End(idx[t])
        /\ pc[t] = "lock" => done[t] = 0

\* Whoever writes a file that the card can hold leaves no hole.  Nobody else
\* writes.
WritersFit ==
    size < Limit => \A t \in Tasks : pc[t] = "receiving" => Piece(t) <= Len(card)
OneWriter == \A s, t \in Tasks : pc[s] = "receiving" /\ pc[t] = "receiving" => s = t

\* The page waits for the answer about its chunk.
Awaited == \A t \in Tasks : conn = t => pc[t] # "idle" /\ idx[t] = chunk /\ page = "chunks"

\* The page has been through all chunks before its own, and through no others.
ChunksInOrder ==
    /\ \A c \in received \cup givenUp : c < chunk /\ IsChunk(c)
    /\ \A c \in Nat : c < chunk => c \in received \cup givenUp
    /\ chunk # 0 => IsChunk(chunk - 1)
    /\ page = "new" => chunk = 0

CardFits == size < Limit => Len(card) <= size
SuccessAtTheEnd == told = "success" => page = "done" /\ ~IsChunk(chunk)

\* What the server refuses leaves nothing on the card.
Refused ==
    size >= Usize =>
        /\ page # "chunks" /\ told # "success" /\ ~exists /\ card = <<>>
        /\ \A t \in Tasks : pc[t] = "idle"

UploadInv ==
    /\ TypeOK /\ PrefixOnly /\ ReceiptsHold /\ ReceiptsBeforeGaps
    /\ RequestsFit /\ WritersFit /\ OneWriter /\ Awaited
    /\ ChunksInOrder /\ CardFits /\ SuccessAtTheEnd /\ Refused

---------------------------------------------------------------------------
\* Arithmetic of chunks.  Multiplication stays inside these lemmas.

LEMMA StartType == \A c \in Nat : Start(c) \in Nat /\ Start(0) = 0
BY UploadAssumption DEF Start

LEMMA StartNext == \A c \in Nat : Start(c + 1) = Start(c) + ChunkLen
BY UploadAssumption DEF Start

LEMMA StartLater ==
    ASSUME NEW c \in Nat, NEW d \in Nat, c < d
    PROVE  Start(c) + ChunkLen <= Start(d)
<1> DEFINE k == d - c - 1
<1>1. k \in Nat /\ d = c + 1 + k
    OBVIOUS
<1>2. k * ChunkLen \in Nat
    BY <1>1, UploadAssumption
<1>3. (c + 1 + k) * ChunkLen = c * ChunkLen + ChunkLen + k * ChunkLen
    BY <1>1, UploadAssumption
<1>4. c * ChunkLen \in Nat /\ ChunkLen \in Nat
    BY UploadAssumption
<1> QED
    <2> HIDE DEF k
    <2> QED
        BY <1>1, <1>2, <1>3, <1>4 DEF Start

LEMMA SmallModulo ==
    ASSUME NEW x \in Nat, NEW n \in Nat \ {0}, x < n
    PROVE  x % n = x
OBVIOUS

LEMMA SeekIsStart ==
    ASSUME NEW c \in Nat, size \in Sizes, Start(c) < size, size < Limit
    PROVE  Seek(c) = Start(c)
<1>1. Start(c) \in Nat /\ Start(c) < Limit /\ Limit \in Nat \ {0}
    BY StartType, UploadAssumption
<1> QED
    BY <1>1, SmallModulo DEF Seek, Start

\* Start is used through the lemmas above, End through this one.
LEMMA EndType ==
    ASSUME NEW c \in Nat, size \in Sizes, Start(c) < size
    PROVE  /\ End(c) \in Nat /\ Start(c) < End(c) /\ End(c) <= size
           /\ End(c) <= Start(c) + ChunkLen
BY StartType, UploadAssumption DEF End

---------------------------------------------------------------------------
\* What a step does to the page, and to the card.

AdvancesPage ==
    /\ page = "chunks" /\ IsChunk(chunk)
    /\ TryAgain \/ (NextChunk /\ (size < Limit => End(chunk) <= Len(card)))
EndsPage ==
    \E m \in {"success", "error"} :
        Tell(m) /\ (m = "success" => page = "chunks" /\ ~IsChunk(chunk))
OpensPage ==
    page = "new" /\ page' = "chunks" /\ UNCHANGED <<chunk, try, told, received, givenUp>>

LEMMA PageSteps ==
    ASSUME UploadInv, Next
    PROVE  UNCHANGED browser \/ (conn' = NoTask /\ (AdvancesPage \/ EndsPage \/ OpensPage))
<1> USE DEF UploadInv, TypeOK, browser, requests
<1>1. CASE NewUpload
    BY <1>1 DEF NewUpload, EndsPage, OpensPage, Awaited
<1>2. CASE PostFails
    BY <1>2 DEF PostFails, Sending, AdvancesPage
<1>3. CASE EndUpload
    <2>1. conn = NoTask
        BY <1>3 DEF EndUpload, Awaited, RequestsFit
    <2>2. EndsPage
        BY <1>3 DEF EndUpload, EndsPage, Tell
    <2> QED
        BY <1>3, <2>1, <2>2 DEF EndUpload
<1>4. CASE Disconnect
    BY <1>4 DEF Disconnect, Awaited, RequestsFit, AdvancesPage
<1>5. CASE Delete
    BY <1>5 DEF Delete
<1>6. ASSUME NEW t \in Tasks, PostChunk(t) \/ BeginChunk(t) \/ WritePiece(t)
      PROVE  UNCHANGED browser
    BY <1>6 DEF PostChunk, BeginChunk, WritePiece
<1>7. ASSUME NEW t \in Tasks, Complete(t)
      PROVE  UNCHANGED browser \/ (conn' = NoTask /\ AdvancesPage)
    <2>1. CASE conn = t
        BY <1>7, <2>1 DEF Complete, Hangup, Awaited, RequestsFit, WritersFit, AdvancesPage
    <2>2. CASE conn # t
        BY <1>7, <2>2 DEF Complete
    <2> QED
        BY <2>1, <2>2
<1>8. ASSUME NEW t \in Tasks, Refuse(t) \/ Break(t)
      PROVE  UNCHANGED browser \/ (conn' = NoTask /\ EndsPage)
    BY <1>8 DEF Refuse, Break, Hangup, EndsPage
<1>9. ASSUME NEW t \in Tasks, Timeout(t)
      PROVE  UNCHANGED browser \/ (conn' = NoTask /\ AdvancesPage)
    BY <1>9 DEF Timeout, Hangup, Awaited, RequestsFit, AdvancesPage
<1> QED
    BY <1>1, <1>2, <1>3, <1>4, <1>5, <1>6, <1>7, <1>8, <1>9 DEF Next, PageStep, ServerStep

LEMMA CardSteps ==
    ASSUME Next
    PROVE  /\ size' = size
           /\ \/ card' = card /\ exists' = exists
              \/ card' = card /\ page = "new"
              \/ Delete
              \/ \E t \in Tasks : WritePiece(t)
<1>1. CASE PageStep
    BY <1>1 DEF PageStep, NewUpload, PostFails, EndUpload, PostChunk
<1>2. CASE Disconnect \/ Delete
    BY <1>2 DEF Disconnect, Delete
<1>3. ASSUME NEW t \in Tasks, ServerStep(t), ~WritePiece(t)
      PROVE  size' = size /\ card' = card /\ exists' = exists
    BY <1>3 DEF ServerStep, BeginChunk, Refuse, Complete, Break, Timeout
<1>4. ASSUME NEW t \in Tasks, WritePiece(t)
      PROVE  size' = size
    BY <1>4 DEF WritePiece
<1> QED
    BY <1>1, <1>2, <1>3, <1>4 DEF Next

\* A piece goes where it belongs, at the end of the card's contents or before.
LEMMA PiecesFit ==
    ASSUME UploadInv, size < Limit, NEW t \in Tasks, WritePiece(t)
    PROVE  /\ Piece(t) \in 0 .. Len(card) /\ Piece(t) < size /\ Piece(t) + 1 < Limit
           /\ card' = Written(Piece(t), Piece(t))
<1>1. idx[t] \in Nat /\ Start(idx[t]) < size /\ done[t] \in Nat /\ size \in Sizes
    BY DEF UploadInv, TypeOK, WritePiece, RequestsFit, IsChunk
<1>2. Seek(idx[t]) = Start(idx[t])
    BY <1>1, SeekIsStart
<1>3. End(idx[t]) <= size /\ Start(idx[t]) \in Nat /\ End(idx[t]) \in Nat
    BY <1>1, EndType, StartType
<1>4. Piece(t) < End(idx[t]) /\ Piece(t) <= Len(card) /\ size \in Nat /\ size < Limit
    BY <1>1, UploadAssumption DEF WritePiece, UploadInv, WritersFit
<1> QED
    BY <1>1, <1>2, <1>3, <1>4, UploadAssumption DEF WritePiece, Piece, UploadInv, TypeOK

LEMMA CardGrows ==
    ASSUME UploadInv, size < Limit, NEW t \in Tasks, WritePiece(t)
    PROVE  /\ \A p \in 1 .. Len(card') : card'[p] = p - 1
           /\ Len(card') >= Len(card) /\ Len(card') <= size /\ Len(card') > Piece(t)
<1>1. /\ card \in Seq(Nat) /\ Len(card) <= size /\ size \in Nat
      /\ \A p \in 1 .. Len(card) : card[p] = p - 1
    BY UploadAssumption DEF UploadInv, TypeOK, CardFits, PrefixOnly, Fits
<1> DEFINE p == Piece(t)
<1>2. p \in 0 .. Len(card) /\ p < size /\ p + 1 < Limit /\ card' = Written(p, p)
    BY PiecesFit
<1> HIDE DEF p
<1>3. CASE p < Len(card)
    <2>1. card' = [card EXCEPT ![p + 1] = p]
        BY <1>2, <1>3 DEF Written
    <2>2. p + 1 \in 1 .. Len(card)
        BY <1>1, <1>2, <1>3
    <2>3. Len(card') = Len(card)
        BY <1>1, <1>2, <2>1, <2>2
    <2>4. \A i \in 1 .. Len(card) : card'[i] = IF i = p + 1 THEN p ELSE card[i]
        BY <1>1, <1>2, <2>1, <2>2
    <2> QED
        BY <1>1, <1>2, <1>3, <2>3, <2>4 DEF p
<1>4. CASE p = Len(card)
    <2>1. card' = Append(card, p)
        BY <1>1, <1>2, <1>4 DEF Written
    <2>2. Len(card') = Len(card) + 1
        BY <1>1, <1>2, <2>1
    <2>3. \A i \in 1 .. Len(card) + 1 :
              card'[i] = IF i = Len(card) + 1 THEN p ELSE card[i]
        BY <1>1, <1>2, <2>1
    <2> QED
        BY <1>1, <1>2, <1>4, <2>2, <2>3 DEF p
<1> QED
    BY <1>1, <1>2, <1>3, <1>4

---------------------------------------------------------------------------
\* The conjuncts of the invariant, one after the other.

LEMMA InitUploadInv == Init => UploadInv
<1> SUFFICES ASSUME Init PROVE UploadInv
    OBVIOUS
<1> USE UploadAssumption DEF Init
<1>1. TypeOK
    <2>1. card \in Seq(Nat) /\ 0 \in 0 .. (Attempts - 1) /\ 0 \in 0 .. ChunkLen
        OBVIOUS
    <2>2. pc \in [Tasks -> {"idle", "lock", "receiving"}]
        OBVIOUS
    <2>3. idx \in [Tasks -> Nat] /\ done \in [Tasks -> 0 .. ChunkLen]
        BY <2>1
    <2> QED
        BY <2>1, <2>2, <2>3 DEF TypeOK
<1>2. PrefixOnly /\ CardFits
    BY DEF PrefixOnly, CardFits
<1>3. Refused
    BY DEF Refused
<1> QED
    BY <1>1, <1>2, <1>3 DEF UploadInv, ReceiptsHold, ReceiptsBeforeGaps, RequestsFit, WritersFit,
        OneWriter, Awaited, ChunksInOrder, SuccessAtTheEnd

LEMMA PageKept ==
    ASSUME UploadInv, Next
    PROVE  ChunksInOrder' /\ SuccessAtTheEnd' /\ Awaited'
<1> USE DEF UploadInv, TypeOK, IsChunk
<1>1. size' = size
    BY CardSteps
<1>2. ChunksInOrder'
    <2>1. CASE UNCHANGED browser
        BY <1>1, <2>1 DEF browser, ChunksInOrder
    <2>2. CASE AdvancesPage
        <3>1. CASE chunk' = chunk
            <4>1. received' = received /\ givenUp' = givenUp /\ page' = page
                BY <2>2, <3>1 DEF AdvancesPage, TryAgain, NextChunk
            <4> QED
                BY <1>1, <3>1, <4>1 DEF ChunksInOrder
        <3>2. CASE chunk' = chunk + 1
            <4>1. /\ (received \cup givenUp)' = received \cup givenUp \cup {chunk}
                  /\ page' = "chunks"
                BY <2>2, <3>2 DEF AdvancesPage, TryAgain, NextChunk
            <4>2. chunk' - 1 = chunk /\ IsChunk(chunk) /\ chunk \in Nat
                BY <2>2, <3>2 DEF AdvancesPage
            <4>3. \A c \in (received \cup givenUp)' : c < chunk' /\ IsChunk(c)'
                <5>1. ASSUME NEW c \in received \cup givenUp
                      PROVE  c < chunk' /\ c \in Nat /\ Start(c) < size'
                    BY <1>1, <3>2, <4>2 DEF ChunksInOrder
                <5>2. chunk < chunk' /\ Start(chunk) < size'
                    BY <1>1, <3>2, <4>2
                <5> QED
                    BY <4>1, <4>2, <5>1, <5>2
            <4>4. \A c \in Nat : c < chunk' => c \in (received \cup givenUp)'
                BY <3>2, <4>1, <4>2 DEF ChunksInOrder
            <4>5. IsChunk(chunk - 1)'
                BY <1>1, <4>2
            <4> QED
                BY <4>1, <4>3, <4>4, <4>5 DEF ChunksInOrder
        <3> QED
            BY <2>2, <3>1, <3>2 DEF AdvancesPage, TryAgain, NextChunk
    <2>3. CASE EndsPage
        BY <1>1, <2>3 DEF EndsPage, Tell, ChunksInOrder
    <2>4. CASE OpensPage
        BY <1>1, <2>4 DEF OpensPage, ChunksInOrder
    <2> QED
        BY <2>1, <2>2, <2>3, <2>4, PageSteps
<1>3. SuccessAtTheEnd'
    BY <1>1, PageSteps
       DEF browser, AdvancesPage, TryAgain, NextChunk, EndsPage, Tell, OpensPage, SuccessAtTheEnd
<1>4. Awaited'
    <2>1. CASE conn' = NoTask
        BY <2>1, UploadAssumption DEF Awaited
    <2>2. ASSUME NEW t \in Tasks, PostChunk(t)
          PROVE  Awaited'
        BY <2>2, UploadAssumption DEF PostChunk, Sending, Awaited, browser
    <2>3. ASSUME UNCHANGED browser, NEW t \in Tasks, BeginChunk(t) \/ WritePiece(t)
          PROVE  Awaited'
        BY <2>3 DEF BeginChunk, WritePiece, Awaited, browser
    <2>4. ASSUME UNCHANGED browser, NEW t \in Tasks,
                 Refuse(t) \/ Complete(t) \/ Break(t) \/ Timeout(t)
          PROVE  Awaited'
        BY <2>4, UploadAssumption
           DEF Refuse, Complete, Break, Timeout, EndRequest, Hangup, Awaited, browser
    <2>5. ASSUME UNCHANGED browser,
                 NewUpload \/ PostFails \/ EndUpload \/ Disconnect \/ Delete
          PROVE  Awaited'
        BY <2>5, UploadAssumption
           DEF NewUpload, PostFails, EndUpload, Disconnect, Delete, requests, Awaited, browser
    <2> QED
        BY <2>1, <2>2, <2>3, <2>4, <2>5, PageSteps DEF Next, PageStep, ServerStep
<1> QED
    BY <1>2, <1>3, <1>4

LEMMA RequestsKept ==
    ASSUME UploadInv, Next
    PROVE  RequestsFit' /\ OneWriter' /\ WritersFit'
<1> USE DEF UploadInv, TypeOK, IsChunk, Piece, End
<1>1. ASSUME NEW t \in Tasks, PostChunk(t)
      PROVE  RequestsFit' /\ OneWriter' /\ WritersFit'
    <2>1. Start(chunk) < End(chunk) /\ Start(chunk) \in Nat /\ chunk \in Nat
        BY <1>1, EndType, StartType DEF PostChunk, Sending
    <2>2. idx'[t] = chunk /\ done'[t] = 0 /\ pc'[t] = "lock" /\ size' = size /\ card' = card
        BY <1>1 DEF PostChunk
    <2>3. \A s \in Tasks : s # t => pc'[s] = pc[s] /\ idx'[s] = idx[s] /\ done'[s] = done[s]
        BY <1>1 DEF PostChunk
    <2>4. RequestsFit'
        <3>1. ASSUME NEW s \in Tasks, s # t, pc[s] # "idle"
              PROVE  IsChunk(idx[s])' /\ Piece(s)' <= End(idx[s])'
            BY <2>2, <2>3, <3>1 DEF RequestsFit
        <3>2. IsChunk(idx[t])' /\ Piece(t)' <= End(idx[t])'
            <4>1. Start(chunk) < size /\ size \in Nat /\ ChunkLen \in Nat
                BY <1>1, UploadAssumption DEF PostChunk, Sending
            <4>2. Start(idx'[t]) = Start(chunk) /\ Start(idx'[t]) + done'[t] = Start(chunk)
                BY <2>1, <2>2
            <4>3. Start(chunk) <= IF Start(chunk) + ChunkLen < size THEN Start(chunk) + ChunkLen ELSE size
                BY <2>1, <4>1
            <4> QED
                BY <2>1, <2>2, <4>1, <4>2, <4>3
        <3> QED
            BY <2>2, <2>3, <3>1, <3>2 DEF RequestsFit
    <2> QED
        BY <2>2, <2>3, <2>4 DEF OneWriter, WritersFit
<1>2. ASSUME NEW t \in Tasks, BeginChunk(t)
      PROVE  RequestsFit' /\ OneWriter' /\ WritersFit'
    <2>1. pc[t] = "lock" /\ done[t] = 0 /\ Start(idx[t]) < size
        BY <1>2 DEF BeginChunk, RequestsFit
    <2>2. ASSUME size < Limit
          PROVE  Start(idx[t]) + done[t] <= Len(card)
        <3>1. Seek(idx[t]) = Start(idx[t]) /\ Start(idx[t]) \in Nat
            BY <2>1, <2>2, SeekIsStart, StartType
        <3> QED
            BY <1>2, <2>1, <3>1 DEF BeginChunk, CanSeek
    <2>3. RequestsFit' /\ OneWriter'
        BY <1>2 DEF BeginChunk, MutexFree, RequestsFit, OneWriter
    <2>4. WritersFit'
        BY <1>2, <2>2 DEF BeginChunk, MutexFree, WritersFit
    <2> QED
        BY <2>3, <2>4
<1>3. ASSUME NEW t \in Tasks, WritePiece(t)
      PROVE  RequestsFit' /\ OneWriter' /\ WritersFit'
    <2>1. size < Limit => Len(card') > Piece(t) /\ Len(card') \in Nat
        BY <1>3, CardGrows
    <2>2. End(idx[t]) \in Nat /\ Start(idx[t]) \in Nat
        BY <1>3, EndType, StartType DEF RequestsFit, WritePiece
    <2>3. RequestsFit'
        BY <1>3, <2>2 DEF WritePiece, RequestsFit
    <2>4. OneWriter'
        BY <1>3 DEF WritePiece, OneWriter
    <2>5. WritersFit'
        BY <1>3, <2>1, <2>2 DEF WritePiece, OneWriter, WritersFit
    <2> QED
        BY <2>3, <2>4, <2>5
<1>4. ASSUME NEW t \in Tasks, Refuse(t) \/ Complete(t) \/ Break(t) \/ Timeout(t)
      PROVE  RequestsFit' /\ OneWriter' /\ WritersFit'
    BY <1>4 DEF Refuse, Complete, Break, Timeout, EndRequest, RequestsFit, OneWriter, WritersFit
<1>5. ASSUME NewUpload \/ PostFails \/ EndUpload \/ Disconnect
      PROVE  RequestsFit' /\ OneWriter' /\ WritersFit'
    BY <1>5 DEF NewUpload, PostFails, EndUpload, Disconnect, requests,
        RequestsFit, OneWriter, WritersFit
<1>6. ASSUME Delete
      PROVE  RequestsFit' /\ OneWriter' /\ WritersFit'
    BY <1>6 DEF Delete, MutexFree, requests, RequestsFit, OneWriter, WritersFit
<1> QED
    BY <1>1, <1>2, <1>3, <1>4, <1>5, <1>6 DEF Next, PageStep, ServerStep

\* Whatever is written, and wherever: the card holds pieces.
LEMMA PiecesOnly ==
    ASSUME UploadInv, Next
    PROVE  card' \in Seq(Nat)
<1> USE UploadAssumption DEF UploadInv, TypeOK
<1>1. ASSUME NEW t \in Tasks, WritePiece(t)
      PROVE  card' \in Seq(Nat)
    <2> DEFINE p == Seek(idx[t]) + done[t]
               x == Piece(t)
    <2>1. idx[t] \in Nat /\ done[t] \in Nat /\ ChunkLen \in Nat /\ Limit \in Nat \ {0}
        OBVIOUS
    <2>2. Seek(idx[t]) \in Nat
        <3>1. idx[t] * ChunkLen \in Nat
            BY <2>1
        <3>2. \A m \in Nat, n \in Nat \ {0} : m % n \in Nat
            OBVIOUS
        <3> QED
            BY <2>1, <3>1, <3>2, Zenon DEF Seek
    <2>3. p \in Nat /\ x \in Nat
        <3>1. Start(idx[t]) \in Nat
            BY <2>1, StartType
        <3> QED
            BY <2>1, <2>2, <3>1 DEF Piece
    <2>4. card' = Written(p, x) /\ card \in Seq(Nat)
        BY <1>1 DEF WritePiece
    <2> HIDE DEF p, x
    <2>5. CASE p < Len(card)
        <3>1. card' = [card EXCEPT ![p + 1] = x] /\ p + 1 \in 1 .. Len(card)
            BY <2>3, <2>4, <2>5 DEF Written
        <3> QED
            BY <2>3, <2>4, <3>1
    <2>6. CASE ~(p < Len(card))
        BY <2>3, <2>4, <2>6 DEF Written
    <2> QED
        BY <2>5, <2>6
<1>2. CASE Delete
    BY <1>2 DEF Delete
<1> QED
    BY <1>1, <1>2, CardSteps

LEMMA CardKept ==
    ASSUME UploadInv, Next, size < Limit
    PROVE  (\A p \in 1 .. Len(card') : card'[p] = p - 1) /\ Len(card') <= size
<1> USE UploadAssumption DEF UploadInv, TypeOK
<1>1. CASE card' = card
    BY <1>1 DEF PrefixOnly, CardFits, Fits
<1>2. CASE Delete
    BY <1>2 DEF Delete
<1>3. ASSUME NEW t \in Tasks, WritePiece(t)
      PROVE  (\A p \in 1 .. Len(card') : card'[p] = p - 1) /\ Len(card') <= size
    BY <1>3, CardGrows
<1> QED
    BY <1>1, <1>2, <1>3, CardSteps

LEMMA RefusedKept ==
    ASSUME UploadInv, Next
    PROVE  Refused'
<1> SUFFICES ASSUME size >= Usize PROVE Refused'
    BY CardSteps DEF Refused
<1>1. /\ page # "chunks" /\ told # "success" /\ ~exists /\ card = <<>>
      /\ \A t \in Tasks : pc[t] = "idle"
    BY DEF UploadInv, Refused
<1>2. size \in Nat /\ Usize \in Nat /\ ~(size < Usize)
    BY UploadAssumption DEF UploadInv, TypeOK
<1>3. \A t \in Tasks : ~ServerStep(t)
    BY <1>1 DEF ServerStep, BeginChunk, Refuse, WritePiece, Complete, Break, Timeout
<1>4. ~Disconnect
    BY <1>1 DEF Disconnect, UploadInv, TypeOK, Awaited
<1>5. NewUpload
    BY <1>1, <1>3, <1>4
       DEF Next, PageStep, PostFails, EndUpload, PostChunk, Sending, Delete
<1> QED
    BY <1>1, <1>2, <1>5 DEF NewUpload, Tell, requests, Refused

\* Where the file is and was there, it has lost nothing.
LEMMA NothingTakenAway ==
    ASSUME UploadInv, Next, size < Limit, exists'
    PROVE  (exists /\ Len(card') >= Len(card)) \/ page = "new"
<1>1. Len(card) \in Nat
    BY DEF UploadInv, TypeOK
<1>2. ASSUME NEW t \in Tasks, WritePiece(t)
      PROVE  exists /\ Len(card') >= Len(card)
    BY <1>2, CardGrows DEF WritePiece
<1>3. ASSUME card' = card, exists' = exists
      PROVE  exists /\ Len(card') >= Len(card)
    <2>1. exists
        BY <1>3
    <2>2. Len(card') >= Len(card)
        BY <1>1, <1>3
    <2> QED
        BY <2>1, <2>2
<1>4. ~Delete
    BY DEF Delete
<1> QED
    BY <1>2, <1>3, <1>4, CardSteps

LEMMA ReceiptsKept ==
    ASSUME UploadInv, Next, size < Limit, exists'
    PROVE  /\ \A c \in received' : End(c)' <= Len(card')
           /\ \A c \in received', g \in givenUp' : Len(card') < End(g)' => c < g
<1>1. size' = size /\ size \in Sizes /\ size \in Nat /\ ChunkLen \in Nat
    BY CardSteps, UploadAssumption DEF UploadInv, TypeOK
<1>2. Len(card) \in Nat /\ Len(card') \in Nat /\ chunk \in Nat
    BY PiecesOnly DEF UploadInv, TypeOK
<1>3. \A c \in Nat : End(c)' = End(c)
    BY <1>1 DEF End
<1>4. \A c \in received \cup givenUp :
          c \in Nat /\ c < chunk /\ Start(c) < size /\ End(c) \in Nat
    BY <1>1, EndType DEF UploadInv, TypeOK, ChunksInOrder, IsChunk
<1>5. CASE page = "new"
    <2>1. received = {} /\ givenUp = {}
        BY <1>4, <1>5 DEF UploadInv, ChunksInOrder
    <2>2. received' = {}
        BY <1>5, <2>1, PageSteps DEF browser, AdvancesPage, EndsPage, Tell, OpensPage
    <2> QED
        BY <2>2
<1>6. CASE exists /\ Len(card') >= Len(card)
    <2>1. /\ \A c \in received : End(c) <= Len(card')
          /\ \A c \in received, g \in givenUp : Len(card') < End(g) => c < g
        BY <1>2, <1>4, <1>6 DEF UploadInv, ReceiptsHold, ReceiptsBeforeGaps, Fits
    <2>2. CASE received' = received /\ givenUp' = givenUp
        BY <1>3, <1>4, <2>1, <2>2
    <2>3. CASE page = "chunks" /\ TryAgain
        <3>1. received' = received /\ givenUp' \subseteq givenUp \cup {chunk}
            BY <2>3 DEF TryAgain
        <3> QED
            BY <1>2, <1>3, <1>4, <2>1, <3>1
    <2>4. CASE NextChunk /\ End(chunk) <= Len(card) /\ IsChunk(chunk)
        <3>1. received' = received \cup {chunk} /\ givenUp' = givenUp
            BY <2>4 DEF NextChunk
        <3>2. End(chunk) \in Nat /\ Start(chunk) < End(chunk) /\ Start(chunk) \in Nat
            BY <1>1, <2>4, EndType, StartType DEF IsChunk
        <3>3. End(chunk) <= Len(card')
            BY <1>2, <1>6, <2>4, <3>2
        <3>4. ASSUME NEW g \in givenUp
              PROVE  ~(Len(card') < End(g))
            <4>1. End(g) <= Start(g) + ChunkLen /\ Start(g) \in Nat /\ End(g) \in Nat
                BY <1>1, <1>4, EndType, StartType
            <4>2. Start(g) + ChunkLen <= Start(chunk)
                BY <1>2, <1>4, StartLater
            <4> QED
                BY <1>1, <1>2, <3>2, <3>3, <4>1, <4>2
        <3> QED
            BY <1>2, <1>3, <1>4, <2>1, <3>1, <3>3, <3>4
    <2> QED
        BY <2>2, <2>3, <2>4, PageSteps DEF browser, AdvancesPage, EndsPage, Tell, OpensPage
<1> QED
    BY <1>5, <1>6, NothingTakenAway

LEMMA TypeKept ==
    ASSUME UploadInv, Next
    PROVE  TypeOK'
<1> USE DEF UploadInv, TypeOK
<1>1. size' \in Sizes /\ card' \in Seq(Nat)
    BY CardSteps, PiecesOnly
<1>2. /\ page' \in {"new", "chunks", "done"} /\ told' \in {"nothing", "success", "error"}
      /\ chunk' \in Nat /\ received' \subseteq Nat /\ givenUp' \subseteq Nat
    <2>1. CASE UNCHANGED browser
        BY <2>1 DEF browser
    <2>2. CASE AdvancesPage
        <3>1. page' = page /\ told' = told /\ chunk' \in {chunk, chunk + 1}
            BY <2>2 DEF AdvancesPage, TryAgain, NextChunk
        <3>2. received' \subseteq received \cup {chunk} /\ givenUp' \subseteq givenUp \cup {chunk}
            BY <2>2 DEF AdvancesPage, TryAgain, NextChunk
        <3> QED
            BY <3>1, <3>2
    <2>3. CASE EndsPage \/ OpensPage
        BY <2>3 DEF EndsPage, Tell, OpensPage
    <2> QED
        BY <2>1, <2>2, <2>3, PageSteps
<1>3. try' \in 0 .. (Attempts - 1)
    BY UploadAssumption, PageSteps
       DEF browser, AdvancesPage, TryAgain, NextChunk, EndsPage, Tell, OpensPage
<1>4. exists' \in BOOLEAN
    <2>1. ASSUME NewUpload PROVE exists' \in BOOLEAN
        <3>1. (size < Usize) \in BOOLEAN
            OBVIOUS
        <3> QED
            BY <2>1, <3>1, ZenonT(20) DEF NewUpload
    <2> QED
        BY <2>1 DEF Next, PageStep, ServerStep, PostFails, EndUpload, PostChunk,
            Disconnect, Delete, BeginChunk, Refuse, WritePiece, Complete, Break, Timeout
<1>5. ASSUME NEW t \in Tasks, WritePiece(t)
      PROVE  done[t] + 1 \in 0 .. ChunkLen
    <2>1. idx[t] \in Nat /\ Start(idx[t]) < size
        BY <1>5 DEF WritePiece, RequestsFit, IsChunk
    <2>2. End(idx[t]) <= Start(idx[t]) + ChunkLen /\ Start(idx[t]) \in Nat /\ End(idx[t]) \in Nat
        BY <2>1, EndType, StartType
    <2> QED
        BY <1>5, <2>2, UploadAssumption DEF WritePiece, Piece
<1>6. ASSUME NEW t \in Tasks, ServerStep(t)
      PROVE  /\ pc' \in [Tasks -> {"idle", "lock", "receiving"}] /\ idx' \in [Tasks -> Nat]
             /\ done' \in [Tasks -> 0 .. ChunkLen] /\ conn' \in Tasks \cup {NoTask}
    <2>1. CASE WritePiece(t)
        BY <1>5, <2>1 DEF WritePiece
    <2>2. CASE BeginChunk(t)
        BY <2>2 DEF BeginChunk
    <2>3. CASE Refuse(t) \/ Complete(t) \/ Break(t) \/ Timeout(t)
        BY <2>3 DEF Refuse, Complete, Break, Timeout, EndRequest, Hangup
    <2> QED
        BY <1>6, <2>1, <2>2, <2>3 DEF ServerStep
<1>7. ASSUME NEW t \in Tasks, PostChunk(t)
      PROVE  /\ pc' \in [Tasks -> {"idle", "lock", "receiving"}] /\ idx' \in [Tasks -> Nat]
             /\ done' \in [Tasks -> 0 .. ChunkLen] /\ conn' \in Tasks \cup {NoTask}
    BY <1>7, UploadAssumption DEF PostChunk
<1>8. ASSUME NewUpload \/ PostFails \/ EndUpload \/ Disconnect \/ Delete
      PROVE  /\ pc' \in [Tasks -> {"idle", "lock", "receiving"}] /\ idx' \in [Tasks -> Nat]
             /\ done' \in [Tasks -> 0 .. ChunkLen] /\ conn' \in Tasks \cup {NoTask}
    BY <1>8 DEF NewUpload, PostFails, EndUpload, Disconnect, Delete, requests
<1>9. /\ pc' \in [Tasks -> {"idle", "lock", "receiving"}] /\ idx' \in [Tasks -> Nat]
      /\ done' \in [Tasks -> 0 .. ChunkLen] /\ conn' \in Tasks \cup {NoTask}
    BY <1>6, <1>7, <1>8 DEF Next, PageStep
<1> QED
    BY <1>1, <1>2, <1>3, <1>4, <1>9

\* Put together: a file either can be held by the card or is refused.
LEMMA PromisesKept ==
    ASSUME UploadInv, Next
    PROVE  PrefixOnly' /\ CardFits' /\ ReceiptsHold' /\ ReceiptsBeforeGaps'
<1>1. size' = size /\ size \in Nat /\ Usize \in Nat
    BY CardSteps, UploadAssumption DEF UploadInv, TypeOK
<1>2. CASE size < Limit
    <2>1. (\A p \in 1 .. Len(card') : card'[p] = p - 1) /\ Len(card') <= size
        BY <1>2, CardKept
    <2>2. ASSUME exists'
          PROVE  /\ \A c \in received' : End(c)' <= Len(card')
                 /\ \A c \in received', g \in givenUp' : Len(card') < End(g)' => c < g
        BY <1>2, <2>2, ReceiptsKept
    <2> QED
        BY <1>1, <2>1, <2>2 DEF PrefixOnly, CardFits, ReceiptsHold, ReceiptsBeforeGaps
<1>3. CASE size >= Usize
    <2>1. ~exists' /\ card' = <<>>
        BY <1>1, <1>3, RefusedKept DEF Refused
    <2>2. size >= Limit
        BY <1>1, <1>3, UploadAssumption
    <2> QED
        BY <1>1, <2>1, <2>2, UploadAssumption
           DEF PrefixOnly, CardFits, ReceiptsHold, ReceiptsBeforeGaps
<1>4. CASE ~Fits
    BY <1>1, <1>4 DEF Fits, PrefixOnly, CardFits, ReceiptsHold, ReceiptsBeforeGaps
<1> QED
    BY <1>2, <1>3, <1>4 DEF Fits

LEMMA NextUploadInv == UploadInv /\ [Next]_vars => UploadInv'
<1>1. ASSUME UploadInv, Next PROVE UploadInv'
    BY <1>1, TypeKept, PromisesKept, RefusedKept, RequestsKept, PageKept DEF UploadInv
<1>2. ASSUME UploadInv, UNCHANGED vars PROVE UploadInv'
    BY <1>2 DEF vars, UploadInv, TypeOK, PrefixOnly, ReceiptsHold, ReceiptsBeforeGaps, RequestsFit,
        WritersFit, OneWriter, Awaited, ChunksInOrder, CardFits, SuccessAtTheEnd, Refused, Fits,
        IsChunk, End, Piece
<1> QED
    BY <1>1, <1>2

LEMMA SpecUploadInv == Spec => []UploadInv
BY InitUploadInv, NextUploadInv, PTL DEF Spec

---------------------------------------------------------------------------
\* The last chunk ends where the file ends; it was confirmed or given up.
LEMMA InvComplete == UploadInv => CompleteUnlessLastGivenUp
<1> SUFFICES ASSUME UploadInv, Fits, told = "success", exists,
                    \A g \in givenUp : End(g) # size
             PROVE  Len(card) = size
    BY DEF CompleteUnlessLastGivenUp
<1> size < Limit
    BY DEF UploadInv, Fits, Refused
<1>1. /\ Len(card) \in Nat /\ size \in Nat /\ size \in Sizes /\ chunk \in Nat /\ ChunkLen \in Nat
      /\ Len(card) <= size /\ ~(Start(chunk) < size) /\ Start(chunk) \in Nat
    BY StartType, UploadAssumption DEF UploadInv, TypeOK, CardFits, SuccessAtTheEnd, IsChunk
<1>2. CASE chunk = 0
    BY <1>1, <1>2, StartType
<1>3. CASE chunk # 0
    <2> DEFINE c == chunk - 1
    <2>1. c \in Nat /\ c < chunk /\ c + 1 = chunk
        BY <1>1, <1>3
    <2> HIDE DEF c
    <2>2. c \in received \cup givenUp
        BY <2>1 DEF UploadInv, ChunksInOrder
    <2>3. Start(chunk) = Start(c) + ChunkLen /\ Start(c) \in Nat
        BY <2>1, StartNext, StartType
    <2>4. End(c) = size
        BY <1>1, <2>3 DEF End
    <2>5. End(c) <= Len(card)
        BY <2>2, <2>4 DEF UploadInv, ReceiptsHold, Fits
    <2> QED
        BY <1>1, <2>4, <2>5
<1> QED
    BY <1>2, <1>3

\* For any tasks, sizes, chunk lengths and attempts: type correctness.  No request
\* takes more than a chunk from its body, and the page counts no more failures
\* than there are attempts.
THEOREM UploadTypeCorrect == Spec => []TypeOK
<1>1. UploadInv => TypeOK
    BY DEF UploadInv
<1> QED
    BY <1>1, SpecUploadInv, PTL

\* The card holds a beginning of the user's file, whatever is lost, repeated or
\* late (receive_chunks opens, seeks and writes under one mutex).  This is for the
\* files that Fits: those of less than 4 GiB, and those that the query of
\* upload::new refuses, which on the device are all the others.
THEOREM PrefixTheorem == Spec => []PrefixOnly
<1>1. UploadInv => PrefixOnly
    BY DEF UploadInv
<1> QED
    BY <1>1, SpecUploadInv, PTL

\* A confirmed chunk stays on the card until the file, if it Fits, is deleted.
THEOREM ReceiptsTheorem == Spec => []ReceiptsHold
<1>1. UploadInv => ReceiptsHold
    BY DEF UploadInv
<1> QED
    BY <1>1, SpecUploadInv, PTL

\* "success" means that the whole file, if it Fits, is there unless its last
\* chunk was given up: giving up any other chunk is noticed by those that follow.
THEOREM CompleteTheorem == Spec => []CompleteUnlessLastGivenUp
BY InvComplete, SpecUploadInv, PTL

\* No chunk of a file that Fits is confirmed after one that is missing.
THEOREM GapsTheorem == Spec => []ReceiptsBeforeGaps
<1>1. UploadInv => ReceiptsBeforeGaps
    BY DEF UploadInv
<1> QED
    BY <1>1, SpecUploadInv, PTL
=============================================================================
