-------------------------- MODULE AgreementProofs --------------------------
(***************************************************************************)
(* Rows and files agree if nothing interrupts an upload or a deletion: in  *)
(* Catalog and in both programs of Boot, for any extensions, titles and    *)
(* limit of the numbers, and however clients spell what they delete.       *)
(***************************************************************************)
EXTENDS CatalogProofs, Boot

---------------------------------------------------------------------------
\* The inductive invariant: CatalogAgrees between any two writes.

\* The operation in progress is at one of these steps, on this name.
At(steps, d, n) == op.step \in steps /\ op.dir = d /\ op.name = n
AtCard(steps, d, n) == op.step \in steps /\ op.dir = d /\ OnCard(op.name) = n

OffIsIdle == ~on => op = Idle

\* A deletion in progress has deleted the file.
FileWentFirst == op.step = "unrow" => files[op.dir][OnCard(op.name)] = NoTitle

\* The card has no name but in capital letters.
FilesOnCard == \A d \in Dirs, n \in Names : files[d][n] # NoTitle => OnCard(n) = n

FilesHaveRows ==
    \A d \in Dirs, n \in Names :
        (files[d][n] # NoTitle /\ n \notin orphans[d] /\ ~AtCard({"row"}, d, n)) =>
            \E m \in Spellings(n) : rows[d][m] = files[d][n]

RowsHaveFiles ==
    \A d \in Dirs, n \in Names :
        (rows[d][n] # NoTitle /\ n \notin widows[d] /\ ~At({"unrow"}, d, n)) =>
            files[d][OnCard(n)] = rows[d][n]

\* Why an upload finds its name free in the table.
RowsAreBehind ==
    \A d \in Dirs, n \in Names :
        (rows[d][n] # NoTitle /\ ~At({"count"}, d, n)) => counter[d] # 0 /\ n.id < counter[d]

\* Why it finds it free on the card.
NextIsFree ==
    \A d \in Dirs, n \in Names :
        (/\ n.id >= counter[d] /\ counter[d] # 0 /\ n \notin orphans[d]
         /\ ~AtCard({"row", "count"}, d, n)) => files[d][n] = NoTitle

AgreeInv ==
    /\ CatInv
    /\ OffIsIdle
    /\ FileWentFirst
    /\ FilesOnCard
    /\ FilesHaveRows
    /\ RowsHaveFiles
    /\ RowsAreBehind
    /\ NextIsFree

OnlyRestarts == Faults \subseteq {"restart"}

---------------------------------------------------------------------------

LEMMA InitAgreeInv == Init => AgreeInv
<1> SUFFICES ASSUME Init PROVE AgreeInv
    OBVIOUS
<1>1. \A d \in Dirs, n \in Names : rows[d][n] = NoTitle /\ files[d][n] = NoTitle
    BY DEF Init, Empty
<1>2. op.step = "none"
    BY IdleType DEF Init
<1>3. "files" \in Dirs
    BY DEF Dirs
<1>4. QED
    BY <1>1, <1>2, <1>3, InitCatInv
    DEF Init, AgreeInv, OffIsIdle, FileWentFirst, FilesOnCard, FilesHaveRows, RowsHaveFiles,
        RowsAreBehind, NextIsFree

LEMMA AgreeImplies == AgreeInv => CatalogAgrees
<1> SUFFICES ASSUME AgreeInv, Free PROVE CatalogAgrees
    BY DEF CatalogAgrees
<1>1. op.step = "none"
    BY IdleType DEF Free
<1>2. QED
    BY <1>1
    DEF CatalogAgrees, AgreeInv, FilesHaveRows, RowsHaveFiles, NextIsFree, At, AtCard

\* Steps before and after which no upload or deletion is in progress, and
\* which change no row and no file.
LEMMA AgreeOutside ==
    ASSUME AgreeInv, CatInv', UNCHANGED <<counter, rows, files, orphans, widows>>,
           op.step \notin {"row", "count", "unrow"}, op'.step \notin {"row", "count", "unrow"},
           ~on' => op' = Idle
    PROVE  AgreeInv'
BY DEF AgreeInv, OffIsIdle, FileWentFirst, FilesOnCard, FilesHaveRows, RowsHaveFiles, RowsAreBehind,
       NextIsFree, At, AtCard

LEMMA PowerAgrees ==
    ASSUME OnlyRestarts, AgreeInv, CatInv', PowerOn \/ PowerLoss \/ BootRetry
    PROVE  AgreeInv'
<1>1. op.step \notin {"row", "count", "unrow"}
    <2>1. CASE PowerOn \/ BootRetry
        BY <2>1, IdleType DEF PowerOn, BootRetry, Free, AgreeInv, OffIsIdle
    <2>2. CASE PowerLoss
        BY <2>2 DEF PowerLoss, OnlyRestarts, BootSteps
    <2>3. QED
        BY <2>1, <2>2
<1>2. op'.step \notin {"row", "count", "unrow"}
    BY IdleType DEF PowerOn, PowerLoss, BootRetry, BootSteps
<1>3. ~on' => op' = Idle
    BY DEF PowerOn, PowerLoss, BootRetry, Free, AgreeInv, CatInv, TypeOK
<1>4. QED
    BY <1>1, <1>2, <1>3, AgreeOutside DEF PowerOn, PowerLoss, BootRetry, database, history

LEMMA BootStepAgrees == ASSUME AgreeInv, CatInv', BootStep PROVE AgreeInv'
<1>1. /\ op.step \in BootSteps
      /\ op'.step \notin {"row", "count", "unrow"}
      /\ on' = on
      /\ UNCHANGED <<rows, files, orphans, widows>>
    BY IdleType DEF BootStep, CreateTable, InsertCounter, BootSteps, history
<1>2. op.step \notin {"row", "count", "unrow", "none"} /\ (~on' => op' = Idle)
    BY <1>1, IdleType DEF BootSteps, AgreeInv, OffIsIdle
<1>3. CASE UNCHANGED counter
    BY <1>1, <1>2, <1>3, AgreeOutside
<1>4. ASSUME NEW s \in BootSteps, NEW d \in Dirs, InsertCounter(s, d) PROVE AgreeInv'
    <2>1. /\ \A x \in Dirs : counter[x] # 0 => counter'[x] = counter[x]
          /\ \A x \in Dirs : counter'[x] # counter[x] => counter[x] = 0 /\ counter'[x] = 1
        BY <1>4 DEF InsertCounter, AgreeInv, CatInv, TypeOK
    <2>2. \A x \in Dirs, n \in Names : counter[x] = 0 => rows[x][n] = NoTitle
        BY <1>2 DEF AgreeInv, RowsAreBehind, At
    <2>3. \A x \in Dirs, n \in Names :
              counter[x] = 0 /\ n \notin orphans[x] => files[x][n] = NoTitle
        BY <1>2, <2>2 DEF AgreeInv, FilesHaveRows, AtCard, Spellings
    <2>4. RowsAreBehind'
        BY <1>1, <1>2, <2>1 DEF AgreeInv, RowsAreBehind, At
    <2>5. NextIsFree'
        BY <1>1, <1>2, <2>1, <2>3 DEF AgreeInv, NextIsFree, AtCard
    <2>6. QED
        BY <1>1, <1>2, <2>4, <2>5
        DEF AgreeInv, OffIsIdle, FileWentFirst, FilesOnCard, FilesHaveRows, RowsHaveFiles, At,
            AtCard
<1>5. UNCHANGED counter \/ \E s \in BootSteps, d \in Dirs : InsertCounter(s, d)
    BY DEF BootStep, CreateTable, BootSteps, Dirs
<1>6. QED
    BY <1>3, <1>4, <1>5

---------------------------------------------------------------------------
\* An upload

LEMMA NewFileAgrees == ASSUME AgreeInv, CatInv', NEW d \in Dirs, NewFile(d) PROVE AgreeInv'
<1>1. PICK e \in Exts, title \in Titles :
          /\ files[d][OnCard(NextName(d, e))] = NoTitle
          /\ files' = [files EXCEPT ![d][OnCard(NextName(d, e))] = title]
          /\ op' = [step |-> "row", dir |-> d, name |-> NextName(d, e), title |-> title]
    BY DEF NewFile
<1> DEFINE n == NextName(d, e)
           c == OnCard(n)
<1>2. /\ n \in Names /\ n.id = counter[d]
      /\ c \in Names /\ c.id = counter[d] /\ OnCard(c) = c
    BY CardNames DEF NewFile, NextName, Names
<1>3. op.step = "none" /\ op'.step = "row" /\ op'.dir = d /\ op'.name = n /\ on'
    BY <1>1, IdleType DEF NewFile, Free
<1>4. /\ files[d][c] = NoTitle
      /\ \A x \in Dirs, m \in Names : (x # d \/ m # c) => files'[x][m] = files[x][m]
    BY <1>1, <1>2 DEF AgreeInv, CatInv, TypeOK
<1>5. OnCard(op'.name) = c
    BY <1>3
<1>6. \A m \in Names : OnCard(m) = c => rows[d][m] = NoTitle
    <2>1. SUFFICES ASSUME NEW m \in Names, OnCard(m) = c PROVE rows[d][m] = NoTitle
        OBVIOUS
    <2>2. m.id = counter[d]
        BY <1>2, <2>1, CardNames
    <2>3. QED
        BY <1>3, <2>2, NamesType DEF AgreeInv, RowsAreBehind, At
<1> HIDE DEF n, c
<1>7. UNCHANGED <<counter, rows, orphans, widows>>
    BY DEF NewFile, database, history
<1>8. FilesHaveRows' /\ RowsAreBehind' /\ NextIsFree'
    BY <1>3, <1>4, <1>5, <1>7 DEF AgreeInv, FilesHaveRows, RowsAreBehind, NextIsFree, At, AtCard
<1>9. RowsHaveFiles'
    BY <1>3, <1>4, <1>6, <1>7, CardNames DEF AgreeInv, RowsHaveFiles, At, Dirs
<1>10. FilesOnCard'
    BY <1>2, <1>4 DEF AgreeInv, FilesOnCard
<1>11. QED
    BY <1>3, <1>8, <1>9, <1>10 DEF AgreeInv, OffIsIdle, FileWentFirst

LEMMA NewRowAgrees == ASSUME AgreeInv, CatInv', NewRow PROVE AgreeInv'
<1> DEFINE d == op.dir
           n == op.name
<1>1. d \in Dirs /\ n \in Names /\ files[d][OnCard(n)] = op.title /\ counter[d] = n.id
    BY DEF NewRow, AgreeInv, CatInv, TypeOK, UploadInProgress
<1>2. rows[d][n] = NoTitle
    BY <1>1, NamesType DEF NewRow, AgreeInv, RowsAreBehind, At
<1>3. /\ rows'[d][n] = op.title
      /\ \A x \in Dirs, m \in Names : (x # d \/ m # n) => rows'[x][m] = rows[x][m]
    BY <1>1, <1>2 DEF NewRow, AgreeInv, CatInv, TypeOK
<1>4. op.step = "row" /\ op'.step = "count" /\ op'.dir = d /\ op'.name = n
    BY <1>2 DEF NewRow, AgreeInv, CatInv, TypeOK
<1>5. UNCHANGED <<on, counter, files, orphans, widows>> /\ on
    BY <1>4, IdleType DEF NewRow, history, AgreeInv, OffIsIdle
<1> HIDE DEF d, n
<1>6. d = op.dir /\ n = op.name
    BY DEF d, n
<1>7. FilesHaveRows'
    <2>1. SUFFICES ASSUME NEW x \in Dirs, NEW m \in Names,
                          files[x][m] # NoTitle, m \notin orphans[x]
                   PROVE  \E k \in Spellings(m) : rows'[x][k] = files[x][m]
        BY <1>5 DEF FilesHaveRows
    <2>2. CASE x = d /\ m = OnCard(n)
        <3>1. n \in Spellings(m)
            BY <1>1, <2>2, CardNames DEF Spellings
        <3>2. QED
            BY <1>1, <1>3, <2>2, <3>1
    <2>3. CASE x # d \/ m # OnCard(n)
        <3>1. PICK k \in Spellings(m) : rows[x][k] = files[x][m]
            BY <1>4, <1>6, <2>1, <2>3 DEF AgreeInv, FilesHaveRows, AtCard
        <3>2. k \in Names /\ (x # d \/ k # n)
            BY <1>2, <2>1, <3>1 DEF Spellings
        <3>3. QED
            BY <1>3, <3>1, <3>2
    <2>4. QED
        BY <2>2, <2>3
<1>8. RowsHaveFiles'
    BY <1>1, <1>3, <1>4, <1>5, <1>6 DEF AgreeInv, RowsHaveFiles, At, Dirs
<1>9. RowsAreBehind' /\ NextIsFree'
    BY <1>3, <1>4, <1>5, <1>6 DEF AgreeInv, RowsAreBehind, NextIsFree, At, AtCard
<1>10. QED
    BY <1>4, <1>5, <1>7, <1>8, <1>9 DEF AgreeInv, OffIsIdle, FileWentFirst, FilesOnCard

LEMMA NewCountAgrees == ASSUME AgreeInv, CatInv', NewCount PROVE AgreeInv'
<1> DEFINE d == op.dir
           n == op.name
<1>1. d \in Dirs /\ n \in Names /\ counter[d] = n.id /\ files[d][OnCard(n)] = op.title
      /\ rows[d][n] = op.title
    BY DEF NewCount, AgreeInv, CatInv, TypeOK, UploadInProgress
<1>2. /\ counter'[d] = n.id + 1
      /\ \A x \in Dirs \ {d} : counter'[x] = counter[x]
    BY <1>1 DEF NewCount, AgreeInv, CatInv, TypeOK
<1>3. op.step = "count" /\ op' = Idle /\ op'.step = "none"
    BY IdleType DEF NewCount
<1>4. UNCHANGED <<on, rows, files, orphans, widows>>
    BY DEF NewCount, Give
<1> HIDE DEF d, n
<1>5. d = op.dir /\ n = op.name
    BY DEF d, n
<1>6. FilesHaveRows' /\ RowsHaveFiles'
    BY <1>3, <1>4 DEF AgreeInv, FilesHaveRows, RowsHaveFiles, At, AtCard
<1>7. RowsAreBehind'
    <2>1. SUFFICES ASSUME NEW x \in Dirs, NEW m \in Names, rows[x][m] # NoTitle
                   PROVE  counter'[x] # 0 /\ m.id < counter'[x]
        BY <1>4 DEF RowsAreBehind
    <2>2. CASE x = d /\ m = n
        BY <1>1, <1>2, <2>2, NamesType
    <2>3. CASE x # d
        BY <1>2, <1>5, <2>1, <2>3 DEF AgreeInv, RowsAreBehind, At
    <2>4. CASE x = d /\ m # n
        <3>1. m.id < counter[d]
            BY <1>5, <2>1, <2>4 DEF AgreeInv, RowsAreBehind, At
        <3>2. QED
            BY <1>1, <1>2, <2>4, <3>1, NamesType
    <2>5. QED
        BY <2>2, <2>3, <2>4
<1>8. NextIsFree'
    <2>1. SUFFICES ASSUME NEW x \in Dirs, NEW m \in Names, m \notin orphans[x],
                          m.id >= counter'[x], counter'[x] # 0
                   PROVE  files[x][m] = NoTitle
        BY <1>4 DEF NextIsFree
    <2>2. CASE x # d
        BY <1>2, <1>5, <2>1, <2>2 DEF AgreeInv, NextIsFree, AtCard
    <2>3. CASE x = d
        <3>1. m # OnCard(n) /\ m.id >= counter[d] /\ counter[d] # 0
            BY <1>1, <1>2, <2>1, <2>3, NamesType, CardNames
        <3>2. QED
            BY <1>5, <2>1, <2>3, <3>1 DEF AgreeInv, NextIsFree, AtCard
    <2>4. QED
        BY <2>2, <2>3
<1>9. QED
    BY <1>3, <1>4, <1>6, <1>7, <1>8 DEF AgreeInv, OffIsIdle, FileWentFirst, FilesOnCard

---------------------------------------------------------------------------
\* Deletions

\* What a deletion does to the card keeps the parts that speak of files alone.
LEMMA DeleteOnCardAgrees ==
    ASSUME AgreeInv, NEW d \in Dirs, NEW n \in Names, NEW kept \in SUBSET Names,
           DeleteOnCard(d, n, kept), UNCHANGED <<counter, rows>>, op.step = "none"
    PROVE  /\ files'[d][OnCard(n)] = NoTitle
           /\ \A x \in Dirs, m \in Names :
                  (x # d \/ m # OnCard(n)) => files'[x][m] = files[x][m]
           /\ FilesOnCard' /\ FilesHaveRows' /\ NextIsFree'
           /\ \A x \in Dirs : widows[x] \subseteq widows'[x]
           /\ \A m \in kept : rows[d][m] # NoTitle => m \in widows'[d]
<1>1. /\ files'[d][OnCard(n)] = NoTitle
      /\ \A x \in Dirs, m \in Names : (x # d \/ m # OnCard(n)) => files'[x][m] = files[x][m]
    BY CardNames DEF DeleteOnCard, AgreeInv, CatInv, TypeOK
<1>2. \A x \in Dirs, m \in Names :
          (x # d \/ m # OnCard(n)) => (m \in orphans'[x] <=> m \in orphans[x])
    BY DEF DeleteOnCard, AgreeInv, CatInv, TypeOK
<1>3. /\ \A x \in Dirs : widows[x] \subseteq widows'[x]
      /\ \A m \in kept : rows[d][m] # NoTitle => m \in widows'[d]
    BY DEF DeleteOnCard, AgreeInv, CatInv, TypeOK
<1>4. QED
    BY <1>1, <1>2, <1>3 DEF AgreeInv, FilesOnCard, FilesHaveRows, NextIsFree, AtCard

LEMMA DeleteFileAgrees ==
    ASSUME AgreeInv, CatInv', NEW d \in Dirs, NEW n \in Names, DeleteFile(d, n)
    PROVE  AgreeInv'
<1>1. op.step = "none" /\ on' /\ op'.step = "unrow" /\ op'.dir = d /\ op'.name = n
    BY IdleType DEF DeleteFile, Free
<1>2. UNCHANGED <<counter, rows>>
    BY DEF DeleteFile, database
<1>3. /\ files'[d][OnCard(n)] = NoTitle
      /\ \A x \in Dirs, m \in Names : (x # d \/ m # OnCard(n)) => files'[x][m] = files[x][m]
      /\ FilesOnCard' /\ FilesHaveRows' /\ NextIsFree'
      /\ \A x \in Dirs : widows[x] \subseteq widows'[x]
      /\ \A m \in Spellings(n) \ {n} : rows[d][m] # NoTitle => m \in widows'[d]
    <2>1. Spellings(n) \ {n} \in SUBSET Names
        BY DEF Spellings
    <2>2. QED
        BY <1>1, <1>2, <2>1, DeleteOnCardAgrees DEF DeleteFile
<1>4. \A m \in Names :
          OnCard(m) = OnCard(n) /\ m # n => rows[d][m] = NoTitle \/ m \in widows'[d]
    BY <1>3 DEF Spellings
<1>5. RowsHaveFiles'
    BY <1>1, <1>2, <1>3, <1>4, CardNames DEF AgreeInv, RowsHaveFiles, At, Dirs
<1>6. RowsAreBehind'
    BY <1>1, <1>2 DEF AgreeInv, RowsAreBehind, At
<1>7. FileWentFirst'
    BY <1>1, <1>3 DEF FileWentFirst
<1>8. QED
    BY <1>1, <1>3, <1>5, <1>6, <1>7 DEF AgreeInv, OffIsIdle

LEMMA DeleteRowAgrees == ASSUME AgreeInv, CatInv', DeleteRow PROVE AgreeInv'
<1> DEFINE d == op.dir
           n == op.name
<1>1. d \in Dirs /\ n \in Names /\ files[d][OnCard(n)] = NoTitle
    BY DEF DeleteRow, AgreeInv, CatInv, TypeOK, DeletionInProgress, FileWentFirst
<1>2. /\ rows'[d][n] = NoTitle
      /\ \A x \in Dirs, m \in Names : (x # d \/ m # n) => rows'[x][m] = rows[x][m]
    BY <1>1 DEF DeleteRow, AgreeInv, CatInv, TypeOK
<1>3. op.step = "unrow" /\ op' = Idle /\ op'.step = "none"
    BY IdleType DEF DeleteRow
<1>4. UNCHANGED <<on, counter, files, orphans, widows>>
    BY DEF DeleteRow, history
<1> HIDE DEF d, n
<1>5. d = op.dir /\ n = op.name
    BY DEF d, n
<1>6. FilesHaveRows'
    <2>1. SUFFICES ASSUME NEW x \in Dirs, NEW m \in Names,
                          files[x][m] # NoTitle, m \notin orphans[x]
                   PROVE  \E k \in Spellings(m) : rows'[x][k] = files[x][m]
        BY <1>4 DEF FilesHaveRows
    <2>2. PICK k \in Spellings(m) : rows[x][k] = files[x][m]
        BY <1>3, <2>1 DEF AgreeInv, FilesHaveRows, AtCard
    <2>3. k \in Names /\ OnCard(k) = m
        BY <2>1 DEF AgreeInv, FilesOnCard, Spellings
    <2>4. x # d \/ k # n
        BY <1>1, <2>1, <2>3
    <2>5. QED
        BY <1>2, <2>2, <2>3, <2>4
<1>7. RowsHaveFiles'
    BY <1>1, <1>2, <1>3, <1>4, <1>5 DEF AgreeInv, RowsHaveFiles, At, Dirs
<1>8. RowsAreBehind' /\ NextIsFree'
    BY <1>1, <1>2, <1>3, <1>4 DEF AgreeInv, RowsAreBehind, NextIsFree, At, AtCard
<1>9. QED
    BY <1>3, <1>4, <1>6, <1>7, <1>8 DEF AgreeInv, OffIsIdle, FileWentFirst, FilesOnCard

LEMMA FsMusicDeleteAgrees ==
    ASSUME AgreeInv, CatInv', NEW n \in Names, FsMusicDelete(n)
    PROVE  AgreeInv'
<1>1. op.step = "none" /\ op' = op /\ on' /\ "music" \in Dirs /\ "files" \in Dirs
    BY IdleType DEF FsMusicDelete, Free, Dirs
<1>2. UNCHANGED <<counter, rows>>
    BY DEF FsMusicDelete, database
<1>3. /\ \A x \in Dirs, m \in Names :
             (x # "music" \/ m # OnCard(n)) => files'[x][m] = files[x][m]
      /\ FilesOnCard' /\ FilesHaveRows' /\ NextIsFree'
      /\ \A x \in Dirs : widows[x] \subseteq widows'[x]
      /\ \A m \in Spellings(n) : rows["music"][m] # NoTitle => m \in widows'["music"]
    <2>1. Spellings(n) \in SUBSET Names
        BY DEF Spellings
    <2>2. QED
        BY <1>1, <1>2, <2>1, DeleteOnCardAgrees DEF FsMusicDelete
<1>4. RowsHaveFiles'
    <2>1. \A m \in Names : OnCard(m) = OnCard(n) =>
              rows["music"][m] = NoTitle \/ m \in widows'["music"]
        BY <1>3 DEF Spellings
    <2>2. QED
        BY <1>1, <1>2, <1>3, <2>1, CardNames DEF AgreeInv, RowsHaveFiles, At
<1>5. RowsAreBehind'
    BY <1>1, <1>2 DEF AgreeInv, RowsAreBehind, At
<1>6. QED
    BY <1>1, <1>3, <1>4, <1>5 DEF AgreeInv, OffIsIdle, FileWentFirst

LEMMA DeleteDbAgrees == ASSUME AgreeInv, CatInv', DeleteDb PROVE AgreeInv'
<1>1. op'.step = "none" /\ on' /\ "files" \in Dirs
    BY IdleType DEF DeleteDb, Free, Dirs
<1>2. \A d \in Dirs, n \in Names : rows'[d][n] = NoTitle /\ counter'[d] = 0
    BY DEF DeleteDb, Empty
<1>3. \A d \in Dirs, n \in Names : files'[d][n] # NoTitle => n \in orphans'[d]
    BY DEF DeleteDb
<1>4. FilesOnCard'
    BY DEF DeleteDb, AgreeInv, FilesOnCard
<1>5. QED
    BY <1>1, <1>2, <1>3, <1>4
    DEF AgreeInv, OffIsIdle, FileWentFirst, FilesHaveRows, RowsHaveFiles, RowsAreBehind, NextIsFree

---------------------------------------------------------------------------

LEMMA NextAgreeInv ==
    ASSUME OnlyRestarts
    PROVE  AgreeInv /\ [Next]_vars => AgreeInv'
<1> SUFFICES ASSUME AgreeInv, [Next]_vars PROVE AgreeInv'
    OBVIOUS
<1>1. CatInv'
    BY NextCatInv DEF AgreeInv
<1>2. CASE PowerOn \/ PowerLoss \/ BootRetry
    BY <1>1, <1>2, PowerAgrees
<1>3. CASE BootStep
    BY <1>1, <1>3, BootStepAgrees
<1>4. CASE NewRow \/ NewCount \/ \E d \in Dirs : NewFile(d)
    BY <1>1, <1>4, NewRowAgrees, NewCountAgrees, NewFileAgrees
<1>5. CASE DeleteRow \/ DeleteDb \/ \E d \in Dirs, n \in Names : DeleteFile(d, n)
    BY <1>1, <1>5, DeleteRowAgrees, DeleteDbAgrees, DeleteFileAgrees
<1>6. CASE \E n \in Names : FsMusicDelete(n)
    BY <1>1, <1>6, FsMusicDeleteAgrees
<1>7. CASE Fails
    BY <1>7 DEF Fails, OnlyRestarts
<1>8. CASE UNCHANGED vars
    BY <1>1, <1>8
    DEF vars, AgreeInv, OffIsIdle, FileWentFirst, FilesOnCard, FilesHaveRows, RowsHaveFiles,
        RowsAreBehind, NextIsFree, At, AtCard
<1>9. QED
    BY <1>2, <1>3, <1>4, <1>5, <1>6, <1>7, <1>8 DEF Next

\* If the power fails only while no upload or deletion runs and the card works,
\* then rows and files agree whenever no operation runs, and the next name is
\* free: upload::new and /delete leave nothing half done.  Only a deletion under
\* another spelling and /fs-music-delete leave a row behind.
THEOREM CatalogAgreesTheorem ==
    ASSUME OnlyRestarts
    PROVE  Spec => []CatalogAgrees
<1>1. AgreeInv /\ [Next]_vars => AgreeInv'
    BY NextAgreeInv
<1>2. QED
    BY <1>1, InitAgreeInv, AgreeImplies, PTL DEF Spec

---------------------------------------------------------------------------
\* The two programs of Boot

\* An attempt of init_file_system on a PC ends at a table that exists.
LEMMA AttemptAbandoned ==
    ASSUME AgreeInv, op.step \in BootSteps, op' = Idle,
           UNCHANGED <<on, ready, database, files, history>>
    PROVE  AgreeInv'
<1>1. CatInv'
    BY OpOnly DEF AgreeInv, CatInv, TypeOK
<1>2. op.step \notin {"row", "count", "unrow"} /\ op'.step \notin {"row", "count", "unrow"}
    BY IdleType DEF BootSteps
<1>3. QED
    BY <1>1, <1>2, AgreeOutside DEF database, history

LEMMA TokioBootStepAgrees == ASSUME AgreeInv, TokioBootStep PROVE AgreeInv'
<1>1. ASSUME NEW s \in BootSteps, NEW table, NEW next, CreateTableOnce(s, table, next)
      PROVE  CreateTable(s, table, next) \/ AgreeInv'
    <2>1. CASE table \in tables
        <3>1. tables' = tables /\ op' = Idle /\ op.step \in BootSteps
            BY <1>1, <2>1 DEF CreateTableOnce
        <3>2. QED
            BY <1>1, <3>1, AttemptAbandoned DEF CreateTableOnce, database
    <2>2. CASE table \notin tables
        BY <1>1, <2>2 DEF CreateTableOnce, CreateTable
    <2>3. QED
        BY <2>1, <2>2
<1>2. \A s, d : InsertCounterOnce(s, d) => InsertCounter(s, d)
    BY DEF InsertCounterOnce, InsertCounter
<1>3. BootStep \/ AgreeInv'
    BY <1>1, <1>2 DEF TokioBootStep, BootStep, BootSteps
<1>4. BootStep => AgreeInv'
    BY BootStepAgrees, NextCatInv DEF AgreeInv, Next
<1>5. QED
    BY <1>3, <1>4

LEMMA BootNextAgrees ==
    ASSUME OnlyRestarts, AgreeInv, [BootNext]_<<vars, start>>
    PROVE  AgreeInv'
<1>1. CASE [Next]_vars
    BY <1>1, NextAgreeInv
<1>2. CASE InitFileSystem
    BY <1>2, <1>1, TokioBootStepAgrees DEF InitFileSystem, Next
<1>3. CASE MainStep \/ MoveCard \/ InitFails \/ PowerOff
    <2>1. InitFileSystem \/ [Next]_vars
        BY <1>3 DEF MainStep, Start, Again, Attempt, TakeManager, MoveCard, InitFails, PowerOff, Next
    <2>2. QED
        BY <1>1, <1>2, <2>1
<1>4. CASE NewRequest \/ RequestStep \/ RequestFails
    BY <1>1, <1>4 DEF NewRequest, RequestStep, RequestFails, Next
<1>5. QED
    BY <1>1, <1>3, <1>4 DEF BootNext

\* The same on the device and on a PC, whose attempts may also end at a table
\* that exists.
THEOREM StartsAgreeTheorem ==
    ASSUME OnlyRestarts
    PROVE  BootSpec => []CatalogAgrees
<1>1. BootInit => AgreeInv
    BY InitAgreeInv DEF BootInit
<1>2. AgreeInv /\ [BootNext]_<<vars, start>> => AgreeInv'
    BY BootNextAgrees
<1>3. QED
    BY <1>1, <1>2, AgreeImplies, PTL DEF BootSpec
=============================================================================
