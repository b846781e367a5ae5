--------------------------- MODULE CatalogProofs ---------------------------
(***************************************************************************)
(* Safety of Catalog for any extensions, titles, limit of the numbers and  *)
(* combination of faults.                                                  *)
(***************************************************************************)
EXTENDS Catalog, TLAPS

---------------------------------------------------------------------------
\* The inductive invariant.

\* The names that the database gave out are behind its counter.
SpentIsBehind == \A d \in Dirs : \A n \in spent[d] : n.id < counter[d]

\* Nobody else has the name of the upload in progress.
UploadInProgress ==
    op.step \in {"row", "count"} =>
        /\ op.name \in Names /\ op.title \in Titles
        /\ counter[op.dir] = op.name.id
        /\ files[op.dir][OnCard(op.name)] = op.title
        /\ op.step = "count" => rows[op.dir][op.name] = op.title

\* A row is deleted after its name has been withdrawn.
DeletionInProgress ==
    op.step = "unrow" => op.name \in Names /\ given[op.dir][op.name] = NoTitle

CatInv ==
    /\ TypeOK
    /\ ReportedUploadsAreKept
    /\ NothingBeyondTheCounter
    /\ SpentIsBehind
    /\ UploadInProgress
    /\ DeletionInProgress

\* A step of Next, as NamesGivenOnce sees it.
GivesFreshNames ==
    \A d \in Dirs, n \in Names :
        (given[d][n] = NoTitle /\ given'[d][n] # NoTitle) => n \notin spent[d]

---------------------------------------------------------------------------

LEMMA IdleType ==
    /\ Idle \in [step : Steps, dir : Dirs, name : Names \cup {NoName}, title : Titles \cup {NoTitle}]
    /\ Idle.step = "none"
    /\ \A s \in BootSteps :
           /\ Booting(s) \in [step : Steps, dir : Dirs, name : Names \cup {NoName},
                              title : Titles \cup {NoTitle}]
           /\ Booting(s).step = s
BY DEF Idle, Booting, Steps, BootSteps, Dirs

LEMMA NamesType == \A n \in Names : n.id \in Nat /\ n.id >= 1 /\ n.id < IdLimit
BY CatalogAssumption DEF Names

\* A name on the card is a name, with the number of all its spellings.
LEMMA CardNames ==
    \A n \in Names : /\ OnCard(n) \in Names /\ OnCard(n).id = n.id
                     /\ OnCard(OnCard(n)) = OnCard(n)
                     /\ n \in Spellings(n) /\ OnCard(n) \in Spellings(n)
BY CatalogAssumption DEF OnCard, Names, Spellings

LEMMA InitCatInv == Init => CatInv
<1> SUFFICES ASSUME Init PROVE CatInv
    OBVIOUS
<1>1. \A d \in Dirs, n \in Names :
          given[d][n] = NoTitle /\ rows[d][n] = NoTitle /\ files[d][n] = NoTitle
    BY DEF Init, Empty
<1>2. TypeOK
    <2>1. Empty \in [Dirs -> [Names -> Titles \cup {NoTitle}]]
        BY DEF Empty
    <2>2. counter \in [Dirs -> 0 .. IdLimit]
        BY CatalogAssumption DEF Init
    <2>3. /\ spent \in [Dirs -> SUBSET Names] /\ orphans \in [Dirs -> SUBSET Names]
          /\ widows \in [Dirs -> SUBSET Names]
        BY DEF Init
    <2>4. QED
        BY <2>1, <2>2, <2>3, IdleType DEF Init, TypeOK
<1>3. QED
    BY <1>1, <1>2, IdleType, CardNames
    DEF Init, CatInv, ReportedUploadsAreKept, NothingBeyondTheCounter, SpentIsBehind,
        UploadInProgress, DeletionInProgress

\* Steps that begin or end an operation and write nothing.
LEMMA OpOnly ==
    ASSUME CatInv, UNCHANGED <<database, files, history>>, on' \in BOOLEAN, ready' \in BOOLEAN,
           \/ op' = Idle
           \/ \E s \in BootSteps : op' = Booting(s)
           \/ op' = op
    PROVE  CatInv'
<1>1. op' \in [step : Steps, dir : Dirs, name : Names \cup {NoName}, title : Titles \cup {NoTitle}]
    BY IdleType DEF CatInv, TypeOK
<1>2. op' = op \/ op'.step \notin {"row", "count", "unrow"}
    BY IdleType DEF BootSteps
<1>3. QED
    BY <1>1, <1>2
    DEF CatInv, TypeOK, ReportedUploadsAreKept, NothingBeyondTheCounter, SpentIsBehind,
        UploadInProgress, DeletionInProgress, database, history

LEMMA BootStepCatInv == ASSUME CatInv, BootStep PROVE CatInv'
<1>1. ASSUME NEW s, NEW table \in Dirs \cup {CountTracker}, NEW next \in BootSteps,
             CreateTable(s, table, next)
      PROVE  CatInv'
    <2>1. op' = Booting(next) /\ tables' \subseteq Dirs \cup {CountTracker}
        BY <1>1 DEF CreateTable, CatInv, TypeOK
    <2>2. op'.step \notin {"row", "count", "unrow"}
        BY <2>1, IdleType DEF BootSteps
    <2>3. QED
        BY <1>1, <2>1, <2>2, IdleType
        DEF CreateTable, CatInv, TypeOK, ReportedUploadsAreKept, NothingBeyondTheCounter,
            SpentIsBehind, UploadInProgress, DeletionInProgress, history
<1>2. ASSUME NEW s, NEW d \in Dirs, InsertCounter(s, d), ready' \in BOOLEAN,
             op' = Idle \/ \E b \in BootSteps : op' = Booting(b)
      PROVE  CatInv'
    <2>1. /\ counter' \in [Dirs -> 0 .. IdLimit]
          /\ \A x \in Dirs : counter[x] <= counter'[x]
        BY <1>2, CatalogAssumption DEF InsertCounter, CatInv, TypeOK
    <2>2. /\ op'.step \notin {"row", "count", "unrow"}
          /\ op' \in [step : Steps, dir : Dirs, name : Names \cup {NoName},
                      title : Titles \cup {NoTitle}]
        BY <1>2, IdleType DEF BootSteps
    <2>3. TypeOK'
        BY <1>2, <2>1, <2>2 DEF InsertCounter, CatInv, TypeOK, history
    <2>4. NothingBeyondTheCounter' /\ SpentIsBehind'
        BY <1>2, <2>1, NamesType, CatalogAssumption
        DEF InsertCounter, CatInv, TypeOK, NothingBeyondTheCounter, SpentIsBehind, history
    <2>5. QED
        BY <1>2, <2>2, <2>3, <2>4
        DEF InsertCounter, CatInv, ReportedUploadsAreKept, UploadInProgress, DeletionInProgress,
            history
<1>3. QED
    BY <1>1, <1>2 DEF BootStep, BootSteps, Dirs, CatInv, TypeOK

LEMMA NewFileCatInv == ASSUME CatInv, NEW d \in Dirs, NewFile(d) PROVE CatInv'
<1>1. PICK e \in Exts, title \in Titles :
          /\ files[d][OnCard(NextName(d, e))] = NoTitle
          /\ files' = [files EXCEPT ![d][OnCard(NextName(d, e))] = title]
          /\ op' = [step |-> "row", dir |-> d, name |-> NextName(d, e), title |-> title]
    BY DEF NewFile
<1> DEFINE n == NextName(d, e)
           c == OnCard(n)
<1>2. n \in Names /\ n.id = counter[d] /\ c \in Names /\ c.id = n.id
    BY CardNames DEF NewFile, NextName, Names
<1>3. /\ op' \in [step : Steps, dir : Dirs, name : Names \cup {NoName}, title : Titles \cup {NoTitle}]
      /\ op'.step = "row" /\ op'.dir = d /\ op'.name = n /\ op'.title = title
    BY <1>1, <1>2 DEF Steps
<1>4. /\ files' \in [Dirs -> [Names -> Titles \cup {NoTitle}]]
      /\ files'[d][c] = title
      /\ \A x \in Dirs, m \in Names : (x # d \/ m # c) => files'[x][m] = files[x][m]
    BY <1>1, <1>2 DEF CatInv, TypeOK
<1>0. files[d][c] = NoTitle /\ c = OnCard(n)
    BY <1>1
<1> HIDE DEF n, c
<1>5. TypeOK'
    BY <1>3, <1>4 DEF NewFile, CatInv, TypeOK, database, history
<1>6. ReportedUploadsAreKept'
    <2>1. \A m \in Names : OnCard(m) = c => given[d][m] = NoTitle
        BY <1>0 DEF CatInv, ReportedUploadsAreKept
    <2>2. QED
        BY <1>4, <2>1, CardNames DEF NewFile, CatInv, ReportedUploadsAreKept, database, history
<1>7. NothingBeyondTheCounter'
    BY <1>2, <1>4 DEF NewFile, CatInv, TypeOK, NothingBeyondTheCounter, database, history
<1>8. QED
    BY <1>0, <1>2, <1>3, <1>4, <1>5, <1>6, <1>7
    DEF NewFile, CatInv, SpentIsBehind, UploadInProgress, DeletionInProgress, database, history

LEMMA NewRowCatInv == ASSUME CatInv, NewRow PROVE CatInv'
<1>1. CASE rows[op.dir][op.name] = NoTitle
    <2> DEFINE d == op.dir
               n == op.name
    <2>1. d \in Dirs /\ n \in Names /\ op.title \in Titles /\ files[d][OnCard(n)] = op.title
          /\ counter[d] = n.id
        BY DEF NewRow, CatInv, TypeOK, UploadInProgress
    <2>2. rows' = [rows EXCEPT ![d][n] = op.title] /\ op' = [op EXCEPT !.step = "count"]
        BY <1>1 DEF NewRow
    <2>3. /\ op' \in [step : Steps, dir : Dirs, name : Names \cup {NoName},
                      title : Titles \cup {NoTitle}]
          /\ op'.step = "count" /\ op'.dir = d /\ op'.name = n /\ op'.title = op.title
        BY <2>2 DEF CatInv, TypeOK, Steps
    <2>4. /\ rows' \in [Dirs -> [Names -> Titles \cup {NoTitle}]]
          /\ rows'[d][n] = op.title
          /\ \A x \in Dirs, m \in Names : (x # d \/ m # n) => rows'[x][m] = rows[x][m]
        BY <2>1, <2>2 DEF CatInv, TypeOK
    <2>5. rows[d][n] = NoTitle
        BY <1>1
    <2> HIDE DEF d, n
    <2>6. TypeOK'
        BY <2>3, <2>4 DEF NewRow, CatInv, TypeOK, history
    <2>7. ReportedUploadsAreKept'
        BY <2>4, <2>5 DEF NewRow, CatInv, ReportedUploadsAreKept, history
    <2>8. NothingBeyondTheCounter'
        <3>1. UNCHANGED <<counter, files, orphans>> /\ n.id <= counter[d]
            BY <2>1, NamesType DEF NewRow, history
        <3>2. QED
            BY <2>4, <3>1 DEF CatInv, NothingBeyondTheCounter
    <2>9. QED
        BY <2>1, <2>3, <2>4, <2>6, <2>7, <2>8
        DEF NewRow, CatInv, SpentIsBehind, UploadInProgress, DeletionInProgress, history
<1>2. CASE rows[op.dir][op.name] # NoTitle
    BY <1>2, OpOnly DEF NewRow, database, CatInv, TypeOK
<1>3. QED
    BY <1>1, <1>2

LEMMA NewCountCatInv == ASSUME CatInv, NewCount PROVE CatInv' /\ GivesFreshNames
<1> DEFINE d == op.dir
           n == op.name
<1>1. /\ d \in Dirs /\ n \in Names /\ op.title \in Titles
      /\ files[d][OnCard(n)] = op.title /\ rows[d][n] = op.title /\ counter[d] = n.id
    BY DEF NewCount, CatInv, TypeOK, UploadInProgress
<1>2. /\ counter' \in [Dirs -> 0 .. IdLimit]
      /\ counter'[d] = n.id + 1
      /\ \A x \in Dirs \ {d} : counter'[x] = counter[x]
    BY <1>1, NamesType, CatalogAssumption DEF NewCount, CatInv, TypeOK
<1>3. /\ given' \in [Dirs -> [Names -> Titles \cup {NoTitle}]]
      /\ given'[d][n] = op.title
      /\ \A x \in Dirs, m \in Names : (x # d \/ m # n) => given'[x][m] = given[x][m]
    BY <1>1 DEF NewCount, Give, CatInv, TypeOK
<1>4. /\ spent' \in [Dirs -> SUBSET Names]
      /\ spent'[d] = spent[d] \cup {n}
      /\ \A x \in Dirs \ {d} : spent'[x] = spent[x]
    BY <1>1 DEF NewCount, Give, CatInv, TypeOK
<1>5. op'.step = "none" /\ op' = Idle
    BY IdleType DEF NewCount
<1> HIDE DEF d, n
<1>6. TypeOK'
    BY <1>2, <1>3, <1>4, <1>5, IdleType DEF NewCount, Give, CatInv, TypeOK
<1>7. ReportedUploadsAreKept'
    BY <1>1, <1>3 DEF NewCount, CatInv, ReportedUploadsAreKept
<1>8. NothingBeyondTheCounter'
    BY <1>1, <1>2, NamesType DEF NewCount, Give, CatInv, TypeOK, NothingBeyondTheCounter
<1>9. SpentIsBehind'
    <2>1. SUFFICES ASSUME NEW x \in Dirs, NEW m \in spent'[x] PROVE m.id < counter'[x]
        BY DEF SpentIsBehind
    <2>2. m \in Names
        BY <1>4
    <2>3. CASE x = d
        BY <1>1, <1>2, <1>4, <2>2, <2>3, NamesType DEF CatInv, SpentIsBehind
    <2>4. CASE x # d
        BY <1>2, <1>4, <2>4 DEF CatInv, SpentIsBehind
    <2>5. QED
        BY <2>3, <2>4
<1>10. n \notin spent[d]
    BY <1>1, NamesType DEF CatInv, SpentIsBehind
<1>11. GivesFreshNames
    BY <1>3, <1>10 DEF GivesFreshNames
<1>12. QED
    BY <1>5, <1>6, <1>7, <1>8, <1>9, <1>11 DEF CatInv, UploadInProgress, DeletionInProgress

---------------------------------------------------------------------------
\* Deletions

\* A file is deleted and its name withdrawn while no upload is in progress.
LEMMA DeleteOnCardCatInv ==
    ASSUME CatInv, NEW d \in Dirs, NEW n \in Names, NEW kept \in SUBSET Names,
           DeleteOnCard(d, n, kept),
           UNCHANGED <<on, ready, database>>,
           op' \in [step : Steps, dir : Dirs, name : Names \cup {NoName}, title : Titles \cup {NoTitle}],
           op'.step \notin {"row", "count"},
           op'.step = "unrow" => op'.dir = d /\ op'.name = n
    PROVE  CatInv' /\ GivesFreshNames
<1> DEFINE c == OnCard(n)
<1>1. /\ files' \in [Dirs -> [Names -> Titles \cup {NoTitle}]]
      /\ files'[d][c] = NoTitle
      /\ \A x \in Dirs, m \in Names : (x # d \/ m # c) => files'[x][m] = files[x][m]
    BY CardNames DEF CatInv, TypeOK, DeleteOnCard
<1>2. /\ given' \in [Dirs -> [Names -> Titles \cup {NoTitle}]]
      /\ \A m \in Spellings(n) : given'[d][m] = NoTitle
      /\ \A x \in Dirs, m \in Names :
             (x # d \/ m \notin Spellings(n)) => given'[x][m] = given[x][m]
    BY DEF CatInv, TypeOK, DeleteOnCard, Spellings
<1>3. /\ orphans' \in [Dirs -> SUBSET Names]
      /\ \A x \in Dirs, m \in Names : (x # d \/ m # c) => (m \in orphans'[x] <=> m \in orphans[x])
    BY DEF CatInv, TypeOK, DeleteOnCard
<1>4. TypeOK'
    <2>1. widows' \in [Dirs -> SUBSET Names]
        BY DEF CatInv, TypeOK, DeleteOnCard
    <2>2. QED
        BY <1>1, <1>2, <1>3, <2>1 DEF CatInv, TypeOK, DeleteOnCard, database
<1>5. ReportedUploadsAreKept'
    <2>1. SUFFICES ASSUME NEW x \in Dirs, NEW m \in Names, given'[x][m] # NoTitle
                   PROVE  files'[x][OnCard(m)] = given'[x][m] /\ rows[x][m] = given'[x][m]
        BY DEF ReportedUploadsAreKept, database
    <2>2. given'[x][m] = given[x][m] /\ (x # d \/ OnCard(m) # c)
        BY <1>2, <2>1 DEF Spellings
    <2>3. files'[x][OnCard(m)] = files[x][OnCard(m)]
        BY <1>1, <2>2, CardNames
    <2>4. QED
        BY <2>1, <2>2, <2>3 DEF CatInv, ReportedUploadsAreKept
<1>6. GivesFreshNames
    BY <1>2 DEF GivesFreshNames
<1>7. NothingBeyondTheCounter'
    BY <1>1, <1>3 DEF CatInv, NothingBeyondTheCounter, database
<1>8. n \in Spellings(n)
    BY CardNames
<1>9. QED
    BY <1>2, <1>4, <1>5, <1>6, <1>7, <1>8
    DEF CatInv, SpentIsBehind, UploadInProgress, DeletionInProgress, DeleteOnCard, database

LEMMA DeleteFileCatInv ==
    ASSUME CatInv, NEW d \in Dirs, NEW n \in Names, DeleteFile(d, n)
    PROVE  CatInv' /\ GivesFreshNames
<1>1. /\ op' \in [step : Steps, dir : Dirs, name : Names \cup {NoName}, title : Titles \cup {NoTitle}]
      /\ op'.step = "unrow" /\ op'.dir = d /\ op'.name = n
    BY DEF DeleteFile, Steps
<1>2. QED
    BY <1>1, DeleteOnCardCatInv DEF DeleteFile, Spellings

LEMMA FsMusicDeleteCatInv ==
    ASSUME CatInv, NEW n \in Names, FsMusicDelete(n)
    PROVE  CatInv' /\ GivesFreshNames
<1>1. op' = Idle /\ "music" \in Dirs
    BY DEF FsMusicDelete, Free, Dirs
<1>2. QED
    BY <1>1, IdleType, DeleteOnCardCatInv DEF FsMusicDelete, Spellings

LEMMA DeleteRowCatInv == ASSUME CatInv, DeleteRow PROVE CatInv'
<1> DEFINE d == op.dir
           n == op.name
<1>1. d \in Dirs /\ n \in Names /\ given[d][n] = NoTitle
    BY DEF DeleteRow, CatInv, TypeOK, DeletionInProgress
<1>2. /\ rows' \in [Dirs -> [Names -> Titles \cup {NoTitle}]]
      /\ rows'[d][n] = NoTitle
      /\ \A x \in Dirs, m \in Names : (x # d \/ m # n) => rows'[x][m] = rows[x][m]
    BY <1>1 DEF DeleteRow, CatInv, TypeOK
<1>3. op' = Idle /\ op'.step = "none"
    BY IdleType DEF DeleteRow
<1> HIDE DEF d, n
<1>4. TypeOK'
    BY <1>2, <1>3, IdleType DEF DeleteRow, CatInv, TypeOK, history
<1>5. ReportedUploadsAreKept'
    BY <1>1, <1>2 DEF DeleteRow, CatInv, ReportedUploadsAreKept, history
<1>6. NothingBeyondTheCounter'
    BY <1>2 DEF DeleteRow, CatInv, NothingBeyondTheCounter, history
<1>7. QED
    BY <1>3, <1>4, <1>5, <1>6
    DEF DeleteRow, CatInv, SpentIsBehind, UploadInProgress, DeletionInProgress, history

LEMMA DeleteDbCatInv == ASSUME CatInv, DeleteDb PROVE CatInv' /\ GivesFreshNames
<1>1. op' = Idle /\ op'.step = "none"
    BY IdleType DEF DeleteDb, Free
<1>2. \A d \in Dirs, n \in Names : given'[d][n] = NoTitle /\ rows'[d][n] = NoTitle
    BY DEF DeleteDb, Empty
<1>3. TypeOK'
    BY <1>1, IdleType, CatalogAssumption DEF DeleteDb, CatInv, TypeOK, Empty
<1>4. NothingBeyondTheCounter'
    BY <1>2 DEF DeleteDb, NothingBeyondTheCounter
<1>5. SpentIsBehind'
    BY DEF DeleteDb, SpentIsBehind
<1>6. QED
    BY <1>1, <1>2, <1>3, <1>4, <1>5
    DEF CatInv, ReportedUploadsAreKept, UploadInProgress, DeletionInProgress, GivesFreshNames

---------------------------------------------------------------------------

LEMMA NothingGiven == ASSUME UNCHANGED history PROVE GivesFreshNames
BY DEF GivesFreshNames, history

LEMMA NextCatInv == ASSUME CatInv, [Next]_vars PROVE CatInv' /\ GivesFreshNames
<1>1. CASE PowerOn
    BY <1>1, OpOnly, NothingGiven DEF PowerOn, CatInv, TypeOK, BootSteps
<1>2. CASE PowerLoss
    BY <1>2, OpOnly, NothingGiven DEF PowerLoss, CatInv, TypeOK
<1>3. CASE BootStep
    <2>1. UNCHANGED history
        BY <1>3 DEF BootStep, CreateTable, InsertCounter
    <2>2. QED
        BY <1>3, <2>1, BootStepCatInv, NothingGiven
<1>4. CASE BootRetry
    BY <1>4, OpOnly, NothingGiven DEF BootRetry, CatInv, TypeOK, BootSteps
<1>5. CASE NewRow
    BY <1>5, NewRowCatInv, NothingGiven DEF NewRow
<1>6. CASE NewCount
    BY <1>6, NewCountCatInv
<1>7. CASE DeleteRow
    BY <1>7, DeleteRowCatInv, NothingGiven DEF DeleteRow
<1>8. CASE DeleteDb
    BY <1>8, DeleteDbCatInv
<1>9. CASE Fails
    BY <1>9, OpOnly, NothingGiven DEF Fails, CatInv, TypeOK
<1>10. CASE \E d \in Dirs : NewFile(d)
    BY <1>10, NewFileCatInv, NothingGiven DEF NewFile
<1>11. CASE \E d \in Dirs, n \in Names : DeleteFile(d, n)
    BY <1>11, DeleteFileCatInv
<1>12. CASE \E n \in Names : FsMusicDelete(n)
    BY <1>12, FsMusicDeleteCatInv
<1>13. CASE UNCHANGED vars
    BY <1>13, OpOnly, NothingGiven DEF vars, database, history, CatInv, TypeOK
<1>14. QED
    BY <1>1, <1>2, <1>3, <1>4, <1>5, <1>6, <1>7, <1>8, <1>9, <1>10, <1>11, <1>12, <1>13 DEF Next

\* Every variable of the catalogue stays in its type; the counters stay within
\* the limit of upload::new.
THEOREM CatalogTypeCorrect == Spec => []TypeOK
<1>1. CatInv /\ [Next]_vars => CatInv'
    BY NextCatInv
<1>2. CatInv => TypeOK
    BY DEF CatInv
<1>3. QED
    BY <1>1, <1>2, InitCatInv, PTL DEF Spec

\* What upload::new reports as a success keeps its file and its row until
\* somebody deletes it, through power losses and errors at any write.
THEOREM ReportedUploadsTheorem == Spec => []ReportedUploadsAreKept
<1>1. CatInv /\ [Next]_vars => CatInv'
    BY NextCatInv
<1>2. CatInv => ReportedUploadsAreKept
    BY DEF CatInv
<1>3. QED
    BY <1>1, <1>2, InitCatInv, PTL DEF Spec

\* No file or row has a name beyond the one that the counter gives out next,
\* but for the files of an earlier database.
THEOREM NothingBeyondTheorem == Spec => []NothingBeyondTheCounter
<1>1. CatInv /\ [Next]_vars => CatInv'
    BY NextCatInv
<1>2. CatInv => NothingBeyondTheCounter
    BY DEF CatInv
<1>3. QED
    BY <1>1, <1>2, InitCatInv, PTL DEF Spec

\* One database gives out each name at most once, whatever is interrupted and
\* restarted.
THEOREM NamesGivenOnceTheorem == Spec => NamesGivenOnce
<1>1. CatInv /\ [Next]_vars => CatInv'
    BY NextCatInv
<1>2. CatInv /\ [Next]_vars => [GivesFreshNames]_vars
    BY NextCatInv
<1>3. QED
    BY <1>1, <1>2, InitCatInv, PTL DEF Spec, NamesGivenOnce, GivesFreshNames
=============================================================================
