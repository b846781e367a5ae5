------------------------------ MODULE Catalog ------------------------------
(***************************************************************************)
(* The catalogue of uploads: the rows of the database against the files    *)
(* they name, and the counters that make the names (upload.rs, delete.rs,  *)
(* init_file_system of embassy_impl.rs).  Every operation runs under the   *)
(* mutex of the file manager without an await, so no timer and no other    *)
(* request gets between its writes; a power loss or an error of the card   *)
(* does.  Each write to the card is a step of its own.                     *)
(***************************************************************************)
EXTENDS Naturals

CONSTANTS
    Exts,       \* the extensions that clients choose
    Upper,      \* each of them as the card has it, in capital letters
    Titles,     \* what clients call their uploads
    NoTitle,    \* no row, or no file
    IdLimit,    \* the first number that is refused (99999999 in the code)
    Faults      \* what may go wrong, a subset of FaultKinds

FaultKinds == {"power",    \* the power fails between any two writes
               "restart",  \* the power fails while no upload or deletion runs
               "io"}       \* the card fails, or the database refuses a write

Dirs == {"files", "music"}
CountTracker == "count_tracker"
Names == [id : 1 .. (IdLimit - 1), ext : Exts]

\* ShortFileName writes a name in capital letters; the database, the page and
\* the answers to clients keep the name as it is spelled.
OnCard(n) == [n EXCEPT !.ext = Upper[@]]
Spellings(n) == {m \in Names : OnCard(m) = OnCard(n)}

ASSUME CatalogAssumption ==
    /\ Upper \in [Exts -> Exts] /\ \A e \in Exts : Upper[Upper[e]] = Upper[e]
    /\ NoTitle \notin Titles
    /\ IdLimit \in Nat \ {0}
    /\ Faults \subseteq FaultKinds

VARIABLES
    on,         \* the device runs
    ready,      \* the boot loop of main() has ended
    op,         \* the operation that holds the mutex, and its next write
    tables,     \* the tables of the database
    counter,    \* count_tracker: the next number of each directory, 0: no row
    rows,       \* the title in each row of the table of a directory
    files,      \* history: the title with which each file on the card was created
    given,      \* history: the title for which a name was given out, until deleted
    spent,      \* history: the names given out by this database
    orphans,    \* history: the files left behind by DELETE /db
    widows      \* history: the rows left behind by deletions that took their files

vars == <<on, ready, op, tables, counter, rows, files, given, spent, orphans, widows>>
database == <<tables, counter, rows>>
history == <<given, spent, orphans, widows>>

NoName == [id |-> 0, ext |-> NoTitle]
Idle == [step |-> "none", dir |-> "files", name |-> NoName, title |-> NoTitle]
Steps == {"none", "row", "count", "unrow", "boot1", "boot2", "boot3", "boot4", "boot5"}
BootSteps == {"boot1", "boot2", "boot3", "boot4", "boot5"}
Booting(s) == [Idle EXCEPT !.step = s]
Free == on /\ op = Idle

TypeOK ==
    /\ on \in BOOLEAN /\ ready \in BOOLEAN
    /\ op \in [step : Steps, dir : Dirs, name : Names \cup {NoName}, title : Titles \cup {NoTitle}]
    /\ tables \subseteq Dirs \cup {CountTracker}
    /\ counter \in [Dirs -> 0 .. IdLimit]
    /\ rows \in [Dirs -> [Names -> Titles \cup {NoTitle}]]
    /\ files \in [Dirs -> [Names -> Titles \cup {NoTitle}]]
    /\ given \in [Dirs -> [Names -> Titles \cup {NoTitle}]]
    /\ spent \in [Dirs -> SUBSET Names]
    /\ orphans \in [Dirs -> SUBSET Names] /\ widows \in [Dirs -> SUBSET Names]

Empty == [d \in Dirs |-> [n \in Names |-> NoTitle]]

\* A card without a database, and a device that is off.
Init ==
    /\ on = FALSE /\ ready = FALSE /\ op = Idle
    /\ tables = {} /\ counter = [d \in Dirs |-> 0]
    /\ rows = Empty /\ files = Empty /\ given = Empty
    /\ spent = [d \in Dirs |-> {}] /\ orphans = [d \in Dirs |-> {}]
    /\ widows = [d \in Dirs |-> {}]

---------------------------------------------------------------------------
\* Power and boot

\* The first attempt of init_file_system takes the mutex before any request.
PowerOn ==
    /\ ~on /\ on' = TRUE
    /\ op' = Booting("boot1")
    /\ UNCHANGED <<ready, database, files, history>>

PowerLoss ==
    /\ on
    /\ "power" \in Faults \/ ("restart" \in Faults /\ op.step \in BootSteps \cup {"none"})
    /\ on' = FALSE /\ ready' = FALSE /\ op' = Idle
    /\ UNCHANGED <<database, files, history>>

\* create_table in tokio_impl.rs: DuplicateKey is an error that ends the attempt.
CreateTableOnce(s, table, next) ==
    /\ op.step = s
    /\ tables' = tables \cup {table}
    /\ op' = IF table \in tables THEN Idle ELSE Booting(next)
    /\ UNCHANGED <<on, ready, counter, rows, files, history>>

\* create_table in embassy_impl.rs: DuplicateKey counts as success.
CreateTable(s, table, next) ==
    /\ op.step = s
    /\ tables' = tables \cup {table}
    /\ op' = Booting(next)
    /\ UNCHANGED <<on, ready, counter, rows, files, history>>

\* Mutant: a counter that exists is set back.
InsertCounterAnew(s, d) ==
    /\ op.step = s
    /\ counter' = [counter EXCEPT ![d] = 1]
    /\ UNCHANGED <<on, tables, rows, files, history>>

\* Mutant: a counter that exists is advanced, without a look at the limit.
InsertCounterSkips(s, d) ==
    /\ op.step = s
    /\ counter' = [counter EXCEPT ![d] = @ + 1]
    /\ UNCHANGED <<on, tables, rows, files, history>>

\* insert_to_table of (d, 1); a row that exists stays as it is.
InsertCounter(s, d) ==
    /\ op.step = s
    /\ counter' = [counter EXCEPT ![d] = IF @ = 0 THEN 1 ELSE @]
    /\ UNCHANGED <<on, tables, rows, files, history>>

BootStep ==
    \/ CreateTable("boot1", CountTracker, "boot2")
    \/ CreateTable("boot2", "files", "boot3")
    \/ CreateTable("boot3", "music", "boot4")
    \/ InsertCounter("boot4", "files") /\ op' = Booting("boot5") /\ UNCHANGED ready
    \/ InsertCounter("boot5", "music") /\ op' = Idle /\ ready' = TRUE

\* The loop in main() tries again after a second, in which requests may run.
BootRetry ==
    /\ Free /\ ~ready
    /\ op' = Booting("boot1")
    /\ UNCHANGED <<on, ready, database, files, history>>

---------------------------------------------------------------------------
\* upload::new

NextName(d, e) == [id |-> counter[d], ext |-> e]

\* The counter is read and the file created; ReadWriteCreate refuses a name
\* that is on the card.
NewFile(d) ==
    /\ Free /\ {CountTracker, d} \subseteq tables
    /\ counter[d] \in 1 .. (IdLimit - 1)
    /\ \E e \in Exts, title \in Titles :
           /\ files[d][OnCard(NextName(d, e))] = NoTitle
           /\ files' = [files EXCEPT ![d][OnCard(NextName(d, e))] = title]
           /\ op' = [step |-> "row", dir |-> d, name |-> NextName(d, e), title |-> title]
    /\ UNCHANGED <<on, ready, database, history>>

\* Mutant: a row with the same name counts as success.
NewRowTolerant ==
    /\ op.step = "row"
    /\ IF rows[op.dir][op.name] = NoTitle
       THEN rows' = [rows EXCEPT ![op.dir][op.name] = op.title]
       ELSE UNCHANGED rows
    /\ op' = [op EXCEPT !.step = "count"]
    /\ UNCHANGED <<on, ready, tables, counter, files, history>>

\* The row is inserted; a row with the same name is an error.
NewRow ==
    /\ op.step = "row"
    /\ IF rows[op.dir][op.name] = NoTitle
       THEN /\ rows' = [rows EXCEPT ![op.dir][op.name] = op.title]
            /\ op' = [op EXCEPT !.step = "count"]
       ELSE op' = Idle /\ UNCHANGED rows
    /\ UNCHANGED <<on, ready, tables, counter, files, history>>

\* The client is told "success" and the name.
Give(d, n, title) ==
    /\ given' = [given EXCEPT ![d][n] = title]
    /\ spent' = [spent EXCEPT ![d] = @ \cup {n}]
    /\ UNCHANGED <<orphans, widows>>

\* Mutant: the error of the update is ignored.
NewCountUnchecked ==
    /\ op.step = "count" /\ op' = Idle
    /\ \/ counter' = [counter EXCEPT ![op.dir] = op.name.id + 1]
       \/ "io" \in Faults /\ UNCHANGED counter
    /\ Give(op.dir, op.name, op.title)
    /\ UNCHANGED <<on, ready, tables, rows, files>>

NewCount ==
    /\ op.step = "count" /\ op' = Idle
    /\ counter' = [counter EXCEPT ![op.dir] = op.name.id + 1]
    /\ Give(op.dir, op.name, op.title)
    /\ UNCHANGED <<on, ready, tables, rows, files>>

---------------------------------------------------------------------------
\* Deletions

\* The file of that name is deleted, however the client spells it; the rows
\* with the names in kept stay.
DeleteOnCard(d, n, kept) ==
    /\ files' = [files EXCEPT ![d][OnCard(n)] = NoTitle]
    /\ given' = [given EXCEPT ![d] =
                    [m \in Names |-> IF m \in Spellings(n) THEN NoTitle ELSE @[m]]]
    /\ orphans' = [orphans EXCEPT ![d] = @ \ {OnCard(n)}]
    /\ widows' = [widows EXCEPT ![d] = @ \cup {m \in kept : rows[d][m] # NoTitle}]
    /\ UNCHANGED spent

\* Mutant: the handler returns after the file.
DeleteFileOnly(d, n) ==
    /\ Free /\ d \in tables
    /\ DeleteOnCard(d, n, Spellings(n) \ {n})
    /\ UNCHANGED <<on, ready, op, database>>

\* DELETE /delete: the file first, a file that is not there is no error; then
\* the row with the name as the client spells it.
DeleteFile(d, n) ==
    /\ Free /\ d \in tables
    /\ DeleteOnCard(d, n, Spellings(n) \ {n})
    /\ op' = [step |-> "unrow", dir |-> d, name |-> n, title |-> NoTitle]
    /\ UNCHANGED <<on, ready, database>>

DeleteRow ==
    /\ op.step = "unrow" /\ op' = Idle
    /\ rows' = [rows EXCEPT ![op.dir][op.name] = NoTitle]
    /\ UNCHANGED <<on, ready, tables, counter, files, history>>

\* DELETE /fs-music-delete: the file alone.
FsMusicDelete(n) ==
    /\ Free
    /\ DeleteOnCard("music", n, Spellings(n))
    /\ UNCHANGED <<on, ready, op, database>>

\* DELETE /db: the write-ahead log, which no operation needs when none runs,
\* and the database.  The next operation opens a new one without tables.
DeleteDb ==
    /\ Free
    /\ tables' = {} /\ counter' = [d \in Dirs |-> 0] /\ rows' = Empty
    /\ given' = Empty
    /\ spent' = [d \in Dirs |-> {}] /\ widows' = [d \in Dirs |-> {}]
    /\ orphans' = [d \in Dirs |-> {n \in Names : files[d][n] # NoTitle}]
    /\ UNCHANGED <<on, ready, op, files>>

\* A write fails, and ? leaves the operation.
Fails ==
    /\ "io" \in Faults /\ op # Idle /\ op' = Idle
    /\ UNCHANGED <<on, ready, database, files, history>>

Next ==
    \/ PowerOn \/ PowerLoss \/ BootStep \/ BootRetry
    \/ NewRow \/ NewCount \/ DeleteRow \/ DeleteDb \/ Fails
    \/ \E d \in Dirs : NewFile(d)
    \/ \E d \in Dirs, n \in Names : DeleteFile(d, n)
    \/ \E n \in Names : FsMusicDelete(n)

Spec == Init /\ [][Next]_vars

---------------------------------------------------------------------------
\* Safety.  A client was told "success" and a name: until somebody deletes it,
\* its file is on the card and its row is in the table and has its title,
\* through power losses, errors and interrupted uploads and deletions of others.
ReportedUploadsAreKept ==
    \A d \in Dirs, n \in Names : given[d][n] # NoTitle =>
        files[d][OnCard(n)] = given[d][n] /\ rows[d][n] = given[d][n]

\* Action property.  No database gives out a name twice: a link to a deleted
\* song never leads to another one.
NamesGivenOnce ==
    [][\A d \in Dirs, n \in Names :
           (given[d][n] = NoTitle /\ given'[d][n] # NoTitle) => n \notin spent[d]]_vars

\* Safety.  An interrupted upload can leave its name on the card or in the
\* table, but no name beyond the one whose turn it is.
NothingBeyondTheCounter ==
    \A d \in Dirs, n \in Names :
        /\ rows[d][n] # NoTitle => n.id <= counter[d]
        /\ files[d][n] # NoTitle => n \in orphans[d] \/ n.id <= counter[d]

\* Safety, if the power never fails during an upload or a deletion: when no
\* operation runs, the files have their rows, the rows have their files unless
\* the file was deleted under another spelling (delete.rs:28 and 34) or without
\* its row, and the next name is free unless DELETE /db left it behind.
CatalogAgrees ==
    Free => \A d \in Dirs, n \in Names :
        /\ (files[d][n] # NoTitle /\ n \notin orphans[d]) =>
               \E m \in Spellings(n) : rows[d][m] = files[d][n]
        /\ (rows[d][n] # NoTitle /\ n \notin widows[d]) => files[d][OnCard(n)] = rows[d][n]
        /\ (n.id >= counter[d] /\ counter[d] # 0 /\ n \notin orphans[d]) => files[d][n] = NoTitle
=============================================================================
