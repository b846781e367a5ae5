--------------------------- MODULE VolumeManager ---------------------------
(***************************************************************************)
(* The handle tables of embedded_sdmmc's VolumeManager<_, _, 4, 4, 1> and  *)
(* the files on the card, as file_manager and server use them.  The crate  *)
(* is not part of this repository: what is stated here is the contract the *)
(* callers rely on.                                                        *)
(*   - A directory may be open many times; each open takes one entry of a  *)
(*     table of fixed size.                                                *)
(*   - A file is open at most once (FileAlreadyOpen), in a second table.   *)
(*   - An open file cannot be deleted.                                     *)
(*   - RawDirectory and RawFile are plain numbers: dropping one closes     *)
(*     nothing.  Directory and File close themselves when dropped.         *)
(***************************************************************************)
EXTENDS Naturals, FiniteSets

CONSTANTS
    Files,      \* files of the music and files directories
    DbFile,     \* alpa::DB_FILE_NAME in the db directory
    WalFile,    \* alpa::WAL_FILE_NAME in the db directory
    DirSlots,   \* the entries of the table of open directories (4 in the code)
    MaxFiles,   \* the size of the table of open files (4 in the code)
    MaxLen      \* bound on the length of a file, in buffers of BUF_SIZE bytes

DbFiles == {DbFile, WalFile}
AllFiles == Files \cup DbFiles

ASSUME VolumeAssumption ==
    /\ IsFiniteSet(Files) /\ IsFiniteSet(DirSlots)
    /\ DbFiles \cap Files = {} /\ DbFile # WalFile
    /\ MaxFiles \in Nat /\ MaxLen \in Nat

VARIABLES
    openDirs,   \* entries in use of the table of open directories
    openFiles,  \* the files in the table of open files
    onCard,     \* the files that exist
    len,        \* their lengths, in buffers
    used        \* the names the counters of the database are past

tables == <<openDirs, openFiles>>
disk == <<onCard, len, used>>

VolumeTypeOK ==
    /\ openDirs \in SUBSET DirSlots
    /\ openFiles \in SUBSET AllFiles
    /\ onCard \in SUBSET AllFiles
    /\ len \in [Files -> 0 .. MaxLen]
    /\ used \in SUBSET Files

\* A freshly mounted volume: nothing is open, the database exists.
VolumeInit ==
    /\ openDirs = {} /\ openFiles = {}
    /\ onCard = DbFiles /\ used = {}
    /\ len = [f \in Files |-> 0]

FreeSlots == DirSlots \ openDirs

\* n more directories fit; otherwise the open that overflows returns
\* TooManyOpenDirs.
CanOpenDirs(n) == Cardinality(FreeSlots) >= n

\* The handles that n directory opens can return.
FreshDirs(n) == {D \in SUBSET FreeSlots : Cardinality(D) = n}

CanOpenFiles(n) == Cardinality(openFiles) + n <= MaxFiles

\* open_file_in_dir: not NotFound, not FileAlreadyOpen, not TooManyOpenFiles.
CanOpenFile(f) == f \in onCard \ openFiles /\ CanOpenFiles(1)

\* Database::new_init opens (and creates when missing) its file and its log.  If
\* it fails, the directory it was given is closed with everything else.
CanOpenDb == DbFiles \cap openFiles = {} /\ CanOpenFiles(Cardinality(DbFiles))

\* delete_file_in_dir refuses an open file and a missing one.
CanDelete(f) == f \in onCard \ openFiles

=============================================================================
