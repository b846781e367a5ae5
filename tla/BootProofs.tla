----------------------------- MODULE BootProofs -----------------------------
(***************************************************************************)
(* Both programs implement Catalog, for any extensions, titles, limit of   *)
(* the numbers and faults; the theorems of CatalogProofs, which hold for   *)
(* all faults, are then theorems about the device and the PC.              *)
(***************************************************************************)
EXTENDS Boot, TLAPS

---------------------------------------------------------------------------
\* The definitions of Catalog that do not mention Faults are the same in the
\* instance.

LEMMA SameState ==
    /\ Idle = AnyFault!Idle /\ Dirs = AnyFault!Dirs /\ Names = AnyFault!Names
    /\ vars = AnyFault!vars /\ Init = AnyFault!Init
    /\ \A s : Booting(s) = AnyFault!Booting(s)
    /\ \A n : OnCard(n) = AnyFault!OnCard(n) /\ Spellings(n) = AnyFault!Spellings(n)
BY DEF Idle, AnyFault!Idle, NoName, AnyFault!NoName, Dirs, AnyFault!Dirs, Names, AnyFault!Names,
    vars, AnyFault!vars, Init, AnyFault!Init, Empty, AnyFault!Empty, Booting, AnyFault!Booting,
    OnCard, AnyFault!OnCard, Spellings, AnyFault!Spellings

LEMMA PowerImplemented ==
    /\ PowerOn => AnyFault!PowerOn
    /\ PowerLoss => AnyFault!PowerLoss
    /\ BootRetry => AnyFault!BootRetry
    /\ Fails => AnyFault!Fails
BY SameState DEF PowerOn, AnyFault!PowerOn, PowerLoss, AnyFault!PowerLoss, BootRetry,
    AnyFault!BootRetry, Fails, AnyFault!Fails, Free, AnyFault!Free, FaultKinds,
    database, AnyFault!database, history, AnyFault!history

LEMMA BootStepImplemented == BootStep => AnyFault!BootStep
BY SameState DEF BootStep, AnyFault!BootStep, CreateTable, AnyFault!CreateTable,
    InsertCounter, AnyFault!InsertCounter, CountTracker, AnyFault!CountTracker,
    history, AnyFault!history

\* On a PC an attempt that meets a table or a counter changes nothing.
LEMMA TokioBootStepImplemented == TokioBootStep => AnyFault!BootStep \/ AnyFault!Fails
<1>1. ASSUME NEW s, NEW table, NEW next, CreateTableOnce(s, table, next), s # "none"
      PROVE  AnyFault!CreateTable(s, table, next) \/ AnyFault!Fails
    <2>1. op # Idle
        BY <1>1 DEF CreateTableOnce, Idle
    <2>2. CASE table \in tables
        <3>1. tables' = tables /\ op' = Idle
            BY <1>1, <2>2 DEF CreateTableOnce
        <3> QED
            BY <1>1, <2>1, <3>1, SameState
               DEF CreateTableOnce, AnyFault!Fails, FaultKinds, AnyFault!database, history,
                   AnyFault!history
    <2>3. CASE table \notin tables
        BY <1>1, <2>3, SameState
           DEF CreateTableOnce, AnyFault!CreateTable, history, AnyFault!history
    <2> QED
        BY <2>2, <2>3
<1>2. ASSUME NEW s, NEW d, InsertCounterOnce(s, d)
      PROVE  AnyFault!InsertCounter(s, d)
    BY <1>2 DEF InsertCounterOnce, AnyFault!InsertCounter, history, AnyFault!history
<1> QED
    BY <1>1, <1>2, SameState
       DEF TokioBootStep, AnyFault!BootStep, CountTracker, AnyFault!CountTracker

LEMMA RequestImplemented ==
    /\ NewRow => AnyFault!NewRow
    /\ NewCount => AnyFault!NewCount
    /\ DeleteRow => AnyFault!DeleteRow
    /\ DeleteDb => AnyFault!DeleteDb
    /\ \A d \in Dirs : NewFile(d) => AnyFault!NewFile(d)
    /\ \A d \in Dirs, n \in Names : DeleteFile(d, n) => AnyFault!DeleteFile(d, n)
    /\ \A n \in Names : FsMusicDelete(n) => AnyFault!FsMusicDelete(n)
<1> USE SameState DEF Free, AnyFault!Free, database, AnyFault!database, history, AnyFault!history
<1>1. NewRow => AnyFault!NewRow
    BY DEF NewRow, AnyFault!NewRow
<1>2. NewCount => AnyFault!NewCount
    BY DEF NewCount, AnyFault!NewCount, Give, AnyFault!Give
<1>3. DeleteRow => AnyFault!DeleteRow
    BY DEF DeleteRow, AnyFault!DeleteRow
<1>4. DeleteDb => AnyFault!DeleteDb
    BY DEF DeleteDb, AnyFault!DeleteDb, Empty, AnyFault!Empty
<1>5. ASSUME NEW d \in Dirs, NewFile(d) PROVE AnyFault!NewFile(d)
    BY <1>5 DEF NewFile, AnyFault!NewFile, NextName, AnyFault!NextName, CountTracker,
        AnyFault!CountTracker
<1>6. ASSUME NEW d \in Dirs, NEW n \in Names, DeleteFile(d, n) PROVE AnyFault!DeleteFile(d, n)
    BY <1>6
       DEF DeleteFile, AnyFault!DeleteFile, DeleteOnCard, AnyFault!DeleteOnCard, FaultKinds
<1>7. ASSUME NEW n \in Names, FsMusicDelete(n) PROVE AnyFault!FsMusicDelete(n)
    BY <1>7 DEF FsMusicDelete, AnyFault!FsMusicDelete, DeleteOnCard, AnyFault!DeleteOnCard
<1> QED
    BY <1>1, <1>2, <1>3, <1>4, <1>5, <1>6, <1>7

LEMMA StepImplemented == BootNext => AnyFault!Next \/ UNCHANGED vars
<1>1. MoveCard \/ Start \/ Again => UNCHANGED vars
    BY DEF MoveCard, Start, Again
<1>2. Attempt => AnyFault!Next \/ UNCHANGED vars
    BY PowerImplemented DEF Attempt, TakeManager, AnyFault!Next
<1>3. InitFileSystem \/ InitFails => AnyFault!Next
    BY PowerImplemented, BootStepImplemented, TokioBootStepImplemented
       DEF InitFileSystem, InitFails, AnyFault!Next
<1>4. PowerOff => AnyFault!Next \/ UNCHANGED vars
    BY PowerImplemented DEF PowerOff, AnyFault!Next
<1>5. NewRequest => AnyFault!Next
    BY RequestImplemented, SameState DEF NewRequest, AnyFault!Next
<1>6. RequestStep \/ RequestFails => AnyFault!Next
    BY RequestImplemented, PowerImplemented DEF RequestStep, RequestFails, AnyFault!Next
<1> QED
    BY <1>1, <1>2, <1>3, <1>4, <1>5, <1>6 DEF BootNext, MainStep

\* Whatever is in the slot and on the card, whenever the power fails, and
\* however often main() repeats init_file_system: the device and the PC do to
\* the card only what Catalog allows.
THEOREM StartsImplementCatalogTheorem == BootSpec => StartsImplementCatalog
<1>1. BootInit => AnyFault!Init
    BY SameState DEF BootInit
<1>2. [BootNext]_<<vars, start>> => [AnyFault!Next]_(AnyFault!vars)
    <2>1. UNCHANGED vars => UNCHANGED AnyFault!vars
        BY DEF vars, AnyFault!vars
    <2> QED
        BY <2>1, StepImplemented
<1> QED
    BY <1>1, <1>2, PTL DEF BootSpec, StartsImplementCatalog, AnyFault!Spec

---------------------------------------------------------------------------
\* What CatalogProofs proves of Catalog with all faults.
Theory == INSTANCE CatalogProofs WITH Faults <- FaultKinds

\* A step that gives out a name gives out a new one.
GivesFreshNames ==
    \A d \in Dirs, n \in Names :
        (given[d][n] = NoTitle /\ given'[d][n] # NoTitle) => n \notin spent[d]

LEMMA SameCatalog ==
    /\ AnyFault!Init <=> Theory!Init
    /\ [AnyFault!Next]_(AnyFault!vars) <=> [Theory!Next]_(Theory!vars)
<1>1. AnyFault!Init <=> Theory!Init
    BY DEF AnyFault!Init, Theory!Init, AnyFault!Idle, Theory!Idle, AnyFault!NoName, Theory!NoName,
        AnyFault!Empty, Theory!Empty, AnyFault!Dirs, Theory!Dirs, AnyFault!Names, Theory!Names
<1>2. AnyFault!vars = Theory!vars
    BY DEF AnyFault!vars, Theory!vars
<1>3. AnyFault!Next <=> Theory!Next
    BY DEF AnyFault!Next, Theory!Next, AnyFault!PowerOn, Theory!PowerOn, AnyFault!PowerLoss,
        Theory!PowerLoss, AnyFault!BootStep, Theory!BootStep, AnyFault!BootRetry,
        Theory!BootRetry, AnyFault!NewRow, Theory!NewRow, AnyFault!NewCount, Theory!NewCount,
        AnyFault!DeleteRow, Theory!DeleteRow, AnyFault!DeleteDb, Theory!DeleteDb, AnyFault!Fails,
        Theory!Fails, AnyFault!NewFile, Theory!NewFile, AnyFault!DeleteFile, Theory!DeleteFile,
        AnyFault!FsMusicDelete, Theory!FsMusicDelete, AnyFault!CreateTable, Theory!CreateTable,
        AnyFault!InsertCounter, Theory!InsertCounter, AnyFault!DeleteOnCard, Theory!DeleteOnCard,
        AnyFault!OnCard, Theory!OnCard, AnyFault!Spellings, Theory!Spellings, AnyFault!Give,
        Theory!Give, AnyFault!NextName, Theory!NextName, AnyFault!Free, Theory!Free,
        AnyFault!Idle, Theory!Idle, AnyFault!NoName, Theory!NoName,
        AnyFault!Booting, Theory!Booting, AnyFault!BootSteps, Theory!BootSteps, AnyFault!Dirs,
        Theory!Dirs, AnyFault!Names, Theory!Names, AnyFault!CountTracker, Theory!CountTracker,
        AnyFault!Empty, Theory!Empty, AnyFault!database, Theory!database, AnyFault!history,
        Theory!history, AnyFault!FaultKinds, Theory!FaultKinds
<1> QED
    BY <1>1, <1>2, <1>3 DEF AnyFault!vars, Theory!vars

LEMMA FaultsAssumption == Theory!CatalogAssumption
BY CatalogAssumption DEF Theory!CatalogAssumption, Theory!FaultKinds, FaultKinds

LEMMA BootImplementsTheory == BootSpec => Theory!Spec
BY StartsImplementCatalogTheorem, SameCatalog, PTL
   DEF StartsImplementCatalog, AnyFault!Spec, Theory!Spec

LEMMA SameProperties ==
    /\ Theory!TypeOK <=> TypeOK
    /\ Theory!ReportedUploadsAreKept <=> ReportedUploadsAreKept
    /\ Theory!NothingBeyondTheCounter <=> NothingBeyondTheCounter
    /\ [Theory!GivesFreshNames]_(Theory!vars) <=> [GivesFreshNames]_vars
<1>1. Theory!TypeOK <=> TypeOK
    BY DEF Theory!TypeOK, TypeOK, Theory!Steps, Steps, Theory!Dirs, Dirs, Theory!Names, Names,
        Theory!NoName, NoName, Theory!CountTracker, CountTracker
<1>2. /\ Theory!ReportedUploadsAreKept <=> ReportedUploadsAreKept
      /\ Theory!NothingBeyondTheCounter <=> NothingBeyondTheCounter
    BY DEF Theory!ReportedUploadsAreKept, ReportedUploadsAreKept, Theory!NothingBeyondTheCounter,
        NothingBeyondTheCounter, Theory!OnCard, OnCard, Theory!Dirs, Dirs, Theory!Names, Names
<1>3. [Theory!GivesFreshNames]_(Theory!vars) <=> [GivesFreshNames]_vars
    BY DEF Theory!GivesFreshNames, GivesFreshNames, Theory!Dirs, Dirs, Theory!Names, Names,
        Theory!vars, vars
<1> QED
    BY <1>1, <1>2, <1>3

\* On the device and on a PC, through failed attempts and interrupted starts:
\* the counters stay within the limit of upload::new, what was reported as
\* uploaded keeps file and row, and nothing is left beyond the next name.
THEOREM StartsKeepTheCatalog ==
    BootSpec => [](TypeOK /\ ReportedUploadsAreKept /\ NothingBeyondTheCounter)
<1>1. Theory!Spec => [](/\ Theory!TypeOK /\ Theory!ReportedUploadsAreKept
                       /\ Theory!NothingBeyondTheCounter)
    BY FaultsAssumption, Theory!CatalogTypeCorrect, Theory!ReportedUploadsTheorem,
       Theory!NothingBeyondTheorem, PTL
<1> QED
    BY <1>1, BootImplementsTheory, SameProperties, PTL

\* Neither the repetition of init_file_system nor a failure makes either program
\* give out a name twice.
THEOREM StartsGiveNamesOnce == BootSpec => NamesGivenOnce
<1>1. Theory!Spec => [][Theory!GivesFreshNames]_(Theory!vars)
    BY FaultsAssumption, Theory!NamesGivenOnceTheorem, PTL
       DEF Theory!NamesGivenOnce, Theory!GivesFreshNames
<1>2. BootSpec => [][GivesFreshNames]_vars
    BY <1>1, BootImplementsTheory, SameProperties, PTL
<1> QED
    BY <1>2, PTL DEF NamesGivenOnce, GivesFreshNames
=============================================================================
