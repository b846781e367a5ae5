-------------------------------- MODULE Boot --------------------------------
(***************************************************************************)
(* How the server starts, on the device (actual/src/main.rs with           *)
(* embassy_impl.rs) and on a PC (development/src/main.rs with              *)
(* tokio_impl.rs): the file manager is put into FILE_MAN, with or without  *)
(* a card, and a loop repeats init_file_system until it succeeds.  On the  *)
(* device the HTTP tasks run meanwhile; on a PC they come after the loop.  *)
(* The database and the requests are those of Catalog.                     *)
(***************************************************************************)
EXTENDS Catalog

VARIABLES
    platform,   \* which of the two programs runs
    inserted,   \* a card with a volume is in the slot
    manager,    \* FILE_MAN: unset, or the CardState of the manager in it
    main        \* where main() is

start == <<platform, inserted, manager, main>>

BootInit ==
    /\ Init
    /\ platform \in {"actual", "development"} /\ inserted \in BOOLEAN
    /\ manager = "unset" /\ main = "off"

---------------------------------------------------------------------------
\* The card

\* FileManager::new: NoCard, and try_mount makes it Active if it can.
Mounted == IF inserted THEN "Active" ELSE "NoCard"

\* OnceLock::init: a manager that is there stays, and the new one is dropped.
InitFileManager == IF manager = "unset" THEN Mounted ELSE manager

\* The user puts in a card, or takes out one that is not in use.
MoveCard ==
    /\ manager # "Active" /\ inserted' = ~inserted
    /\ UNCHANGED <<vars, platform, manager, main>>

---------------------------------------------------------------------------
\* main()

\* On a PC the manager is made once, before the loop.
Start ==
    /\ main = "off" /\ main' = "attempt"
    /\ manager' = IF platform = "development" THEN InitFileManager ELSE manager
    /\ UNCHANGED <<vars, platform, inserted>>

\* Mutant: with_vol_man does not wait for the mutex.
TakeManagerAnyway == on' = TRUE /\ op' = Booting("boot1") /\ UNCHANGED <<ready, database, files, history>>

\* with_vol_man has the mutex and an active card.
TakeManager == PowerOn \/ BootRetry

\* init_file_system, which makes the manager itself on the device.
Attempt ==
    /\ main = "attempt"
    /\ manager' = IF platform = "actual" THEN InitFileManager ELSE manager
    /\ \/ manager' = "NoCard" /\ main' = "sleep" /\ UNCHANGED vars
       \/ manager' = "Active" /\ main' = "booting" /\ TakeManager
    /\ UNCHANGED <<platform, inserted>>

\* A row with that name is an error that ends the attempt.
InsertCounterOnce(s, d) ==
    /\ op.step = s /\ counter[d] = 0
    /\ counter' = [counter EXCEPT ![d] = 1]
    /\ UNCHANGED <<on, tables, rows, files, history>>

TokioBootStep ==
    \/ CreateTableOnce("boot1", CountTracker, "boot2")
    \/ CreateTableOnce("boot2", "files", "boot3")
    \/ CreateTableOnce("boot3", "music", "boot4")
    \/ InsertCounterOnce("boot4", "files") /\ op' = Booting("boot5") /\ UNCHANGED ready
    \/ InsertCounterOnce("boot5", "music") /\ op' = Idle /\ ready' = TRUE

\* The loop ends with the first attempt that succeeds.
AfterStep == IF op' # Idle THEN "booting" ELSE IF ready' THEN "serving" ELSE "sleep"

InitFileSystem ==
    /\ main = "booting"
    /\ IF platform = "actual" THEN BootStep ELSE TokioBootStep
    /\ main' = AfterStep
    /\ UNCHANGED <<platform, inserted, manager>>

\* The card fails; ? leaves the closure.
InitFails ==
    /\ main = "booting" /\ Fails /\ main' = "sleep"
    /\ UNCHANGED <<platform, inserted, manager>>

\* A second later.
Again ==
    /\ main = "sleep" /\ main' = "attempt"
    /\ UNCHANGED <<vars, platform, inserted, manager>>

\* Without a card there is nothing that the power loss could disturb.
PowerOff ==
    /\ main # "off" /\ main' = "off" /\ manager' = "unset"
    /\ IF on THEN PowerLoss
       ELSE Faults \cap {"power", "restart"} # {} /\ UNCHANGED vars
    /\ UNCHANGED <<platform, inserted>>

---------------------------------------------------------------------------
\* The requests

\* On a PC nobody listens before the loop has ended.
Listening == platform = "actual" \/ main = "serving"

NewRequest ==
    /\ Listening
    /\ \/ DeleteDb
       \/ \E d \in Dirs : NewFile(d)
       \/ \E d \in Dirs, n \in Names : DeleteFile(d, n)
       \/ platform = "actual" /\ \E n \in Names : FsMusicDelete(n)
    /\ UNCHANGED start

\* What a request does while it has the mutex.
RequestStep == (NewRow \/ NewCount \/ DeleteRow) /\ UNCHANGED start
RequestFails == main # "booting" /\ Fails /\ UNCHANGED start

MainStep == Start \/ Attempt \/ InitFileSystem \/ Again

BootNext ==
    MoveCard \/ MainStep \/ InitFails \/ PowerOff \/ NewRequest \/ RequestStep \/ RequestFails

BootSpec == BootInit /\ [][BootNext]_<<vars, start>>

\* The power comes back, the executor polls main() and the requests.
BootLiveSpec == BootSpec /\ WF_<<vars, start>>(MainStep) /\ WF_<<vars, start>>(RequestStep)

---------------------------------------------------------------------------
\* Refinement.  Both programs do to the card only what Catalog allows, where a
\* table that exists already is a failure on a PC: what holds of Catalog for
\* all faults holds of both.
AnyFault == INSTANCE Catalog WITH Faults <- FaultKinds
StartsImplementCatalog == AnyFault!Spec

\* Liveness: the loop ends if the card was there at the first attempt, on a PC
\* if nobody has used it before: an embassy OnceLock keeps the first manager
\* (embassy_impl.rs:94), and tokio_impl.rs:137 does not accept a table.
Usable == manager = "Active" /\ (platform = "actual" \/ (main = "attempt" /\ tables = {}))
BootEnds == Usable ~> (main \in {"serving", "off"})

=============================================================================
