--------------------------- MODULE MCMusicServer ---------------------------
(***************************************************************************)
(* Instances of MusicServer for TLC.                                       *)
(***************************************************************************)
EXTENDS MusicServer, TLC

CONSTANTS t1, t2, f1, f2, d1, d2, d3, d4

TwoTasks == {t1, t2}        \* http_server_task has pool_size = 2
FourSlots == {d1, d2, d3, d4}
ThreeSlots == {d1, d2, d3}
OneFile == {f1}
TwoFiles == {f1, f2}

\* Tasks, table entries and uploaded files are interchangeable.
Symmetry ==
    Permutations(Tasks) \cup Permutations(DirSlots) \cup Permutations(Files)

FirmwareRoutes == Ops
BrowsingRoutes == {"fsRoot", "list"}
LiveRoutes == {"new", "chunk", "stream", "fsDir", "list"}
NoFaults == {}
DroppedClients == {"write"}
AllFaults == FaultKinds
=============================================================================
