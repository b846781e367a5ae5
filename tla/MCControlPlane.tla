--------------------------- MODULE MCControlPlane ---------------------------
(***************************************************************************)
(* Instances of ControlPlane for TLC: the two HTTP tasks of the firmware,  *)
(* one on the access point and one on the station interface.               *)
(***************************************************************************)
EXTENDS ControlPlane, TLC

CONSTANTS t1, t2, c1, c2

TwoTasks == {t1, t2}
TwoConfigs == {c1, c2}
OneConfig == {c1}
TimerAndRadio == {"timeout", "wifi"}
TimerAndPower == {"timeout", "power"}
NoHazards == {}

\* Clients of both tasks read the stored configuration; those of one also ask
\* for the status, those of the other change both answers.
SharedAsks ==
    t1 :> {"status", "get-flash-data"} @@ t2 :> {"get-flash-data", "write-to-flash", "set-config"}
\* Clients of both tasks read the stored configuration and set the other one;
\* those of one write.
SettingAsks ==
    t1 :> {"get-flash-data", "set-config"} @@ t2 :> {"get-flash-data", "write-to-flash", "set-config"}

Symmetry == Permutations(TwoConfigs)
=============================================================================
