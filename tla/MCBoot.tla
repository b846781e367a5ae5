------------------------------- MODULE MCBoot -------------------------------
(***************************************************************************)
(* Instances of Boot, and of the Catalog in it, for TLC.                   *)
(***************************************************************************)
EXTENDS Boot, TLC

CONSTANTS e1, e2, u1, u2

OneExt == {e1}
TwoExts == {e1, e2}
TwoTitles == {u1, u2}
OneUpper == e1 :> e1
TwoUpper == e1 :> e1 @@ e2 :> e1    \* e1 is e2 in capital letters
AllFaults == {"power", "io"}
Restarts == {"restart"}
Symmetry == Permutations(TwoTitles)
=============================================================================
