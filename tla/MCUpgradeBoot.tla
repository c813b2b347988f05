--------------------------- MODULE MCUpgradeBoot ----------------------------
(* One image for each thing that can become of an upgrade.                 *)
EXTENDS UpgradeBoot, TLC

CONSTANTS old, new, broken, late, corrupt

MCImages  == {old, new, broken, late, corrupt}
MCHealth  == old :> "good" @@ new :> "good" @@ broken :> "broken" @@ late :> "late"
               @@ corrupt :> "unloadable"
\* Each image has a version of its own.
MCVersion == old :> 1 @@ new :> 2 @@ broken :> 3 @@ late :> 4 @@ corrupt :> 5
=============================================================================
