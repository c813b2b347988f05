--------------------------- MODULE BootAssessment ---------------------------
(***************************************************************************)
(* What the comment at the head of 08_grub.yaml promises of an upgrade:    *)
(* the new active image gets one try; if it comes through, the trial is    *)
(* over, and if the machine is back at the GRUB menu, the fallback boots.  *)
(* No files, commands, faults or jobs here: module UpgradeBoot has them,   *)
(* and implements this one.                                                *)
(***************************************************************************)

VARIABLES trial,  \* "idle", "upgraded" (the next boot is the try) or "trying"
          stage,  \* how far the machine is
          slot,   \* the menu entry in use
          by      \* who chose it: "auto" is the boot assessment

vars == <<trial, stage, slot, by>>

Entries == {"active", "passive", "recovery", "statereset"}

Init == trial = "idle" /\ stage = "off" /\ slot = "active" /\ by = "auto"

\* The menu's default, and the first of the two sentinels.
Menu == /\ stage = "off" /\ stage' = "menu"
        /\ by' = "auto"
        /\ slot' = (IF trial = "trying" THEN "passive" ELSE "active")
        /\ trial' = (IF trial = "idle" THEN "idle" ELSE "trying")

\* An entry asked for beforehand is not assessed.
MenuSelected == /\ stage = "off" /\ stage' = "menu"
                /\ by' = "selected"
                /\ slot' \in Entries
                /\ UNCHANGED trial

\* Somebody at the menu takes another entry.
Pick == /\ stage = "menu" /\ by' = "picked" /\ slot' \in Entries
        /\ UNCHANGED <<trial, stage>>

\* The entry is loaded, or the one GRUB falls back to when it cannot be.
Load == /\ stage = "menu" /\ stage' = "booting"
        /\ \/ UNCHANGED <<slot, by>>
           \/ by' = "spill" /\ slot' \in Entries
        /\ UNCHANGED trial

\* The active image has come up: the trial is over.
Confirm == /\ stage = "booting" /\ slot = "active"
           /\ trial' = "idle"
           /\ UNCHANGED <<stage, slot, by>>

Up == /\ stage = "booting" /\ slot # "statereset" /\ stage' = "up"
      /\ UNCHANGED <<trial, slot, by>>

\* A reset replaces both images and forgets the trial.
Reset == /\ stage = "booting" /\ slot = "statereset"
         /\ trial' = "idle"
         /\ UNCHANGED <<stage, slot, by>>

\* An upgrade begins a trial; it does not end one in which the fallback was booted.
Upgrade == /\ stage = "up" /\ slot \in {"active", "passive"}
           /\ trial' = (IF trial = "idle" THEN "upgraded" ELSE trial)
           /\ UNCHANGED <<stage, slot, by>>

\* The same, where an earlier trial was forgotten with its second sentinel left.
UpgradeTried == /\ stage = "up" /\ slot \in {"active", "passive"}
                /\ trial = "idle" /\ trial' = "trying"
                /\ UNCHANGED <<stage, slot, by>>

\* A panic, a loss of power or a reboot.
Stop == /\ stage' = "off"
        /\ UNCHANGED <<trial, slot, by>>

Next == \/ Menu \/ MenuSelected \/ Pick \/ Load
        \/ Confirm \/ Up \/ Reset
        \/ Upgrade \/ UpgradeTried \/ Stop

Spec == Init /\ [][Next]_vars /\ WF_vars(Menu \/ MenuSelected)
=============================================================================
