------------------------- MODULE UpgradeBootProofs --------------------------
(* Proofs about the boot assessment of UpgradeBoot, for every set of images *)
(* of whatever health and version, and every number of faults, choices of   *)
(* the operator and upgrades.                                               *)
EXTENDS UpgradeBoot, TLAPS

\* The actions, split.
LEMMA Cases ==
  ASSUME [Next]_vars
  PROVE  \/ MenuSelected \/ MenuDefault \/ Load
         \/ KernelPanics \/ KernelBoots \/ ClearEnable \/ ClearTentative \/ KeepSentinels
         \/ FailureSentinel \/ LateCrash \/ Reset \/ AfterReset
         \/ Compare \/ AgentUpgrade \/ AgentRecovery \/ SetSentinel \/ InjectHook \/ Finish
         \/ GoDown \/ (\E e \in Entries : Pick(e)) \/ (\E e \in Entries : SetNextEntry(e))
         \/ Restart \/ NewPlan \/ PowerLoss \/ JobFails \/ HookFails \/ UNCHANGED vars
BY Zenon DEF Next, GrubStep, BootStep, JobStep, UserStep, Fault

LEMMA SlotType == \A e \in Entries : SlotOf(e) \in Slots
BY DEF SlotOf, Slots, Entries

\* The disk.
LEMMA DiskTypeStep ==
  ASSUME TypeOK, [Next]_vars
  PROVE  DiskType'
<1> USE DEF TypeOK, DiskType, disk
<1>1. CASE MenuSelected  BY <1>1 DEF MenuSelected
<1>2. CASE MenuDefault  BY <1>2 DEF MenuDefault, Saved, Sentinels
<1>3. CASE Load  BY <1>3 DEF Load, Boot
<1>4. CASE KernelPanics  BY <1>4 DEF KernelPanics, Down
<1>5. CASE KernelBoots  BY <1>5 DEF KernelBoots
<1>6. CASE ClearEnable  BY <1>6 DEF ClearEnable
<1>7. CASE ClearTentative  BY <1>7 DEF ClearTentative
<1>8. CASE KeepSentinels  BY <1>8 DEF KeepSentinels
<1>9. CASE FailureSentinel  BY <1>9 DEF FailureSentinel
<1>10. CASE LateCrash  BY <1>10 DEF LateCrash, Down
<1>11. CASE Reset  BY <1>11 DEF Reset, Restored, Slots
<1>12. CASE AfterReset  BY <1>12 DEF AfterReset, Down
<1>13. CASE Compare  BY <1>13 DEF Compare
<1>14. CASE AgentUpgrade  BY <1>14 DEF AgentUpgrade, JobType, Plans, Backup, Slots
<1>15. CASE AgentRecovery  BY <1>15 DEF AgentRecovery, JobType, Plans
<1>16. CASE SetSentinel  BY <1>16 DEF SetSentinel, Sentinels
<1>17. CASE InjectHook  BY <1>17 DEF InjectHook
<1>18. CASE Finish  BY <1>18 DEF Finish
<1>19. CASE GoDown  BY <1>19 DEF GoDown, Down
<1>20. ASSUME NEW e \in Entries, Pick(e) PROVE DiskType'  BY <1>20 DEF Pick
<1>21. ASSUME NEW e \in Entries, SetNextEntry(e) PROVE DiskType'  BY <1>21 DEF SetNextEntry
<1>22. CASE Restart  BY <1>22 DEF Restart, Down
<1>23. CASE NewPlan  BY <1>23 DEF NewPlan
<1>24. CASE PowerLoss  BY <1>24 DEF PowerLoss, Down
<1>25. CASE JobFails  BY <1>25 DEF JobFails
<1>26. CASE HookFails  BY <1>26 DEF HookFails
<1>27. CASE UNCHANGED vars  BY <1>27 DEF vars
<1> QED  BY Cases, <1>1, <1>2, <1>3, <1>4, <1>5, <1>6, <1>7, <1>8, <1>9, <1>10, <1>11, <1>12,
              <1>13, <1>14, <1>15, <1>16, <1>17, <1>18, <1>19, <1>20, <1>21, <1>22, <1>23, <1>24,
              <1>25, <1>26, <1>27, Zenon

\* The machine.
LEMMA NodeTypeStep ==
  ASSUME TypeOK, [Next]_vars
  PROVE  NodeType'
<1> USE DEF TypeOK, NodeType, node, grub
<1>1. CASE MenuSelected  BY <1>1 DEF MenuSelected, DiskType, Entries, Slots
<1>2. CASE MenuDefault  BY <1>2 DEF MenuDefault, Default, PassiveArgs, Entries, Slots
<1>3. CASE Load
  <2>1. PICK e \in Entries : Boot(e) /\ by' \in {by, "spill"}
    BY <1>3 DEF Load, Entries
  <2>2. img[SlotOf(e)] \in Images  BY SlotType DEF DiskType
  <2> QED  BY <2>1, <2>2 DEF Boot, Booting
<1>4. CASE KernelPanics  BY <1>4 DEF KernelPanics, Down
<1>5. CASE KernelBoots  BY <1>5 DEF KernelBoots, Booting
<1>6. CASE ClearEnable  BY <1>6 DEF ClearEnable, Booting
<1>7. CASE ClearTentative  BY <1>7 DEF ClearTentative, Booting
<1>8. CASE KeepSentinels  BY <1>8 DEF KeepSentinels, Booting
<1>9. CASE FailureSentinel  BY <1>9 DEF FailureSentinel
<1>10. CASE LateCrash  BY <1>10 DEF LateCrash, Down
<1>11. CASE Reset  BY <1>11 DEF Reset
<1>12. CASE AfterReset  BY <1>12 DEF AfterReset, Down
<1>13. CASE Compare  BY <1>13 DEF Compare
<1>14. CASE AgentUpgrade  BY <1>14 DEF AgentUpgrade
<1>15. CASE AgentRecovery  BY <1>15 DEF AgentRecovery
<1>16. CASE SetSentinel  BY <1>16 DEF SetSentinel
<1>17. CASE InjectHook  BY <1>17 DEF InjectHook
<1>18. CASE Finish  BY <1>18 DEF Finish
<1>19. CASE GoDown  BY <1>19 DEF GoDown, Down
<1>20. ASSUME NEW e \in Entries, Pick(e) PROVE NodeType'  BY <1>20 DEF Pick
<1>21. ASSUME NEW e \in Entries, SetNextEntry(e) PROVE NodeType'  BY <1>21 DEF SetNextEntry
<1>22. CASE Restart  BY <1>22 DEF Restart, Down
<1>23. CASE NewPlan  BY <1>23 DEF NewPlan
<1>24. CASE PowerLoss  BY <1>24 DEF PowerLoss, Down
<1>25. CASE JobFails  BY <1>25 DEF JobFails
<1>26. CASE HookFails  BY <1>26 DEF HookFails
<1>27. CASE UNCHANGED vars  BY <1>27 DEF vars
<1> QED  BY Cases, <1>1, <1>2, <1>3, <1>4, <1>5, <1>6, <1>7, <1>8, <1>9, <1>10, <1>11, <1>12,
              <1>13, <1>14, <1>15, <1>16, <1>17, <1>18, <1>19, <1>20, <1>21, <1>22, <1>23, <1>24,
              <1>25, <1>26, <1>27, Zenon

\* The job.
LEMMA JobTypeStep ==
  ASSUME TypeOK, [Next]_vars
  PROVE  JobType'
<1> USE DEF TypeOK, JobType, node, upgrade
<1>1. CASE MenuSelected  BY <1>1 DEF MenuSelected
<1>2. CASE MenuDefault  BY <1>2 DEF MenuDefault
<1>3. CASE Load  BY <1>3 DEF Load, Boot
<1>4. CASE KernelPanics  BY <1>4 DEF KernelPanics, Down
<1>5. CASE KernelBoots  BY <1>5 DEF KernelBoots
<1>6. CASE ClearEnable  BY <1>6 DEF ClearEnable
<1>7. CASE ClearTentative  BY <1>7 DEF ClearTentative
<1>8. CASE KeepSentinels  BY <1>8 DEF KeepSentinels
<1>9. CASE FailureSentinel  BY <1>9 DEF FailureSentinel
<1>10. CASE LateCrash  BY <1>10 DEF LateCrash, Down
<1>11. CASE Reset  BY <1>11 DEF Reset
<1>12. CASE AfterReset  BY <1>12 DEF AfterReset, Down
<1>13. CASE Compare  BY <1>13 DEF Compare
<1>14. CASE AgentUpgrade  BY <1>14 DEF AgentUpgrade
<1>15. CASE AgentRecovery  BY <1>15 DEF AgentRecovery
<1>16. CASE SetSentinel  BY <1>16 DEF SetSentinel
<1>17. CASE InjectHook  BY <1>17 DEF InjectHook
<1>18. CASE Finish  BY <1>18 DEF Finish
<1>19. CASE GoDown  BY <1>19 DEF GoDown, Down
<1>20. ASSUME NEW e \in Entries, Pick(e) PROVE JobType'  BY <1>20 DEF Pick
<1>21. ASSUME NEW e \in Entries, SetNextEntry(e) PROVE JobType'  BY <1>21 DEF SetNextEntry
<1>22. CASE Restart  BY <1>22 DEF Restart, Down
<1>23. CASE NewPlan  BY <1>23 DEF NewPlan
<1>24. CASE PowerLoss  BY <1>24 DEF PowerLoss, Down
<1>25. CASE JobFails  BY <1>25 DEF JobFails
<1>26. CASE HookFails  BY <1>26 DEF HookFails
<1>27. CASE UNCHANGED vars  BY <1>27 DEF vars
<1> QED  BY Cases, <1>1, <1>2, <1>3, <1>4, <1>5, <1>6, <1>7, <1>8, <1>9, <1>10, <1>11, <1>12,
              <1>13, <1>14, <1>15, <1>16, <1>17, <1>18, <1>19, <1>20, <1>21, <1>22, <1>23, <1>24,
              <1>25, <1>26, <1>27, Zenon

\* The history and the counters.
LEMMA HistTypeStep ==
  ASSUME TypeOK, [Next]_vars
  PROVE  HistType'
<1> USE DEF TypeOK, HistType, node, history, counts
<1>1. CASE MenuSelected  BY <1>1 DEF MenuSelected
<1>2. CASE MenuDefault  BY <1>2 DEF MenuDefault
<1>3. CASE Load  BY <1>3 DEF Load, Boot
<1>4. CASE KernelPanics  BY <1>4 DEF KernelPanics, Down
<1>5. CASE KernelBoots  BY <1>5 DEF KernelBoots, NodeType
<1>6. CASE ClearEnable  BY <1>6 DEF ClearEnable
<1>7. CASE ClearTentative  BY <1>7 DEF ClearTentative
<1>8. CASE KeepSentinels  BY <1>8 DEF KeepSentinels
<1>9. CASE FailureSentinel  BY <1>9 DEF FailureSentinel
<1>10. CASE LateCrash  BY <1>10 DEF LateCrash, Down
<1>11. CASE Reset  BY <1>11 DEF Reset
<1>12. CASE AfterReset  BY <1>12 DEF AfterReset, Down
<1>13. CASE Compare  BY <1>13 DEF Compare
<1>14. CASE AgentUpgrade  BY <1>14 DEF AgentUpgrade
<1>15. CASE AgentRecovery  BY <1>15 DEF AgentRecovery
<1>16. CASE SetSentinel  BY <1>16 DEF SetSentinel
<1>17. CASE InjectHook  BY <1>17 DEF InjectHook
<1>18. CASE Finish  BY <1>18 DEF Finish
<1>19. CASE GoDown  BY <1>19 DEF GoDown, Down
<1>20. ASSUME NEW e \in Entries, Pick(e) PROVE HistType'  BY <1>20 DEF Pick
<1>21. ASSUME NEW e \in Entries, SetNextEntry(e) PROVE HistType'  BY <1>21 DEF SetNextEntry
<1>22. CASE Restart  BY <1>22 DEF Restart, Down
<1>23. CASE NewPlan  BY <1>23 DEF NewPlan
<1>24. CASE PowerLoss  BY <1>24 DEF PowerLoss, Down
<1>25. CASE JobFails  BY <1>25 DEF JobFails
<1>26. CASE HookFails  BY <1>26 DEF HookFails
<1>27. CASE UNCHANGED vars  BY <1>27 DEF vars
<1> QED  BY Cases, <1>1, <1>2, <1>3, <1>4, <1>5, <1>6, <1>7, <1>8, <1>9, <1>10, <1>11, <1>12,
              <1>13, <1>14, <1>15, <1>16, <1>17, <1>18, <1>19, <1>20, <1>21, <1>22, <1>23, <1>24,
              <1>25, <1>26, <1>27, Zenon

\* The types at the start.
LEMMA TypeInit == Init => TypeOK
<1> SUFFICES ASSUME Init PROVE TypeOK  OBVIOUS
<1> USE HealthAssumption DEF Init, Entries, Slots
<1>1. DiskType  BY DEF DiskType
<1>2. NodeType  BY DEF NodeType
<1>3. JobType  BY DEF JobType
<1>4. HistType
  <2>1. proven \subseteq Images
    <3>1. Installed \in Images /\ proven = {Installed}  BY Zenon DEF HealthAssumption
    <3> QED  BY <3>1, Zenon
  <2>2. tries \in 0..2
    <3>1. tries = 0  BY Zenon
    <3> QED  BY ONLY <3>1
  <2>3. assessed = "yes" /\ wrote = "no" /\ again = "no"  OBVIOUS
  <2>4. faults \in Nat /\ picks \in Nat /\ plans \in Nat
    <3>1. faults = 0 /\ picks = 0 /\ plans = 1  BY Zenon
    <3> QED  BY ONLY <3>1
  <2> QED  BY <2>1, <2>2, <2>3, <2>4, Zenon DEF HistType
<1> QED  BY <1>1, <1>2, <1>3, <1>4 DEF TypeOK

\* Entries, sentinels and the like stay what they are.
THEOREM TypeCorrect == Spec => []TypeOK
<1>1. TypeOK /\ [Next]_vars => TypeOK'
  <2> SUFFICES ASSUME TypeOK, [Next]_vars PROVE TypeOK'  OBVIOUS
  <2>1. DiskType' /\ NodeType' /\ JobType' /\ HistType'
    BY DiskTypeStep, NodeTypeStep, JobTypeStep, HistTypeStep, Zenon
  <2> QED  BY <2>1 DEF TypeOK
<1> QED  BY TypeInit, <1>1, PTL DEF Spec

-----------------------------------------------------------------------------
(* The invariant.                                                          *)

\* An image that has come up is one that can.
ProvenInv == \A i \in proven : Health[i] \in {"good", "late"}

\* Where the machine is: what runs, is the image of the entry, and is proven once the
\* kernel is past its panics; the job runs on a machine that is up, which until the job
\* replaced it runs the image in active.
StageInv == /\ phase \in Booting => running = img[SlotOf(entry)]
            /\ phase = "kernel" => Health[running] # "unloadable"
            /\ phase \in {"before", "clearing", "report"} => running \in proven
            /\ phase = "clearing" => entry = "active"
            /\ phase = "reset" => entry = "statereset" /\ img["recovery"] \in proven
            /\ phase = "up" => entry # "statereset"
            /\ phase = "up" /\ wrote = "no" /\ entry = "active" => img["active"] \in proven
            /\ phase # "up" => wrote = "no" /\ job \in {"idle", "done"}

\* What the sentinels are worth: enable is there while the hook is injected, and gone when
\* it was cleared; no try is saved where GRUB does not look.
SentinelInv == /\ job = "inject" => "enable" \in env
               /\ hook = "off" => "tentative" \notin env
               /\ phase = "clearing" => "enable" \notin env
               /\ phase = "rehook" => "enable" \notin env

Suspect == assessed = "yes" /\ again = "no" /\ img["active"] \notin proven

\* A try of a suspect is saved before it is loaded, and the next default is passive.
TryInv == Suspect =>
            /\ tries <= 1
            /\ tries = 1 => "tentative" \in env
            /\ phase = "menu" /\ by = "auto" => "tentative" \in env
            /\ phase = "menu" /\ by = "auto" /\ tries = 1 => entry = "passive"

\* The failed trial stays on the disk from the menu to the booted fallback.
ReportInv == /\ phase \in {"menu", "kernel", "before", "report"} /\ entry = "passive" /\ by = "auto"
                  => args = "upgrade_failure"
             /\ phase \in {"menu", "kernel", "before"} /\ args = "upgrade_failure"
                  => "tentative" \in env
             /\ phase = "report" /\ entry = "passive" /\ args = "upgrade_failure"
                  => "tentative" \in env
             /\ report = "failure" => phase = "up"

Guarded == StageInv /\ SentinelInv /\ RollbackTarget /\ SuspectGuarded
IInv    == TypeOK /\ ProvenInv /\ Guarded /\ TryInv /\ ReportInv /\ FallbackIsReported

\* Only what boots is proven.
LEMMA ProvenStep ==
  ASSUME TypeOK, ProvenInv, StageInv, [Next]_vars
  PROVE  ProvenInv'
<1> USE DEF TypeOK, ProvenInv, node, history
<1>1. CASE MenuSelected  BY <1>1 DEF MenuSelected
<1>2. CASE MenuDefault  BY <1>2 DEF MenuDefault
<1>3. CASE Load  BY <1>3 DEF Load, Boot
<1>4. CASE KernelPanics  BY <1>4 DEF KernelPanics, Down
<1>5. CASE KernelBoots
  <2>1. Health[running] \in {"good", "late"}
    <3>1. Health[running] \in {"good", "broken", "late", "unloadable"}
      BY HealthAssumption DEF NodeType
    <3> QED  BY <1>5, <3>1 DEF KernelBoots, StageInv
  <2> QED  BY <1>5, <2>1 DEF KernelBoots
<1>6. CASE ClearEnable  BY <1>6 DEF ClearEnable
<1>7. CASE ClearTentative  BY <1>7 DEF ClearTentative
<1>8. CASE KeepSentinels  BY <1>8 DEF KeepSentinels
<1>9. CASE FailureSentinel  BY <1>9 DEF FailureSentinel
<1>10. CASE LateCrash  BY <1>10 DEF LateCrash, Down
<1>11. CASE Reset  BY <1>11 DEF Reset
<1>12. CASE AfterReset  BY <1>12 DEF AfterReset, Down
<1>13. CASE Compare  BY <1>13 DEF Compare
<1>14. CASE AgentUpgrade  BY <1>14 DEF AgentUpgrade
<1>15. CASE AgentRecovery  BY <1>15 DEF AgentRecovery
<1>16. CASE SetSentinel  BY <1>16 DEF SetSentinel
<1>17. CASE InjectHook  BY <1>17 DEF InjectHook
<1>18. CASE Finish  BY <1>18 DEF Finish
<1>19. CASE GoDown  BY <1>19 DEF GoDown, Down
<1>20. ASSUME NEW e \in Entries, Pick(e) PROVE ProvenInv'  BY <1>20 DEF Pick
<1>21. ASSUME NEW e \in Entries, SetNextEntry(e) PROVE ProvenInv'  BY <1>21 DEF SetNextEntry
<1>22. CASE Restart  BY <1>22 DEF Restart, Down
<1>23. CASE NewPlan  BY <1>23 DEF NewPlan
<1>24. CASE PowerLoss  BY <1>24 DEF PowerLoss, Down
<1>25. CASE JobFails  BY <1>25 DEF JobFails
<1>26. CASE HookFails  BY <1>26 DEF HookFails
<1>27. CASE UNCHANGED vars  BY <1>27 DEF vars
<1> QED  BY Cases, <1>1, <1>2, <1>3, <1>4, <1>5, <1>6, <1>7, <1>8, <1>9, <1>10, <1>11, <1>12,
              <1>13, <1>14, <1>15, <1>16, <1>17, <1>18, <1>19, <1>20, <1>21, <1>22, <1>23, <1>24,
              <1>25, <1>26, <1>27, Zenon

\* The stages of a boot.
LEMMA StageStep ==
  ASSUME TypeOK, StageInv, [Next]_vars
  PROVE  StageInv'
<1> USE DEF TypeOK, StageInv, disk, node, grub, upgrade, history, JobRuns, Booting
<1>1. CASE MenuSelected  BY <1>1 DEF MenuSelected
<1>2. CASE MenuDefault  BY <1>2 DEF MenuDefault
<1>3. CASE Load  BY <1>3 DEF Load, Boot, SlotOf, Loads, Fallback
<1>4. CASE KernelPanics  BY <1>4 DEF KernelPanics, Down
<1>5. CASE KernelBoots  BY <1>5 DEF KernelBoots
<1>6. CASE ClearEnable  BY <1>6 DEF ClearEnable, RemovesSentinels
<1>7. CASE ClearTentative  BY <1>7 DEF ClearTentative
<1>8. CASE KeepSentinels  BY <1>8 DEF KeepSentinels, RemovesSentinels
<1>9. CASE FailureSentinel  BY <1>9 DEF FailureSentinel, SlotOf
<1>10. CASE LateCrash  BY <1>10 DEF LateCrash, Down
<1>11. CASE Reset  BY <1>11 DEF Reset, Restored, Slots
<1>12. CASE AfterReset  BY <1>12 DEF AfterReset, Down
<1>13. CASE Compare  BY <1>13 DEF Compare
<1>14. CASE AgentUpgrade  BY <1>14 DEF AgentUpgrade, Backup, SlotOf
<1>15. CASE AgentRecovery  BY <1>15 DEF AgentRecovery, SlotOf
<1>16. CASE SetSentinel  BY <1>16 DEF SetSentinel
<1>17. CASE InjectHook  BY <1>17 DEF InjectHook
<1>18. CASE Finish  BY <1>18 DEF Finish
<1>19. CASE GoDown  BY <1>19 DEF GoDown, Down
<1>20. ASSUME NEW e \in Entries, Pick(e) PROVE StageInv'  BY <1>20 DEF Pick
<1>21. ASSUME NEW e \in Entries, SetNextEntry(e) PROVE StageInv'  BY <1>21 DEF SetNextEntry
<1>22. CASE Restart  BY <1>22 DEF Restart, Down
<1>23. CASE NewPlan  BY <1>23 DEF NewPlan
<1>24. CASE PowerLoss  BY <1>24 DEF PowerLoss, Down
<1>25. CASE JobFails  BY <1>25 DEF JobFails
<1>26. CASE HookFails  BY <1>26 DEF HookFails
<1>27. CASE UNCHANGED vars  BY <1>27 DEF vars
<1> QED  BY Cases, <1>1, <1>2, <1>3, <1>4, <1>5, <1>6, <1>7, <1>8, <1>9, <1>10, <1>11, <1>12,
              <1>13, <1>14, <1>15, <1>16, <1>17, <1>18, <1>19, <1>20, <1>21, <1>22, <1>23, <1>24,
              <1>25, <1>26, <1>27, Zenon

\* The sentinels.
LEMMA SentinelStep ==
  ASSUME TypeOK, StageInv, SentinelInv, [Next]_vars
  PROVE  SentinelInv'
<1> USE DEF SentinelInv, disk, node, grub, upgrade, history, JobRuns
<1>1. CASE MenuSelected  BY <1>1 DEF MenuSelected
<1>2. CASE MenuDefault  BY <1>2 DEF MenuDefault, Saved, StageInv
<1>3. CASE Load  BY <1>3 DEF Load, Boot
<1>4. CASE KernelPanics  BY <1>4 DEF KernelPanics, Down
<1>5. CASE KernelBoots  BY <1>5 DEF KernelBoots
<1>6. CASE ClearEnable  BY <1>6 DEF ClearEnable, StageInv
<1>7. CASE ClearTentative  BY <1>7 DEF ClearTentative, StageInv
<1>8. CASE KeepSentinels  BY <1>8 DEF KeepSentinels
<1>9. CASE FailureSentinel  BY <1>9 DEF FailureSentinel
<1>10. CASE LateCrash  BY <1>10 DEF LateCrash, Down
<1>11. CASE Reset  BY <1>11 DEF Reset, StageInv
<1>12. CASE AfterReset  BY <1>12 DEF AfterReset, Down, StageInv
<1>13. CASE Compare  BY <1>13 DEF Compare
<1>14. CASE AgentUpgrade  BY <1>14 DEF AgentUpgrade
<1>15. CASE AgentRecovery  BY <1>15 DEF AgentRecovery
<1>16. CASE SetSentinel  BY <1>16 DEF SetSentinel
<1>17. CASE InjectHook  BY <1>17 DEF InjectHook
<1>18. CASE Finish  BY <1>18 DEF Finish
<1>19. CASE GoDown  BY <1>19 DEF GoDown, Down
<1>20. ASSUME NEW e \in Entries, Pick(e) PROVE SentinelInv'  BY <1>20 DEF Pick
<1>21. ASSUME NEW e \in Entries, SetNextEntry(e) PROVE SentinelInv'  BY <1>21 DEF SetNextEntry
<1>22. CASE Restart  BY <1>22 DEF Restart, Down
<1>23. CASE NewPlan  BY <1>23 DEF NewPlan
<1>24. CASE PowerLoss  BY <1>24 DEF PowerLoss, Down
<1>25. CASE JobFails  BY <1>25 DEF JobFails
<1>26. CASE HookFails  BY <1>26 DEF HookFails
<1>27. CASE UNCHANGED vars  BY <1>27 DEF vars
<1> QED  BY Cases, <1>1, <1>2, <1>3, <1>4, <1>5, <1>6, <1>7, <1>8, <1>9, <1>10, <1>11, <1>12,
              <1>13, <1>14, <1>15, <1>16, <1>17, <1>18, <1>19, <1>20, <1>21, <1>22, <1>23, <1>24,
              <1>25, <1>26, <1>27, Zenon

\* What the fallback is.
LEMMA RollbackStep ==
  ASSUME TypeOK, StageInv, RollbackTarget, [Next]_vars
  PROVE  RollbackTarget'
<1> USE DEF RollbackTarget, disk, node, history, JobRuns
<1>1. CASE MenuSelected  BY <1>1 DEF MenuSelected
<1>2. CASE MenuDefault  BY <1>2 DEF MenuDefault
<1>3. CASE Load  BY <1>3 DEF Load, Boot
<1>4. CASE KernelPanics  BY <1>4 DEF KernelPanics, Down
<1>5. CASE KernelBoots  BY <1>5 DEF KernelBoots
<1>6. CASE ClearEnable  BY <1>6 DEF ClearEnable
<1>7. CASE ClearTentative  BY <1>7 DEF ClearTentative
<1>8. CASE KeepSentinels  BY <1>8 DEF KeepSentinels
<1>9. CASE FailureSentinel  BY <1>9 DEF FailureSentinel
<1>10. CASE LateCrash  BY <1>10 DEF LateCrash, Down
<1>11. CASE Reset  BY <1>11 DEF Reset, StageInv, Restored, Slots
<1>12. CASE AfterReset  BY <1>12 DEF AfterReset, Down
<1>13. CASE Compare  BY <1>13 DEF Compare
<1>14. CASE AgentUpgrade
  BY <1>14 DEF AgentUpgrade, TypeOK, DiskType, HistType, StageInv, Backup, Slots
<1>15. CASE AgentRecovery  BY <1>15 DEF AgentRecovery, TypeOK, DiskType, Slots
<1>16. CASE SetSentinel  BY <1>16 DEF SetSentinel
<1>17. CASE InjectHook  BY <1>17 DEF InjectHook
<1>18. CASE Finish  BY <1>18 DEF Finish
<1>19. CASE GoDown  BY <1>19 DEF GoDown, Down
<1>20. ASSUME NEW e \in Entries, Pick(e) PROVE RollbackTarget'  BY <1>20 DEF Pick
<1>21. ASSUME NEW e \in Entries, SetNextEntry(e) PROVE RollbackTarget'  BY <1>21 DEF SetNextEntry
<1>22. CASE Restart  BY <1>22 DEF Restart, Down
<1>23. CASE NewPlan  BY <1>23 DEF NewPlan
<1>24. CASE PowerLoss  BY <1>24 DEF PowerLoss, Down
<1>25. CASE JobFails  BY <1>25 DEF JobFails
<1>26. CASE HookFails  BY <1>26 DEF HookFails
<1>27. CASE UNCHANGED vars  BY <1>27 DEF vars
<1> QED  BY Cases, <1>1, <1>2, <1>3, <1>4, <1>5, <1>6, <1>7, <1>8, <1>9, <1>10, <1>11, <1>12,
              <1>13, <1>14, <1>15, <1>16, <1>17, <1>18, <1>19, <1>20, <1>21, <1>22, <1>23, <1>24,
              <1>25, <1>26, <1>27, Zenon

\* A suspect stays under assessment.
LEMMA GuardStep ==
  ASSUME TypeOK, StageInv, SentinelInv, SuspectGuarded, [Next]_vars
  PROVE  SuspectGuarded'
<1> USE DEF SuspectGuarded, disk, node, history, JobRuns
<1>1. CASE MenuSelected  BY <1>1 DEF MenuSelected
<1>2. CASE MenuDefault  BY <1>2 DEF MenuDefault, Saved
<1>3. CASE Load  BY <1>3 DEF Load, Boot
<1>4. CASE KernelPanics  BY <1>4 DEF KernelPanics, Down
<1>5. CASE KernelBoots  BY <1>5 DEF KernelBoots
<1>6. CASE ClearEnable  BY <1>6 DEF ClearEnable, StageInv, SlotOf, RemovesSentinels, Booting
<1>7. CASE ClearTentative  BY <1>7 DEF ClearTentative
<1>8. CASE KeepSentinels  BY <1>8 DEF KeepSentinels
<1>9. CASE FailureSentinel  BY <1>9 DEF FailureSentinel
<1>10. CASE LateCrash  BY <1>10 DEF LateCrash, Down
<1>11. CASE Reset  BY <1>11 DEF Reset, StageInv, Restored, Slots
<1>12. CASE AfterReset  BY <1>12 DEF AfterReset, Down
<1>13. CASE Compare  BY <1>13 DEF Compare
<1>14. CASE AgentUpgrade  BY <1>14 DEF AgentUpgrade
<1>15. CASE AgentRecovery  BY <1>15 DEF AgentRecovery, TypeOK, DiskType, Slots
<1>16. CASE SetSentinel  BY <1>16 DEF SetSentinel
<1>17. CASE InjectHook  BY <1>17 DEF InjectHook, SentinelInv
<1>18. CASE Finish  BY <1>18 DEF Finish
<1>19. CASE GoDown  BY <1>19 DEF GoDown, Down
<1>20. ASSUME NEW e \in Entries, Pick(e) PROVE SuspectGuarded'  BY <1>20 DEF Pick
<1>21. ASSUME NEW e \in Entries, SetNextEntry(e) PROVE SuspectGuarded'  BY <1>21 DEF SetNextEntry
<1>22. CASE Restart  BY <1>22 DEF Restart, Down
<1>23. CASE NewPlan  BY <1>23 DEF NewPlan
<1>24. CASE PowerLoss  BY <1>24 DEF PowerLoss, Down
<1>25. CASE JobFails  BY <1>25 DEF JobFails
<1>26. CASE HookFails  BY <1>26 DEF HookFails
<1>27. CASE UNCHANGED vars  BY <1>27 DEF vars
<1> QED  BY Cases, <1>1, <1>2, <1>3, <1>4, <1>5, <1>6, <1>7, <1>8, <1>9, <1>10, <1>11, <1>12,
              <1>13, <1>14, <1>15, <1>16, <1>17, <1>18, <1>19, <1>20, <1>21, <1>22, <1>23, <1>24,
              <1>25, <1>26, <1>27, Zenon

\* One try.
LEMMA TryStep ==
  ASSUME IInv, [Next]_vars
  PROVE  TryInv'
<1> USE DEF IInv, Guarded, TryInv, Suspect, disk, node, grub, history, JobRuns
<1>1. CASE MenuSelected  BY <1>1 DEF MenuSelected
<1>2. CASE MenuDefault
  BY <1>2 DEF MenuDefault, Saved, Default, Failed, Sentinels, SuspectGuarded, TypeOK, HistType
<1>3. CASE Load
  <2>1. PICK e \in Entries : Boot(e) /\ (entry = e \/ ~Loads(entry))
    BY <1>3, Zenon DEF Load, Entries, TypeOK, NodeType
  <2>2. img' = img /\ env' = env /\ proven' = proven /\ assessed' = assessed /\ again' = again
        /\ phase' = "kernel"
    BY <2>1 DEF Boot
  <2>3. again = "no" => Loads("passive")
    BY Zenon DEF Loads, SlotOf, ProvenInv, RollbackTarget
  <2>4. CASE ~Suspect  BY <2>2, <2>4
  <2>5. CASE Suspect /\ tries' = tries  BY <2>2, <2>5
  <2>6. CASE Suspect /\ tries' # tries
    <3>1. e = "active" /\ by = "auto" /\ tries' = tries + 1  BY <2>1, <2>6 DEF Boot
    <3>2. "tentative" \in env /\ tries # 1
      <4>1. phase = "menu"  BY <1>3, Zenon DEF Load
      <4>2. "tentative" \in env /\ (tries = 1 => entry = "passive")  BY <2>6, <3>1, <4>1
      <4>3. entry # "passive"  BY <2>1, <2>3, <2>6, <3>1
      <4> QED  BY <4>2, <4>3
    <3>3. tries = 0  BY <2>6, <3>2 DEF TypeOK, HistType
    <3> QED  BY <2>2, <3>1, <3>2, <3>3
  <2> QED  BY <2>4, <2>5, <2>6
<1>4. CASE KernelPanics  BY <1>4 DEF KernelPanics, Down
<1>5. CASE KernelBoots  BY <1>5 DEF KernelBoots
<1>6. CASE ClearEnable  BY <1>6 DEF ClearEnable
<1>7. CASE ClearTentative  BY <1>7 DEF ClearTentative, StageInv, SlotOf, Booting
<1>8. CASE KeepSentinels  BY <1>8 DEF KeepSentinels
<1>9. CASE FailureSentinel  BY <1>9 DEF FailureSentinel
<1>10. CASE LateCrash  BY <1>10 DEF LateCrash, Down
<1>11. CASE Reset  BY <1>11 DEF Reset, StageInv, Restored, Slots
<1>12. CASE AfterReset  BY <1>12 DEF AfterReset, Down
<1>13. CASE Compare  BY <1>13 DEF Compare
<1>14. CASE AgentUpgrade  BY <1>14 DEF AgentUpgrade
<1>15. CASE AgentRecovery  BY <1>15 DEF AgentRecovery
<1>16. CASE SetSentinel  BY <1>16 DEF SetSentinel
<1>17. CASE InjectHook  BY <1>17 DEF InjectHook
<1>18. CASE Finish  BY <1>18 DEF Finish
<1>19. CASE GoDown  BY <1>19 DEF GoDown, Down
<1>20. ASSUME NEW e \in Entries, Pick(e) PROVE TryInv'  BY <1>20 DEF Pick
<1>21. ASSUME NEW e \in Entries, SetNextEntry(e) PROVE TryInv'  BY <1>21 DEF SetNextEntry
<1>22. CASE Restart  BY <1>22 DEF Restart, Down
<1>23. CASE NewPlan  BY <1>23 DEF NewPlan
<1>24. CASE PowerLoss  BY <1>24 DEF PowerLoss, Down
<1>25. CASE JobFails  BY <1>25 DEF JobFails
<1>26. CASE HookFails  BY <1>26 DEF HookFails
<1>27. CASE UNCHANGED vars  BY <1>27 DEF vars
<1> QED  BY Cases, <1>1, <1>2, <1>3, <1>4, <1>5, <1>6, <1>7, <1>8, <1>9, <1>10, <1>11, <1>12,
              <1>13, <1>14, <1>15, <1>16, <1>17, <1>18, <1>19, <1>20, <1>21, <1>22, <1>23, <1>24,
              <1>25, <1>26, <1>27, Zenon

\* The failure is passed on.
LEMMA ReportStep ==
  ASSUME IInv, [Next]_vars
  PROVE  ReportInv'
<1> USE DEF IInv, Guarded, ReportInv, disk, node, grub, history, JobRuns
<1>1. CASE MenuSelected  BY <1>1 DEF MenuSelected
<1>2. CASE MenuDefault  BY <1>2 DEF MenuDefault, Saved, Default, PassiveArgs, Failed, Sentinels
<1>3. CASE Load  BY <1>3 DEF Load, Boot
<1>4. CASE KernelPanics  BY <1>4 DEF KernelPanics, Down
<1>5. CASE KernelBoots  BY <1>5 DEF KernelBoots
<1>6. CASE ClearEnable  BY <1>6 DEF ClearEnable
<1>7. CASE ClearTentative  BY <1>7 DEF ClearTentative, StageInv
<1>8. CASE KeepSentinels  BY <1>8 DEF KeepSentinels
<1>9. CASE FailureSentinel  BY <1>9 DEF FailureSentinel
<1>10. CASE LateCrash  BY <1>10 DEF LateCrash, Down
<1>11. CASE Reset  BY <1>11 DEF Reset
<1>12. CASE AfterReset  BY <1>12 DEF AfterReset, Down
<1>13. CASE Compare  BY <1>13 DEF Compare
<1>14. CASE AgentUpgrade  BY <1>14 DEF AgentUpgrade
<1>15. CASE AgentRecovery  BY <1>15 DEF AgentRecovery
<1>16. CASE SetSentinel  BY <1>16 DEF SetSentinel
<1>17. CASE InjectHook  BY <1>17 DEF InjectHook
<1>18. CASE Finish  BY <1>18 DEF Finish
<1>19. CASE GoDown  BY <1>19 DEF GoDown, Down
<1>20. ASSUME NEW e \in Entries, Pick(e) PROVE ReportInv'  BY <1>20 DEF Pick
<1>21. ASSUME NEW e \in Entries, SetNextEntry(e) PROVE ReportInv'  BY <1>21 DEF SetNextEntry
<1>22. CASE Restart  BY <1>22 DEF Restart, Down
<1>23. CASE NewPlan  BY <1>23 DEF NewPlan
<1>24. CASE PowerLoss  BY <1>24 DEF PowerLoss, Down
<1>25. CASE JobFails  BY <1>25 DEF JobFails
<1>26. CASE HookFails  BY <1>26 DEF HookFails
<1>27. CASE UNCHANGED vars  BY <1>27 DEF vars
<1> QED  BY Cases, <1>1, <1>2, <1>3, <1>4, <1>5, <1>6, <1>7, <1>8, <1>9, <1>10, <1>11, <1>12,
              <1>13, <1>14, <1>15, <1>16, <1>17, <1>18, <1>19, <1>20, <1>21, <1>22, <1>23, <1>24,
              <1>25, <1>26, <1>27, Zenon

\* The failure is reported.
LEMMA FallbackStep ==
  ASSUME IInv, [Next]_vars
  PROVE  FallbackIsReported'
<1> USE DEF IInv, Guarded, ReportInv, FallbackIsReported, disk, node, grub, history, JobRuns
<1>1. CASE MenuSelected  BY <1>1 DEF MenuSelected
<1>2. CASE MenuDefault  BY <1>2 DEF MenuDefault
<1>3. CASE Load  BY <1>3 DEF Load, Boot
<1>4. CASE KernelPanics  BY <1>4 DEF KernelPanics, Down
<1>5. CASE KernelBoots  BY <1>5 DEF KernelBoots
<1>6. CASE ClearEnable  BY <1>6 DEF ClearEnable
<1>7. CASE ClearTentative  BY <1>7 DEF ClearTentative
<1>8. CASE KeepSentinels  BY <1>8 DEF KeepSentinels
<1>9. CASE FailureSentinel  BY <1>9 DEF FailureSentinel
<1>10. CASE LateCrash  BY <1>10 DEF LateCrash, Down
<1>11. CASE Reset  BY <1>11 DEF Reset
<1>12. CASE AfterReset  BY <1>12 DEF AfterReset, Down
<1>13. CASE Compare  BY <1>13 DEF Compare
<1>14. CASE AgentUpgrade  BY <1>14 DEF AgentUpgrade
<1>15. CASE AgentRecovery  BY <1>15 DEF AgentRecovery
<1>16. CASE SetSentinel  BY <1>16 DEF SetSentinel
<1>17. CASE InjectHook  BY <1>17 DEF InjectHook
<1>18. CASE Finish  BY <1>18 DEF Finish
<1>19. CASE GoDown  BY <1>19 DEF GoDown, Down
<1>20. ASSUME NEW e \in Entries, Pick(e) PROVE FallbackIsReported'  BY <1>20 DEF Pick
<1>21. ASSUME NEW e \in Entries, SetNextEntry(e) PROVE FallbackIsReported'
  BY <1>21 DEF SetNextEntry
<1>22. CASE Restart  BY <1>22 DEF Restart, Down
<1>23. CASE NewPlan  BY <1>23 DEF NewPlan
<1>24. CASE PowerLoss  BY <1>24 DEF PowerLoss, Down
<1>25. CASE JobFails  BY <1>25 DEF JobFails
<1>26. CASE HookFails  BY <1>26 DEF HookFails
<1>27. CASE UNCHANGED vars  BY <1>27 DEF vars
<1> QED  BY Cases, <1>1, <1>2, <1>3, <1>4, <1>5, <1>6, <1>7, <1>8, <1>9, <1>10, <1>11, <1>12,
              <1>13, <1>14, <1>15, <1>16, <1>17, <1>18, <1>19, <1>20, <1>21, <1>22, <1>23, <1>24,
              <1>25, <1>26, <1>27, Zenon

-----------------------------------------------------------------------------
\* The installed machine.
LEMMA InitInv == Init => IInv
<1> SUFFICES ASSUME Init PROVE IInv  OBVIOUS
<1>1. TypeOK  BY TypeInit
<1>2. ProvenInv /\ RollbackTarget /\ SuspectGuarded
  BY HealthAssumption DEF Init, ProvenInv, RollbackTarget, SuspectGuarded, Slots
<1>3. StageInv /\ SentinelInv  BY Zenon DEF Init, StageInv, SentinelInv, Booting
<1>4. TryInv
  <2>1. img["active"] \in proven  BY DEF Init, Slots
  <2> QED  BY <2>1 DEF TryInv, Suspect
<1>5. ReportInv /\ FallbackIsReported  BY DEF Init, ReportInv, FallbackIsReported
<1> QED  BY <1>1, <1>2, <1>3, <1>4, <1>5 DEF IInv, Guarded

\* The invariant is inductive.
LEMMA Inductive == Spec => []IInv
<1>1. IInv /\ [Next]_vars => IInv'
  <2> SUFFICES ASSUME IInv, [Next]_vars PROVE IInv'  OBVIOUS
  <2>1. TypeOK'
    BY DiskTypeStep, NodeTypeStep, JobTypeStep, HistTypeStep, Zenon DEF IInv, TypeOK
  <2>2. ProvenInv'  BY ProvenStep, Zenon DEF IInv, Guarded
  <2>3. StageInv'  BY StageStep, Zenon DEF IInv, Guarded
  <2>4. SentinelInv'  BY SentinelStep, Zenon DEF IInv, Guarded
  <2>5. RollbackTarget'  BY RollbackStep, Zenon DEF IInv, Guarded
  <2>6. SuspectGuarded'  BY GuardStep, Zenon DEF IInv, Guarded
  <2>7. TryInv' /\ ReportInv' /\ FallbackIsReported'
    BY TryStep, ReportStep, FallbackStep, Zenon
  <2> QED  BY <2>1, <2>2, <2>3, <2>4, <2>5, <2>6, <2>7 DEF IInv, Guarded
<1> QED  BY InitInv, <1>1, PTL DEF Spec

\* Whatever fails and whoever chooses, the fallback is an image that has come up, unless
\* an upgrade was run again in the boot of an earlier one.
THEOREM RollbackProven == Spec => []RollbackTarget
<1>1. IInv => RollbackTarget  BY DEF IInv, Guarded
<1> QED  BY Inductive, <1>1, PTL

\* No sequence of boots, faults and upgrades takes the assessment from an image that was
\* put under it and has not come up.
THEOREM SuspectStaysGuarded == Spec => []SuspectGuarded
<1>1. IInv => SuspectGuarded  BY DEF IInv, Guarded
<1> QED  BY Inductive, <1>1, PTL

\* GRUB boots such an image by itself once at most.
THEOREM SuspectTriedOnce == Spec => []OneTry
<1>1. IInv => OneTry  BY DEF IInv, TryInv, Suspect, OneTry
<1> QED  BY Inductive, <1>1, PTL

\* A machine that came up on the fallback by itself says so, and no other one does.
THEOREM FallbackReported == Spec => []FallbackIsReported
<1>1. IInv => FallbackIsReported  BY DEF IInv
<1> QED  BY Inductive, <1>1, PTL

-----------------------------------------------------------------------------
(* The protocol that the comment of 08_grub.yaml describes.                *)

\* Every step is one of the protocol, or changes nothing of it.
LEMMA Simulation ==
  ASSUME IInv, [Next]_vars
  PROVE  [Assessment!Next]_(Assessment!vars)
<1> USE DEF IInv, Guarded, disk, node, grub, history, upgrade, JobRuns, Trial, Stage,
            Assessment!vars, Assessment!Next
<1>1. CASE MenuSelected
  BY <1>1 DEF MenuSelected, Assessment!MenuSelected, Assessment!Entries, Entries, Slots,
         TypeOK, DiskType
<1>2. CASE MenuDefault
  <2>1. phase = "off" /\ phase' = "menu" /\ by' = "auto" /\ hook' = hook
        /\ entry' = Default /\ env' = Saved
    BY <1>2 DEF MenuDefault
  <2>2. Failed <=> Trial = "trying"  BY DEF Failed, Sentinels, TypeOK, DiskType
  <2>3. Trial' = IF Trial = "idle" THEN "idle" ELSE "trying"
    BY <2>1 DEF Saved, TypeOK, DiskType
  <2>4. entry' = IF Trial = "trying" THEN "passive" ELSE "active"  BY <2>1, <2>2 DEF Default
  <2>5. Assessment!Menu  BY <2>1, <2>3, <2>4 DEF Assessment!Menu
  <2> QED  BY <2>5
<1>3. CASE Load  BY <1>3 DEF Load, Boot, Assessment!Load, Assessment!Entries, Slots
<1>4. CASE KernelPanics  BY <1>4 DEF KernelPanics, Down, Assessment!Stop
<1>5. CASE KernelBoots  BY <1>5 DEF KernelBoots
<1>6. CASE ClearEnable  BY <1>6 DEF ClearEnable, RemovesSentinels, Assessment!Confirm
<1>7. CASE ClearTentative  BY <1>7 DEF ClearTentative, SentinelInv, StageInv
<1>8. CASE KeepSentinels  BY <1>8 DEF KeepSentinels
<1>9. CASE FailureSentinel  BY <1>9 DEF FailureSentinel, Assessment!Up
<1>10. CASE LateCrash  BY <1>10 DEF LateCrash, Down, Assessment!Stop
<1>11. CASE Reset  BY <1>11 DEF Reset, Assessment!Reset, StageInv
<1>12. CASE AfterReset  BY <1>12 DEF AfterReset, Down, Assessment!Stop, SentinelInv
<1>13. CASE Compare  BY <1>13 DEF Compare
<1>14. CASE AgentUpgrade  BY <1>14 DEF AgentUpgrade
<1>15. CASE AgentRecovery  BY <1>15 DEF AgentRecovery
<1>16. CASE SetSentinel  BY <1>16 DEF SetSentinel, Assessment!Upgrade, Assessment!UpgradeTried
<1>17. CASE InjectHook  BY <1>17 DEF InjectHook, SentinelInv, Assessment!Upgrade
<1>18. CASE Finish  BY <1>18 DEF Finish
<1>19. CASE GoDown  BY <1>19 DEF GoDown, Down, Assessment!Stop
<1>20. ASSUME NEW e \in Entries, Pick(e) PROVE [Assessment!Next]_(Assessment!vars)
  BY <1>20 DEF Pick, Assessment!Pick, Assessment!Entries, Entries, Slots
<1>21. ASSUME NEW e \in Entries, SetNextEntry(e) PROVE [Assessment!Next]_(Assessment!vars)
  BY <1>21 DEF SetNextEntry
<1>22. CASE Restart  BY <1>22 DEF Restart, Down, Assessment!Stop
<1>23. CASE NewPlan  BY <1>23 DEF NewPlan
<1>24. CASE PowerLoss  BY <1>24 DEF PowerLoss, Down, Assessment!Stop
<1>25. CASE JobFails  BY <1>25 DEF JobFails
<1>26. CASE HookFails  BY <1>26 DEF HookFails
<1>27. CASE UNCHANGED vars  BY <1>27 DEF vars
<1> QED  BY Cases, <1>1, <1>2, <1>3, <1>4, <1>5, <1>6, <1>7, <1>8, <1>9, <1>10, <1>11, <1>12,
              <1>13, <1>14, <1>15, <1>16, <1>17, <1>18, <1>19, <1>20, <1>21, <1>22, <1>23, <1>24,
              <1>25, <1>26, <1>27, Zenon

\* The job, GRUB and the booted system, with their files and under every fault, follow
\* the protocol of BootAssessment.
THEOREM Refinement == Spec => Assessment!Init /\ [][Assessment!Next]_(Assessment!vars)
<1>1. Init => Assessment!Init  BY DEF Init, Assessment!Init, Trial, Stage
<1>2. IInv /\ [Next]_vars => [Assessment!Next]_(Assessment!vars)  BY Simulation
<1> QED  BY Inductive, <1>1, <1>2, PTL DEF Spec

=============================================================================
