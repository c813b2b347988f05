---------------------------- MODULE UpgradeBoot ----------------------------
(***************************************************************************)
(* The life of a machine that was installed from a Kairos image, as far as *)
(* the files kairos-init puts in the image decide it: the job that         *)
(* upgrades it (SucUpgrade), the boot menu (GrubCfg, BootArgsCfg) and the  *)
(* boot assessment of cloudconfigs/08_grub.yaml, with the automatic reset  *)
(* of 51_reset.yaml.  The job, GRUB and the booted system share two slots  *)
(* for images and the environment block boot_assessment; the power may be  *)
(* lost at any step.                                                       *)
(*                                                                         *)
(* kairos-agent and the controller that runs the job are external: the     *)
(* agent backs up the active image when it runs on it, then replaces it,   *)
(* and runs the hooks; the controller runs a job again until it exits 0.   *)
(***************************************************************************)
EXTENDS Naturals

CONSTANTS Images,     \* the images there are
          Installed,  \* the one the machine was installed from
          Health,     \* per image: what becomes of a boot of it
          Version,    \* per image: what get_version prints of its release file
          MaxFaults,  \* bound: losses of power and failing commands
          MaxPicks,   \* bound: entries chosen by hand
          MaxPlans    \* bound: upgrades asked for

ASSUME HealthAssumption == /\ Installed \in Images
                           /\ Health \in [Images -> {"good", "broken", "late", "unloadable"}]
                           /\ Health[Installed] = "good"

VARIABLES img,       \* per slot: the image in it
          env,       \* the sentinels of boot_assessment that are "yes"
          hook,      \* whether grubcustom sources grub_boot_assessment
          next,      \* next_entry of the GRUB environment
          phase,     \* how far the machine is
          entry,     \* the menu entry: the default, then the one booted
          by,        \* who chose it
          args,      \* extra_passive_cmdline
          running,   \* the image that was booted
          report,    \* /run/cos/upgrade_failure
          job,       \* the next command of the upgrade job
          plan,      \* what it upgrades, and to which image
          rebooting, \* a reboot was asked for
          proven,    \* history: the images that have come up
          assessed,  \* history: the hooks ran for the image in active
          wrote,     \* history: active was replaced since the last boot
          again,     \* history: ... and then once more, from active
          tries,     \* history: automatic boots of an image in active not proven yet, up to 2
          faults, picks, plans

disk    == <<img, env, hook, next>>
grub    == <<entry, by, args>>
node    == <<phase, grub, running, report>>
upgrade == <<job, plan, rebooting>>
history == <<proven, assessed, wrote, again, tries>>
counts  == <<faults, picks, plans>>
vars    == <<disk, node, upgrade, history, counts>>

Slots     == {"active", "passive", "recovery"}
Entries   == Slots \cup {"statereset"}
Sentinels == {"enable", "tentative"}
Booting   == {"kernel", "before", "clearing", "report"}
Plans     == [image : Images, target : {"system", "recovery"}, force : {"true", ""}]

\* menuentry statereset boots the recovery image.
SlotOf(e) == IF e = "statereset" THEN "recovery" ELSE e

DiskType == /\ img \in [Slots -> Images] /\ env \subseteq Sentinels
            /\ hook \in {"on", "off"} /\ next \in Entries \cup {"none"}
NodeType == /\ phase \in {"off", "menu", "reset", "rehook", "up"} \cup Booting
            /\ entry \in Entries /\ by \in {"auto", "selected", "picked", "spill"}
            /\ args \in {"", "upgrade_failure"} /\ running \in Images
            /\ report \in {"none", "failure"}
JobType  == /\ job \in {"idle", "agent", "sentinel", "inject", "reboot", "done"}
            /\ plan \in Plans /\ rebooting \in {"no", "yes"}
HistType == /\ proven \subseteq Images /\ assessed \in {"no", "yes"}
            /\ wrote \in {"no", "yes"} /\ again \in {"no", "yes"}
            /\ tries \in 0..2 /\ faults \in Nat /\ picks \in Nat /\ plans \in Nat
TypeOK   == DiskType /\ NodeType /\ JobType /\ HistType

\* After the installation: its hooks ran, and set no sentinel.
Init == /\ img = [s \in Slots |-> Installed] /\ env = {} /\ hook = "on" /\ next = "none"
        /\ phase = "off" /\ entry = "active" /\ by = "auto" /\ args = ""
        /\ running = Installed /\ report = "none"
        /\ job = "idle" /\ plan \in Plans /\ rebooting = "no"
        /\ proven = {Installed} /\ assessed = "yes" /\ wrote = "no" /\ again = "no"
        /\ tries = 0 /\ faults = 0 /\ picks = 0 /\ plans = 1

-----------------------------------------------------------------------------
(* GRUB.                                                                   *)

\* grub.cfg: an entry asked for beforehand, which grub_boot_assessment then leaves alone.
MenuSelected == /\ phase = "off" /\ next # "none"
                /\ phase' = "menu" /\ entry' = next /\ next' = "none"
                /\ by' = "selected" /\ args' = ""
                /\ UNCHANGED <<img, env, hook, running, report, upgrade, history, counts>>

\* grub_boot_assessment, through grubcustom: a second sight of the menu is a failure; at
\* the first the try is saved.  (Mutants: it is not; the failure is not passed on, or
\* changes nothing else.)
Failed == hook = "on" /\ Sentinels \subseteq env

NothingSaved == env
Saved == IF hook = "on" /\ "enable" \in env THEN env \cup {"tentative"} ELSE env

AlwaysActive == "active"
Default == IF Failed THEN "passive" ELSE "active"

NoPassiveArgs == ""
PassiveArgs == IF Failed THEN "upgrade_failure" ELSE ""

MenuDefault == /\ phase = "off" /\ next = "none"
               /\ phase' = "menu" /\ by' = "auto"
               /\ entry' = Default /\ args' = PassiveArgs /\ env' = Saved
               /\ UNCHANGED <<img, hook, next, running, report, upgrade, history, counts>>

\* Somebody takes another entry within the timeout (one that cannot be loaded returns here).
Pick(e) == /\ phase = "menu" /\ picks < MaxPicks /\ Health[img[SlotOf(e)]] # "unloadable"
           /\ entry' = e /\ by' = "picked" /\ picks' = picks + 1
           /\ UNCHANGED <<disk, phase, args, running, report, upgrade, history, faults, plans>>

Loads(e) == Health[img[SlotOf(e)]] # "unloadable"

\* fallback="0 1 2": the first of these entries that loads, when the default does not.
Fallback(e) == /\ Loads(e)
               /\ e \in {"passive", "recovery"} => ~Loads("active")
               /\ e = "recovery" => ~Loads("passive")

Boot(e) == /\ phase' = "kernel" /\ entry' = e /\ running' = img[SlotOf(e)]
           /\ IF e = "active" /\ by = "auto" /\ img["active"] \notin proven /\ tries < 2
                THEN tries' = tries + 1 ELSE tries' = tries
           /\ UNCHANGED <<disk, args, report, upgrade, proven, assessed, wrote, again, counts>>

Load == /\ phase = "menu"
        /\ \/ Loads(entry) /\ by' = by /\ Boot(entry)
           \/ ~Loads(entry) /\ by' = "spill" /\ \E e \in Slots : Fallback(e) /\ Boot(e)

-----------------------------------------------------------------------------
(* The booted image.                                                       *)

\* The machine goes down: /run is lost, and so is a job that has not exited 0.
Down == /\ phase' = "off" /\ report' = "none" /\ rebooting' = "no" /\ wrote' = "no"
        /\ job' = IF job = "done" THEN "done" ELSE "idle"
        /\ UNCHANGED <<grub, running, plan, proven, assessed, again, tries>>

\* panic=5 rd.emergency=reboot systemd.crash_reboot=yes: a failing boot is back at the menu.
KernelPanics == /\ phase = "kernel" /\ Health[running] = "broken"
                /\ Down /\ UNCHANGED <<disk, counts>>

KernelBoots == /\ phase = "kernel" /\ Health[running] # "broken"
               /\ phase' = "before" /\ proven' = proven \cup {running}
               /\ UNCHANGED <<disk, grub, running, report, upgrade, assessed, wrote, again, tries, counts>>

\* boot.before, "Remove GRUB sentinels": two commands, if active was booted.  (Mutants: on
\* any image; on another one the try is forgotten.)
AnyImage == TRUE
RemovesSentinels == entry = "active"

ClearEnable == /\ phase = "before" /\ RemovesSentinels
               /\ phase' = "clearing" /\ env' = env \ {"enable"}
               /\ UNCHANGED <<img, hook, next, grub, running, report, upgrade, history, counts>>

ClearTentative == /\ phase = "clearing"
                  /\ phase' = "report" /\ env' = env \ {"tentative"}
                  /\ UNCHANGED <<img, hook, next, grub, running, report, upgrade, history, counts>>

ForgetTry == /\ phase = "before" /\ ~RemovesSentinels
             /\ phase' = "report" /\ env' = env \ {"tentative"}
             /\ UNCHANGED <<img, hook, next, grub, running, report, upgrade, history, counts>>
KeepSentinels == /\ phase = "before" /\ ~RemovesSentinels
                 /\ phase' = "report"
                 /\ UNCHANGED <<disk, grub, running, report, upgrade, history, counts>>

\* boot.before, "Create upgrade failure sentinel if necessary": menuentry fallback alone
\* has extra_passive_cmdline.  Then the services start.
FailureSentinel == /\ phase = "report" /\ Health[running] # "late"
                   /\ IF entry = "passive" /\ args = "upgrade_failure"
                        THEN report' = "failure" ELSE UNCHANGED report
                   /\ phase' = (IF entry = "statereset" THEN "reset" ELSE "up")
                   /\ UNCHANGED <<disk, grub, running, upgrade, history, counts>>

\* An image that does not survive its services crashes here.
LateCrash == /\ phase = "report" /\ Health[running] = "late"
             /\ Down /\ UNCHANGED <<disk, counts>>

\* kairos.reset on the command line: kairos-agent reset --unattended makes COS_STATE anew
\* from the recovery image (mutant: all but passive) ...
RestoredWithoutPassive == [s \in Slots \ {"passive"} |-> img["recovery"]]
Restored == [s \in Slots |-> img["recovery"]]

Reset == /\ phase = "reset"
         /\ phase' = "rehook"
         /\ img' = Restored /\ env' = {} /\ hook' = "off" /\ next' = "none"
         /\ assessed' = "yes"
         /\ UNCHANGED <<grub, running, report, upgrade, proven, wrote, again, tries, counts>>

\* ... and runs the after-reset hooks, which a loss of power in between prevents; --reboot.
AfterReset == /\ phase = "rehook"
              /\ hook' = "on"
              /\ Down /\ UNCHANGED <<img, env, next, counts>>

-----------------------------------------------------------------------------
(* The upgrade job.                                                        *)

JobRuns == phase = "up" /\ entry \in {"active", "passive"}

\* Without FORCE the release files are compared: HOST_DIR is the running system.
Compare == /\ JobRuns /\ job = "idle"
           /\ IF plan.force = "" /\ Version[running] = Version[plan.image]
                THEN job' = "done" ELSE job' = "agent"
           /\ UNCHANGED <<disk, node, plan, rebooting, history, counts>>

\* kairos-agent upgrade: the running image is kept, so that a fallback stays where the
\* machine runs on it.  (Mutant: active is backed up whatever was booted.)
BackupActive == img["active"]
Backup == IF entry = "active" THEN img["active"] ELSE img["passive"]

AgentUpgrade == /\ JobRuns /\ job = "agent" /\ plan.target = "system"
                /\ job' = "sentinel"
                /\ img' = [img EXCEPT !["active"] = plan.image, !["passive"] = Backup]
                /\ wrote' = "yes" /\ assessed' = "no" /\ tries' = 0
                /\ again' = IF wrote = "yes" /\ entry = "active" THEN "yes" ELSE again
                /\ UNCHANGED <<env, hook, next, node, plan, rebooting, proven, counts>>

\* kairos-agent upgrade --recovery.
AgentRecovery == /\ JobRuns /\ job = "agent" /\ plan.target = "recovery"
                 /\ job' = "sentinel"
                 /\ img' = [img EXCEPT !["recovery"] = plan.image]
                 /\ UNCHANGED <<env, hook, next, node, plan, rebooting, history, counts>>

\* after-upgrade, "Set upgrade sentinel": the other one is left as it is.
SetSentinel == /\ JobRuns /\ job = "sentinel"
               /\ job' = "inject" /\ env' = env \cup {"enable"}
               /\ UNCHANGED <<img, hook, next, node, plan, rebooting, history, counts>>

\* after-upgrade, customhook and bootgrub.
InjectHook == /\ JobRuns /\ job = "inject"
              /\ job' = "reboot" /\ hook' = "on"
              /\ assessed' = "yes" /\ tries' = 0
              /\ UNCHANGED <<img, env, next, node, plan, rebooting, proven, wrote, again, counts>>

\* An upgrade of recovery ends here.  Otherwise the reboot is asked for and the script
\* exits 1: the job is not complete, and may be run again while the machine goes down.
\* (Mutant: the reboot is left to somebody else.)
FinishUp == /\ JobRuns /\ job = "reboot"
            /\ job' = (IF plan.target = "recovery" THEN "done" ELSE "idle")
            /\ UNCHANGED <<disk, node, plan, rebooting, history, counts>>
Finish == /\ JobRuns /\ job = "reboot"
          /\ IF plan.target = "recovery" THEN job' = "done" /\ UNCHANGED rebooting
                                         ELSE job' = "idle" /\ rebooting' = "yes"
          /\ UNCHANGED <<disk, node, plan, history, counts>>

GoDown == /\ phase = "up" /\ rebooting = "yes"
          /\ Down /\ UNCHANGED <<disk, counts>>

-----------------------------------------------------------------------------
(* Faults and users.                                                       *)

PowerLoss == /\ phase # "off" /\ faults < MaxFaults
             /\ faults' = faults + 1
             /\ Down /\ UNCHANGED <<disk, picks, plans>>

\* set -e: a mount, the agent or nsenter that fails ends the script; the job is run again.
JobFails == /\ JobRuns /\ job \in {"agent", "reboot"} /\ faults < MaxFaults
            /\ job' = "idle" /\ faults' = faults + 1
            /\ UNCHANGED <<disk, node, plan, rebooting, history, picks, plans>>

\* The agent logs a failing hook (the state partition not mounted, say) and goes on.
HookFails == /\ JobRuns /\ job \in {"sentinel", "inject"} /\ faults < MaxFaults
             /\ job' = "reboot" /\ faults' = faults + 1
             /\ UNCHANGED <<disk, node, plan, rebooting, history, picks, plans>>

Restart == /\ phase = "up" /\ picks < MaxPicks
           /\ picks' = picks + 1
           /\ Down /\ UNCHANGED <<disk, faults, plans>>

SetNextEntry(e) == /\ phase = "up" /\ picks < MaxPicks
                   /\ picks' = picks + 1 /\ next' = e
                   /\ UNCHANGED <<img, env, hook, node, upgrade, history, faults, plans>>

NewPlan == /\ job \in {"idle", "done"} /\ plans < MaxPlans
           /\ plan' \in Plans /\ job' = "idle" /\ plans' = plans + 1
           /\ UNCHANGED <<disk, node, rebooting, history, faults, picks>>

-----------------------------------------------------------------------------
GrubStep == MenuSelected \/ MenuDefault \/ Load
BootStep == \/ KernelPanics \/ KernelBoots
            \/ ClearEnable \/ ClearTentative \/ KeepSentinels
            \/ FailureSentinel \/ LateCrash \/ Reset \/ AfterReset
JobStep  == Compare \/ AgentUpgrade \/ AgentRecovery \/ SetSentinel \/ InjectHook \/ Finish
UserStep == \/ \E e \in Entries : Pick(e) \/ SetNextEntry(e)
            \/ Restart \/ NewPlan
Fault    == PowerLoss \/ JobFails \/ HookFails

Next == GrubStep \/ BootStep \/ JobStep \/ GoDown \/ UserStep \/ Fault

\* The machine does not stop in the middle of a boot (timeout=10 ends the menu), a reboot
\* asked for comes, and the controller runs the job as long as it has not exited 0.
Fairness == /\ WF_vars(GrubStep) /\ WF_vars(BootStep)
            /\ WF_vars(JobStep) /\ WF_vars(GoDown)

Spec == Init /\ [][Next]_vars /\ Fairness

-----------------------------------------------------------------------------
(* Properties.                                                             *)

\* The image the machine falls back to has come up before: the agent keeps the running
\* image, unless it replaces active a second time before the reboot.
RollbackTarget == again = "no" => img["passive"] \in proven

\* An upgrade whose hooks ran stays under assessment until its image has come up: no
\* boot of another slot, loss of power or later upgrade takes the sentinel away.
SuspectGuarded == assessed = "yes" /\ img["active"] \notin proven
                    => "enable" \in env /\ hook = "on"

\* An image under assessment gets one automatic boot (08_grub.yaml:7-10).
OneTry == assessed = "yes" /\ again = "no" /\ img["active"] \notin proven => tries <= 1

\* A machine that came up on the fallback by itself says so, and one that says so has a
\* failed trial on its disk.
FallbackIsReported ==
  /\ phase = "up" /\ entry = "passive" /\ by = "auto" => report = "failure"
  /\ report = "failure" => entry = "passive" /\ "tentative" \in env

\* Nothing but the operator helps any more: of the images that are going to be chosen,
\* none comes up.
Hopeless == \/ Health[img["passive"]] # "good" /\ (Failed \/ Health[img["active"]] # "good")
            \/ /\ Health[img["active"]] \in {"broken", "late"}
               /\ hook = "off" \/ "enable" \notin env

\* The machine always comes up again, with whatever image, fault or choice.
NeverComesUp == phase # "up"
NodeRecovers == <>[]NeverComesUp => <>[]Hopeless

\* An upgrade to a good image, without FORCE, completes, and so does one that follows it,
\* if the machine comes up on active, and nobody interferes.
Hindered == \/ plan.force = "true" \/ Health[plan.image] # "good"
            \/ faults > 0 \/ picks > 0 \/ report = "failure" \/ Hopeless
JobCompletes == []<>(job = "done" \/ Hindered)

\* What 08_grub.yaml:7 says of the first boot after an upgrade: it is a try of the image;
\* of a good one, here.
NotTriedYet   == assessed = "yes" /\ img["active"] \notin proven /\ tries = 0
UpgradeIsTried == phase = "kernel" /\ by = "auto" /\ again = "no"
                    /\ Health[img["active"]] = "good" /\ NotTriedYet => entry = "active"

\* The documented protocol.
Trial == IF hook = "off" \/ "enable" \notin env THEN "idle"
         ELSE IF "tentative" \in env THEN "trying" ELSE "upgraded"
Stage == IF phase \in {"off", "menu", "up"} THEN phase ELSE "booting"

Assessment == INSTANCE BootAssessment WITH trial <- Trial, stage <- Stage, slot <- entry, by <- by
Implements == Assessment!Spec
=============================================================================
