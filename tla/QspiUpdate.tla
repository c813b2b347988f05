----------------------------- MODULE QspiUpdate -----------------------------
(***************************************************************************)
(* The script that stages a firmware update on a Jetson Thor board         *)
(* (JetsonQSPIScript in pkg/bundled/jetson_qspi.go), which kairos-agent    *)
(* runs in the chroot of an installation or an upgrade.  It compares the   *)
(* firmware of the board with the image, copies a capsule to the EFI       *)
(* system partition and asks the firmware, through OsIndications, to apply *)
(* it at the next boot.                                                    *)
(*                                                                         *)
(* bash lets a command end before it runs the trap of a signal that came   *)
(* meanwhile, and the trap then finds the status of that command in $?;    *)
(* when no command was running it is that of the last one.  One step is a  *)
(* command; what the commands only read is a choice of their outcomes.     *)
(***************************************************************************)
EXTENDS Naturals

CONSTANTS Images,      \* versions <<branch, major, minor>> of the L4T images in use
          Firmwares,   \* the numbers of the firmware a board may start with
          Factory,     \* FACTORY_QSPI_VER
          MaxRuns,     \* bound: runs of the script
          MaxSignals,  \* bound: signals sent to it
          MaxBoots     \* bound: reboots and losses of power

ASSUME ImagesAssumption   == Images \subseteq Nat \X (0..255) \X (0..255)
ASSUME FirmwareAssumption == Firmwares \subseteq Nat /\ Factory \in Nat

VARIABLES pc,       \* the next command of the script
          rc,       \* $?, and in cleanup its local rc
          term,     \* the number of pending signals
          soc,      \* the board's system on chip
          fw,       \* the version of its firmware
          image,    \* the image whose script runs
          efivars,  \* what is mounted at EFIVARS_DIR, and by whom
          esp,      \* the same for the partition at ESP_MOUNT_DIR
          flags,    \* efivars_mounted, esp_mounted: the names of those that are 1
          capsules, \* EFI/UpdateCapsule: the capsule of each image
          osind,    \* bit 2 of OsIndications
          signalled,\* history: this run got a signal
          runs, signals, boots

board  == <<soc, fw>>
script == <<pc, rc, term>>
mounts == <<efivars, esp, flags>>
counts == <<signalled, runs, signals, boots>>
vars   == <<script, board, image, mounts, capsules, osind, counts>>

Body    == {"decide", "efivars", "locate", "esp", "capacity", "copy", "sync", "osind", "fail"}
Cleanup == {"cleanup", "flush", "umount"}
Running == Body \cup Cleanup
SoCs    == {"tegra264", "other"}
Copies  == {"absent", "partial", "dirty", "whole"}  \* dirty: complete, but not flushed

\* encode_version, for components that fit in a byte: the shifts do not overlap.
Number(branch, major, minor) == branch * 65536 + major * 256 + minor
Encode(v) == Number(v[1], v[2], v[3])

\* The firmware accepts a capsule that is complete and newer: it ends with the newest.
Flash(c) == LET offered == {Encode(i) : i \in {j \in Images : c[j] = "whole"}} \cup {fw}
            IN  {v \in offered : \A w \in offered : w <= v}

TypeOK == /\ pc \in Running \cup {"idle", "exited"}
          /\ rc \in 0..1
          /\ term \in 0..1
          /\ soc \in SoCs
          /\ fw \in Nat
          /\ image \in Images
          /\ efivars \in {"none", "found", "ours"}
          /\ esp \in {"none", "ours"}
          /\ flags \subseteq {"efivars", "esp"}
          /\ capsules \in [Images -> Copies]
          /\ osind \in 0..1
          /\ signalled \in Nat
          /\ runs \in Nat /\ signals \in Nat /\ boots \in Nat

Init == /\ pc = "idle" /\ rc = 0 /\ term = 0
        /\ soc \in SoCs /\ fw \in Firmwares
        /\ image \in Images
        /\ efivars = "none" /\ esp = "none" /\ flags = {}
        /\ capsules = [i \in Images |-> "absent"]
        /\ osind = 0
        /\ signalled = 0 /\ runs = 0 /\ signals = 0 /\ boots = 0

-----------------------------------------------------------------------------
(* How a command ends.                                                     *)

\* It ends with a status.  The trap runs at once when a signal is pending.
Ends(status, next) == /\ pc' = IF term = 1 THEN "cleanup" ELSE next
                      /\ rc' = status
                      /\ term' = 0

Succeeds(next) == Ends(0, next)
Fails          == Ends(1, "fail")     \* ... || fail

\* exit: the EXIT trap runs.
Exit(status) == /\ pc' = "cleanup"
                /\ rc' = status
                /\ term' = 0

\* A flag is set by the assignment after the mount, if it is reached.
Flag(name) == flags' = IF term = 1 THEN flags ELSE flags \cup {name}

-----------------------------------------------------------------------------
(* The script.                                                             *)

\* The board, its firmware and the image, all of them only read.
Decide ==
  /\ pc = "decide"
  /\ \/ Fails                                       \* something cannot be read
     \/ soc = "other" /\ Exit(0)
     \/ soc = "tegra264" /\ (fw < Factory \/ fw > Encode(image)) /\ Fails
     \/ soc = "tegra264" /\ fw >= Factory /\ fw = Encode(image) /\ Exit(0)
     \/ soc = "tegra264" /\ fw >= Factory /\ fw < Encode(image) /\ Succeeds("efivars")
  /\ UNCHANGED <<board, image, mounts, capsules, osind, counts>>

\* mount efivarfs, unless EFIVARS_DIR already is one.
Efivars ==
  /\ pc = "efivars"
  /\ \/ efivars = "found" /\ Succeeds("locate") /\ UNCHANGED mounts
     \/ efivars = "none" /\ efivars' = "ours" /\ Succeeds("locate") /\ Flag("efivars") /\ UNCHANGED esp
     \/ Fails /\ UNCHANGED mounts
  /\ UNCHANGED <<board, image, capsules, osind, counts>>

\* The second look at EFIVARS_DIR, and exactly one capsule that can be read.
Locate == /\ pc = "locate"
          /\ (efivars # "none" /\ Succeeds("esp")) \/ Fails
          /\ UNCHANGED <<board, image, mounts, capsules, osind, counts>>

\* blkid, and mount of the partition.
MountEsp == /\ pc = "esp"
            /\ \/ esp' = "ours" /\ Succeeds("capacity") /\ Flag("esp")
               \/ Fails /\ UNCHANGED <<esp, flags>>
            /\ UNCHANGED <<board, image, efivars, capsules, osind, counts>>

\* Room for the capsule, and its directory.
Capacity == /\ pc = "capacity"
            /\ Succeeds("copy") \/ Fails
            /\ UNCHANGED <<board, image, mounts, capsules, osind, counts>>

\* cp truncates what it finds.
Copy == /\ pc = "copy"
        /\ \/ Succeeds("sync") /\ capsules' = [capsules EXCEPT ![image] = "dirty"]
           \/ Fails /\ capsules' \in {capsules, [capsules EXCEPT ![image] = "partial"]}
        /\ UNCHANGED <<board, image, mounts, osind, counts>>

\* What a flush of the partition leaves.
Flushed(c) == [i \in Images |-> IF c[i] = "dirty" THEN "whole" ELSE c[i]]

\* Mutant: sync || true.
SyncOrNot == /\ pc = "sync"
             /\ Succeeds("osind") /\ capsules' \in {capsules, Flushed(capsules)}
             /\ UNCHANGED <<board, image, mounts, osind, counts>>

Sync == /\ pc = "sync"
        /\ \/ Succeeds("osind") /\ capsules' = Flushed(capsules)
           \/ Fails /\ UNCHANGED capsules
        /\ UNCHANGED <<board, image, mounts, osind, counts>>

\* Mutant: a write that fails is only a warning.
SetOsIndicationsOrNot == /\ pc = "osind"
                         /\ osind' \in {osind, 1}
                         /\ Exit(0)
                         /\ UNCHANGED <<board, image, mounts, capsules, counts>>

\* chattr, dd, and the end of the script.
SetOsIndications == /\ pc = "osind"
                    /\ \/ osind' = 1 /\ Exit(0)
                       \/ Fails /\ UNCHANGED osind
                    /\ UNCHANGED <<board, image, mounts, capsules, counts>>

\* fail: echo, exit 1.
Fail == /\ pc = "fail" /\ term = 0
        /\ Exit(1)
        /\ UNCHANGED <<board, image, mounts, capsules, osind, counts>>

-----------------------------------------------------------------------------
(* cleanup.  After a signal its exit runs it once more, with both flags 0, *)
(* which changes nothing.                                                  *)

\* Mutant: the failures are counted.
UmountEndsCounting(status, next) == /\ pc' = IF term = 1 THEN "cleanup" ELSE next
                                    /\ rc' = rc + status
                                    /\ term' = 0

\* if ! umount: the command ends with the opposite status, a failure sets rc.
UmountEnds(status, next) == /\ pc' = IF term = 1 THEN "cleanup" ELSE next
                            /\ rc' = IF term = 1 THEN 1 - status ELSE IF status = 1 THEN 1 ELSE rc
                            /\ term' = 0

UmountEfivars ==
  /\ pc = "cleanup"
  /\ IF "efivars" \in flags
       THEN /\ flags' = flags \ {"efivars"}
            /\ \/ efivars' = "none" /\ UmountEnds(0, "flush")
               \/ UmountEnds(1, "flush") /\ UNCHANGED efivars
       ELSE pc' = "flush" /\ UNCHANGED <<efivars, flags, rc, term>>
  /\ UNCHANGED <<board, image, esp, capsules, osind, counts>>

\* esp_mounted=0, then sync || true.
Flush ==
  /\ pc = "flush"
  /\ IF "esp" \in flags
       THEN /\ flags' = flags \ {"esp"}
            /\ capsules' \in {capsules, Flushed(capsules)}
            /\ pc' = IF term = 1 THEN "cleanup" ELSE "umount"
            /\ rc' = IF term = 1 THEN 0 ELSE rc
       ELSE pc' = "exited" /\ UNCHANGED <<flags, capsules, rc>>
  /\ term' = 0
  /\ UNCHANGED <<board, image, efivars, esp, osind, counts>>

\* Mutant: a failing umount is only a warning.
UmountEspOrNot == /\ pc = "umount"
                  /\ \/ esp' = "none" /\ capsules' = Flushed(capsules)
                     \/ UNCHANGED <<esp, capsules>>
                  /\ UmountEnds(0, "exited")
                  /\ UNCHANGED <<board, image, efivars, flags, osind, counts>>

UmountEsp == /\ pc = "umount"
             /\ \/ esp' = "none" /\ capsules' = Flushed(capsules) /\ UmountEnds(0, "exited")
                \/ UmountEnds(1, "exited") /\ UNCHANGED <<esp, capsules>>
             /\ UNCHANGED <<board, image, efivars, flags, osind, counts>>

\* The trap of a signal that came between two commands: the last one ended well.
Trap == /\ pc \in Running /\ term = 1
        /\ Exit(0)
        /\ UNCHANGED <<board, image, mounts, capsules, osind, counts>>

Script == \/ Decide \/ Efivars \/ Locate \/ MountEsp \/ Capacity \/ Copy \/ Sync
          \/ SetOsIndications \/ Fail \/ UmountEfivars \/ Flush \/ UmountEsp \/ Trap

-----------------------------------------------------------------------------
(* Everything else.                                                        *)

\* kairos-agent runs the script of image i in a new chroot.  It has torn down the
\* last one, which a mount left in it prevents.  An installation has formatted the
\* partition, an upgrade has not.
Start(i) == /\ pc \in {"idle", "exited"} /\ runs < MaxRuns
            /\ esp = "none" /\ efivars # "ours"
            /\ pc' = "decide" /\ rc' = 0 /\ term' = 0
            /\ image' = i
            /\ efivars' \in {"none", "found"}
            /\ flags' = {}
            /\ capsules' \in {capsules, [j \in Images |-> "absent"]}
            /\ runs' = runs + 1 /\ signalled' = 0
            /\ UNCHANGED <<board, esp, osind, signals, boots>>

\* Someone sends INT or TERM to the script.
Signal == /\ pc \in Running /\ term = 0 /\ signals < MaxSignals
          /\ term' = 1 /\ signals' = signals + 1 /\ signalled' = signalled + 1
          /\ UNCHANGED <<pc, rc, board, image, mounts, capsules, osind, runs, boots>>

\* The board boots again, at any moment.  Of what was not flushed all or a part is
\* there.  The firmware looks at the capsules only when it is asked to.
Boot == /\ boots < MaxBoots
        /\ pc' = "idle" /\ rc' = 0 /\ term' = 0
        /\ efivars' = "none" /\ esp' = "none" /\ flags' = {}
        /\ \E lost \in SUBSET {i \in Images : capsules[i] = "dirty"} :
             LET found == [i \in Images |-> IF i \in lost THEN "partial" ELSE Flushed(capsules)[i]]
             IN  IF osind = 1 THEN /\ fw' \in Flash(found)
                               /\ capsules' = [i \in Images |-> "absent"]
                          ELSE fw' = fw /\ capsules' = found
        /\ osind' = 0
        /\ signalled' = 0
        /\ boots' = boots + 1
        /\ UNCHANGED <<soc, image, runs, signals>>

Next == Script \/ (\E i \in Images : Start(i)) \/ Signal \/ Boot

Spec == Init /\ [][Next]_vars

-----------------------------------------------------------------------------
(* Properties.                                                             *)

NeedsUpdate == soc = "tegra264" /\ fw < Encode(image)
Staged      == capsules[image] = "whole" /\ osind = 1

\* A script that no signal disturbs and that reports success on a board with older
\* firmware has staged the update: its capsule is on the partition to the last byte
\* and the firmware has been asked to apply it, whatever earlier runs left there.
SuccessMeansStaged == pc = "exited" /\ rc = 0 /\ signalled = 0 /\ NeedsUpdate => Staged

\* Undisturbed, the script leaves a mount behind only if it reports a failure.
LeftMountIsReported == pc = "exited" /\ signalled = 0 /\ (esp = "ours" \/ efivars = "ours") => rc = 1

\* OsIndications is set only when the capsule of this run is flushed to the
\* partition, signals, lost power and failing commands included.
AdvertisedAfterFlush == [][osind = 0 /\ osind' = 1 => capsules[image] = "whole" /\ efivars # "none"]_vars

\* Claimed: the script does not report success for an update the board never gets.
NoSilentFailure == pc = "exited" /\ rc = 0 /\ NeedsUpdate => Staged
=============================================================================
