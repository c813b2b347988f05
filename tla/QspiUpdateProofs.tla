-------------------------- MODULE QspiUpdateProofs --------------------------
(* Proofs about the script of QspiUpdate, for every set of images, every    *)
(* firmware and every number of runs, signals and boots.                    *)
EXTENDS QspiUpdate, TLAPS

\* The number encode_version makes of a version orders versions as their components
\* do, which the script's -lt, -gt and -eq rely on.
THEOREM EncodeOrder ==
  ASSUME NEW v \in Nat \X (0..255) \X (0..255), NEW w \in Nat \X (0..255) \X (0..255)
  PROVE  Encode(v) < Encode(w) <=> \/ v[1] < w[1]
                                   \/ v[1] = w[1] /\ v[2] < w[2]
                                   \/ v[1] = w[1] /\ v[2] = w[2] /\ v[3] < w[3]
<1>1. v[1] \in Nat /\ v[2] \in 0..255 /\ v[3] \in 0..255  OBVIOUS
<1>2. w[1] \in Nat /\ w[2] \in 0..255 /\ w[3] \in 0..255  OBVIOUS
<1>3. PICK a \in Nat, b \in 0..255, c \in 0..255, d \in Nat, e \in 0..255, f \in 0..255 :
        v[1] = a /\ v[2] = b /\ v[3] = c /\ w[1] = d /\ w[2] = e /\ w[3] = f
  BY <1>1, <1>2, Zenon
<1>4. Encode(v) = Number(a, b, c) /\ Encode(w) = Number(d, e, f)  BY <1>3 DEF Encode
<1>5. Number(a, b, c) < Number(d, e, f) <=> a < d \/ (a = d /\ b < e) \/ (a = d /\ b = e /\ c < f)
  BY DEF Number
<1> QED  BY <1>3, <1>4, <1>5

\* A version is a natural number.
LEMMA EncodeType == \A i \in Images : Encode(i) \in Nat
<1> SUFFICES ASSUME NEW i \in Images PROVE Encode(i) \in Nat  OBVIOUS
<1>1. i \in Nat \X (0..255) \X (0..255)  BY ImagesAssumption
<1>2. i[1] \in Nat /\ i[2] \in 0..255 /\ i[3] \in 0..255  BY <1>1
<1>3. \A a, b, c \in Nat : Number(a, b, c) \in Nat  BY DEF Number
<1>4. 0..255 \subseteq Nat  OBVIOUS
<1> QED  BY <1>2, <1>3, <1>4, Zenon DEF Encode

-----------------------------------------------------------------------------
(* The invariant.                                                          *)

UpdateSteps == {"efivars", "locate", "esp", "capacity", "copy", "sync", "osind"}
Ended       == Cleanup \cup {"exited"}

\* The script goes past its decision only on a board with older firmware, and what
\* each command relies on holds when it begins.
ProgressInv == /\ pc \in UpdateSteps => NeedsUpdate
               /\ pc \in {"esp", "capacity", "copy", "sync", "osind"} => efivars # "none"
               /\ pc = "sync" => capsules[image] = "dirty"
               /\ pc = "osind" => capsules[image] = "whole"
               /\ term = 1 => signalled > 0

\* A status 0 that no signal has touched means that the work is done.
SuccessInv == pc \in Ended /\ rc = 0 /\ signalled = 0 /\ NeedsUpdate => Staged

\* What is mounted is flagged, or its umount has failed and the status says so.
MountInv ==
  signalled = 0 =>
    /\ pc \in Body \cup {"cleanup"} /\ efivars = "ours" => "efivars" \in flags
    /\ pc \in {"flush", "umount", "exited"} /\ efivars = "ours" => rc = 1
    /\ pc \in Body \cup {"cleanup", "flush"} /\ esp = "ours" => "esp" \in flags
    /\ pc = "exited" /\ esp = "ours" => rc = 1

IInv == TypeOK /\ ProgressInv /\ SuccessInv /\ MountInv

-----------------------------------------------------------------------------
\* Before the first run nothing is mounted.
LEMMA InitInv == Init => IInv
BY FirmwareAssumption DEF Init, IInv, TypeOK, ProgressInv, SuccessInv, MountInv, Running, Body, Cleanup,
                          UpdateSteps, Ended, Copies, SoCs

\* Every step keeps the types.
LEMMA TypeStep == TypeOK /\ [Next]_vars => TypeOK'
<1> SUFFICES ASSUME TypeOK, [Next]_vars PROVE TypeOK'  OBVIOUS
<1> USE DEF TypeOK, Running, Body, Cleanup, Copies, SoCs, board, mounts, counts, script
<1> USE DEF Ends, Succeeds, Fails, Exit, Flag, UmountEnds, Flushed
<1>1. CASE Decide            BY <1>1 DEF Decide
<1>2. CASE Efivars
  <2>1. flags' \subseteq {"efivars", "esp"}  BY <1>2 DEF Efivars
  <2> QED  BY <1>2, <2>1 DEF Efivars
<1>3. CASE Locate            BY <1>3 DEF Locate
<1>4. CASE MountEsp
  <2>1. flags' \subseteq {"efivars", "esp"}  BY <1>4 DEF MountEsp
  <2> QED  BY <1>4, <2>1 DEF MountEsp
<1>5. CASE Capacity          BY <1>5 DEF Capacity
<1>6. CASE Copy              BY <1>6 DEF Copy
<1>7. CASE Sync              BY <1>7 DEF Sync
<1>8. CASE SetOsIndications  BY <1>8 DEF SetOsIndications
<1>9. CASE Fail              BY <1>9 DEF Fail
<1>10. CASE UmountEfivars
  <2>1. flags' \subseteq {"efivars", "esp"}  BY <1>10 DEF UmountEfivars
  <2> QED  BY <1>10, <2>1 DEF UmountEfivars
<1>11. CASE Flush
  <2>1. flags' \subseteq {"efivars", "esp"}  BY <1>11 DEF Flush
  <2>2. capsules' \in [Images -> Copies]  BY <1>11 DEF Flush
  <2> QED  BY <1>11, <2>1, <2>2 DEF Flush
<1>12. CASE UmountEsp        BY <1>12 DEF UmountEsp
<1>13. CASE Trap             BY <1>13 DEF Trap
<1>14. ASSUME NEW i \in Images, Start(i) PROVE TypeOK'  BY <1>14 DEF Start
<1>15. CASE Signal           BY <1>15 DEF Signal
<1>16. CASE Boot
  <2>1. PICK lost \in SUBSET {i \in Images : capsules[i] = "dirty"} :
          LET found == [i \in Images |-> IF i \in lost THEN "partial" ELSE Flushed(capsules)[i]]
          IN  IF osind = 1 THEN fw' \in Flash(found) /\ capsules' = [i \in Images |-> "absent"]
                       ELSE fw' = fw /\ capsules' = found
    BY <1>16 DEF Boot
  <2>2. fw' \in Nat  BY <2>1, EncodeType DEF Flash
  <2>3. capsules' \in [Images -> Copies]  BY <2>1
  <2> QED  BY <1>16, <2>2, <2>3 DEF Boot
<1>17. CASE UNCHANGED vars   BY <1>17 DEF vars
<1> QED  BY <1>1, <1>2, <1>3, <1>4, <1>5, <1>6, <1>7, <1>8, <1>9, <1>10, <1>11, <1>12, <1>13, <1>14,
            <1>15, <1>16, <1>17 DEF Next, Script

\* Every step keeps the rest of the invariant.
LEMMA StepInv == IInv /\ [Next]_vars => IInv'
<1> SUFFICES ASSUME IInv, [Next]_vars PROVE ProgressInv' /\ SuccessInv' /\ MountInv'
  BY TypeStep DEF IInv
<1> USE DEF IInv, ProgressInv, SuccessInv, MountInv, NeedsUpdate, Staged, UpdateSteps, Ended
<1> USE DEF TypeOK, Running, Body, Cleanup, Copies, SoCs, board, mounts, counts, script
<1> USE DEF Ends, Succeeds, Fails, Exit, Flag, UmountEnds, Flushed
<1>1. CASE Decide
  <2>1. Encode(image) \in Nat  BY EncodeType
  <2> QED  BY <1>1, <2>1 DEF Decide
<1>2. CASE Efivars           BY <1>2 DEF Efivars
<1>3. CASE Locate            BY <1>3 DEF Locate
<1>4. CASE MountEsp          BY <1>4 DEF MountEsp
<1>5. CASE Capacity          BY <1>5 DEF Capacity
<1>6. CASE Copy              BY <1>6 DEF Copy
<1>7. CASE Sync
  <2>1. capsules[image] = "dirty" => Flushed(capsules)[image] = "whole"  OBVIOUS
  <2> QED  BY <1>7, <2>1 DEF Sync
<1>8. CASE SetOsIndications  BY <1>8 DEF SetOsIndications
<1>9. CASE Fail              BY <1>9 DEF Fail
<1>10. CASE UmountEfivars    BY <1>10 DEF UmountEfivars
<1>11. CASE Flush            BY <1>11 DEF Flush
<1>12. CASE UmountEsp        BY <1>12 DEF UmountEsp
<1>13. CASE Trap             BY <1>13 DEF Trap
<1>14. ASSUME NEW i \in Images, Start(i) PROVE ProgressInv' /\ SuccessInv' /\ MountInv'  BY <1>14 DEF Start
<1>15. CASE Signal           BY <1>15 DEF Signal
<1>16. CASE Boot             BY <1>16 DEF Boot
<1>17. CASE UNCHANGED vars   BY <1>17 DEF vars
<1> QED  BY <1>1, <1>2, <1>3, <1>4, <1>5, <1>6, <1>7, <1>8, <1>9, <1>10, <1>11, <1>12, <1>13, <1>14,
            <1>15, <1>16, <1>17 DEF Next, Script

\* The invariant holds in every reachable state.
LEMMA Invariance == Spec => []IInv
BY InitInv, StepInv, PTL DEF Spec

-----------------------------------------------------------------------------
\* Every variable of the script and the board stays in its type.
THEOREM TypeCorrect == Spec => []TypeOK
<1>1. IInv => TypeOK  BY DEF IInv
<1> QED  BY <1>1, Invariance, PTL

\* A script that no signal disturbs reports success on a board with older firmware
\* only when the capsule is flushed and the firmware has been asked to apply it.
THEOREM SuccessStaged == Spec => []SuccessMeansStaged
<1>1. IInv => SuccessMeansStaged  BY DEF IInv, SuccessInv, SuccessMeansStaged, Ended
<1> QED  BY <1>1, Invariance, PTL

\* Undisturbed, it leaves a mount behind only when it reports a failure.
THEOREM LeftMountReported == Spec => []LeftMountIsReported
<1>1. IInv => LeftMountIsReported  BY DEF IInv, MountInv, LeftMountIsReported
<1> QED  BY <1>1, Invariance, PTL

\* OsIndications is set only in a mounted efivarfs and for a capsule that is flushed
\* to the partition, whatever fails and whatever signals the script gets.
THEOREM AdvertisedFlushed == Spec => AdvertisedAfterFlush
<1>1. IInv /\ [Next]_vars => [osind = 0 /\ osind' = 1 => capsules[image] = "whole" /\ efivars # "none"]_vars
  <2> SUFFICES ASSUME IInv, Next, osind = 0, osind' = 1 PROVE capsules[image] = "whole" /\ efivars # "none"
    OBVIOUS
  <2>1. SetOsIndications
    BY DEF Next, Script, Decide, Efivars, Locate, MountEsp, Capacity, Copy, Sync, Fail, UmountEfivars, Flush,
           UmountEsp, Trap, Start, Signal, Boot
  <2> QED  BY <2>1 DEF SetOsIndications, IInv, ProgressInv
<1> QED  BY <1>1, Invariance, PTL DEF Spec, AdvertisedAfterFlush
=============================================================================
