--------------------------- MODULE InitStageProofs ---------------------------
(* What a run of the init stage that went well leaves, for every set of       *)
(* command lines, base images and kernels: the release file and the initrd    *)
(* are of this run, and the nvdimm modules are there.  Each invariant             *)
(* follows one thing from the step that makes it to the end of the executor   *)
(* run; err must not be lost on the way.                                      *)
EXTENDS ImageBuildProofs, ImageValidation

-----------------------------------------------------------------------------
(* After the kernel step a link to a versioned kernel is one to the planned   *)
(* kernel: the first stage removes the link that is there, and all the others *)
(* make links to the same kernel.                                             *)

LinkedTo(b, k) == b[<<"vmlinuz">>] \in Versioned => b[<<"vmlinuz">>][2] = k

Linked(k) == {st \in Sound : LinkedTo(st.boot, k)}

\* Neither removing a path nor copying a file to one makes such a link.
LEMMA RemoveLinked ==
    ASSUME NEW k \in Name, NEW st \in Linked(k), NEW p \in Path, <<"vmlinuz">> \in Path
    PROVE  Rm(st, p) \in Linked(k) /\ Copy(st, p) \in Linked(k)
<1>0. st \in Sound /\ LinkedTo(st.boot, k)
  BY DEF Linked
<1>1. Absent \notin Versioned /\ Regular \notin Versioned
  BY DEF Absent, Regular, Versioned
<1>2. LinkedTo(Rm(st, p).boot, k) /\ LinkedTo(Copy(st, p).boot, k)
  <2>1. Rm(st, p) = [st EXCEPT !.boot[p] = Absent] /\ Copy(st, p) = [st EXCEPT !.boot[p] = Regular]
    BY <1>0, CommandsSound
  <2> QED
    BY <1>0, <1>1, <2>1 DEF LinkedTo, Sound, Running, BootDir
<1>3. Rm(st, p) \in Sound /\ Copy(st, p) \in Sound
  BY <1>0, CommandsSound
<1> QED
  BY <1>2, <1>3, Zenon DEF Linked

\* A link to an unversioned path is none, and one to the kernel is right.
LEMMA LinkLinked ==
    ASSUME NEW k \in Name, NEW st \in Linked(k), NEW p \in Path, NEW to \in Path,
           to \in Versioned => to[2] = k, <<"vmlinuz">> \in Path
    PROVE  LnForce(st, to) \in Linked(k) /\ Ln(st, to, p) \in Linked(k)
<1>0. st \in Sound /\ LinkedTo(st.boot, k)
  BY DEF Linked
<1>1. LnForce(st, to).boot[<<"vmlinuz">>] = to
  BY <1>0, CommandsSound DEF Sound, Running, BootDir
<1>2. Ln(st, to, p).boot[<<"vmlinuz">>] \in {to, st.boot[<<"vmlinuz">>]}
  <2>1. CASE st.boot[p] = Absent
    <3>0. Ln(st, to, p) = [st EXCEPT !.boot[p] = to]
      BY <1>0, <2>1, CommandsSound
    <3>1. Ln(st, to, p).boot = [st.boot EXCEPT ![p] = to]
      BY <1>0, <3>0 DEF Sound, Running
    <3> QED
      BY <1>0, <3>1 DEF Sound, Running, BootDir
  <2>2. CASE st.boot[p] # Absent
    <3>1. Ln(st, to, p).boot = st.boot
      BY <1>0, <2>2, CommandsSound DEF Sound, Running
    <3> QED
      BY <3>1
  <2> QED
    BY <2>1, <2>2
<1>3. LinkedTo(LnForce(st, to).boot, k) /\ LinkedTo(Ln(st, to, p).boot, k)
  BY <1>0, <1>1, <1>2 DEF LinkedTo
<1>4. LnForce(st, to) \in Sound /\ Ln(st, to, p) \in Sound
  BY <1>0, CommandsSound
<1> QED
  BY <1>3, <1>4, Zenon DEF Linked

\* Each stage after the first keeps it.
LEMMA StagesLinked ==
    ASSUME NEW k \in Name, NEW st \in Linked(k), NEW lib_, NEW host, NEW p \in Plain
    PROVE  /\ CleanImage(st) \in Linked(k)
           /\ CleanOld(st) \in Linked(k) /\ CleanDebug(st, k, host) \in Linked(k)
           /\ LinkImageFile(st) \in Linked(k) /\ CopyLibKernel(st, k, lib_, host) \in Linked(k)
           /\ LinkVmlinuz(st, k) \in Linked(k) /\ LinkVmlinux(st, k, host) \in Linked(k)
           /\ CleanHmac(st) \in Linked(k) /\ LinkHmac(st, k) \in Linked(k)
           /\ LinkImage(st, k) \in Linked(k) /\ LinkAlpine(st, p) \in Linked(k)
<1>1. /\ <<"vmlinuz">> \in Path /\ <<"Image">> \in Path /\ <<"vmlinuz.old">> \in Path
      /\ <<"hmac">> \in Path /\ p \in Path
  BY PathFacts DEF Plain
<1>2. /\ <<"vmlinuz", k>> \in Path /\ <<"vmlinux", k>> \in Path
      /\ <<"Image", k>> \in Path /\ <<"hmac", k>> \in Path
  BY PathFacts
<1>3. p \notin Versioned /\ <<"Image">> \notin Versioned
  BY DEF Versioned, Plain
<1>4. /\ <<"vmlinuz", k>>[2] = k /\ <<"vmlinux", k>>[2] = k
      /\ <<"Image", k>>[2] = k /\ <<"hmac", k>>[2] = k
  OBVIOUS
<1>5. CleanImage(st) \in Linked(k) /\ CleanOld(st) \in Linked(k)
  BY <1>1, RemoveLinked DEF CleanImage, CleanOld
<1>6. CleanDebug(st, k, host) \in Linked(k)
  BY <1>1, <1>2, RemoveLinked DEF CleanDebug
<1>7. LinkImageFile(st) \in Linked(k)
  BY <1>1, <1>3, LinkLinked DEF LinkImageFile
<1>8. CopyLibKernel(st, k, lib_, host) \in Linked(k)
  BY <1>1, <1>2, RemoveLinked DEF CopyLibKernel
<1>9. LinkVmlinuz(st, k) \in Linked(k) /\ LinkVmlinux(st, k, host) \in Linked(k)
  BY <1>1, <1>2, <1>4, LinkLinked DEF LinkVmlinuz, LinkVmlinux
<1>10. CleanHmac(st) \in Linked(k) /\ LinkHmac(st, k) \in Linked(k)
  BY <1>1, <1>2, <1>4, RemoveLinked, LinkLinked DEF CleanHmac, LinkHmac
<1>11. LinkImage(st, k) \in Linked(k)
  BY <1>1, <1>2, <1>4, LinkLinked DEF LinkImage
<1>12. LinkAlpine(st, p) \in Linked(k)
  BY <1>1, <1>3, LinkLinked DEF LinkAlpine
<1> QED
  BY <1>5, <1>6, <1>7, <1>8, <1>9, <1>10, <1>11, <1>12

\* The first stage leaves no link.
LEMMA CleanVmlinuzLinked ==
    ASSUME NEW k \in Name, NEW st \in Sound
    PROVE  CleanVmlinuz(st) \in Linked(k)
<1>1. <<"vmlinuz">> \in Path /\ Versioned \subseteq Path
  BY PathFacts DEF Plain
<1>2. CleanVmlinuz(st) \in Sound
  BY <1>1, CommandsSound DEF CleanVmlinuz
<1>3. Absent \notin Versioned
  BY DEF Absent, Versioned
<1>4. CleanVmlinuz(st).boot[<<"vmlinuz">>] \notin Versioned
  <2>1. CASE IsLink(st.boot, <<"vmlinuz">>)
    BY <1>1, <1>3, <2>1, CommandsSound DEF CleanVmlinuz, Sound, Running, BootDir
  <2>2. CASE ~IsLink(st.boot, <<"vmlinuz">>)
    BY <1>1, <2>2 DEF CleanVmlinuz, IsLink
  <2> QED
    BY <2>1, <2>2
<1> QED
  BY <1>2, <1>4 DEF Linked, LinkedTo

\* The whole step leaves a link to the kernel it was given, or to no version, unless
\* a command of it fails.
LEMMA WholeStageLinks ==
    ASSUME NEW st \in Sound, NEW k \in Name, NEW lib_, NEW host
    PROVE  KernelStage(st, k, lib_, host) \in Linked(k)
<1>1. CleanLinks(st, k, host) \in Linked(k)
  BY CleanVmlinuzLinked, StagesLinked DEF CleanLinks, Plain
<1>2. ASSUME NEW s \in Linked(k) PROVE LinkKernel(s, k, lib_, host) \in Linked(k)
  BY StagesLinked DEF LinkKernel, Plain
<1>3. ASSUME NEW s \in Linked(k) PROVE LinkRest(s, k) \in Linked(k)
  <2>1. <<"vmlinuz-lts">> \in Plain /\ <<"vmlinuz-rpi">> \in Plain
    BY DEF Plain
  <2> DEFINE a == LinkImage(LinkHmac(CleanHmac(s), k), k)
             b == LinkAlpine(a, <<"vmlinuz-lts">>)
  <2>2. a \in Linked(k)
    BY <2>1, StagesLinked
  <2>3. b \in Linked(k)
    BY <2>1, <2>2, StagesLinked
  <2> QED
    BY <2>1, <2>3, StagesLinked DEF LinkRest
<1> QED
  BY <1>1, <1>2, <1>3 DEF KernelStage


LEMMA KernelStageLinks ==
    ASSUME NEW st \in Running, NEW k \in Name, NEW lib_, NEW host,
           NEW r, r = KernelStage(st, k, lib_, host), NoError(r)
    PROVE  LinkedTo(r.boot, k)
<1> DEFINE w == KernelStage(Whole(st), k, lib_, host)
<1>1. Whole(st) \in Sound
  BY WholeFacts
<1>2. w \in Linked(k)
  BY <1>1, WholeStageLinks
<1>3. r.boot = w.boot
  BY KernelStageWhole
<1> HIDE DEF w
<1> QED
  BY <1>2, <1>3 DEF Linked

-----------------------------------------------------------------------------
(* The kernel step as the pipeline takes it: st is the executor run as it     *)
(* finds it, r as it leaves it.                                               *)

LEMMA KernelTaken ==
    ASSUME TInv, Kernel, At("kernel")
    PROVE  \E st \in Running : \E r \in Running :
             /\ r = KernelStage(st, plan, lib, platform.host)
             /\ st.boot = boot /\ boot' = r.boot
             /\ (err => err') /\ (~err' => NoError(r))
<1>1. PICK broken \in Faults :
        LET st == KernelStage(Begun(broken), plan, lib, platform.host)
        IN  boot' = st.boot /\ Then("initramfsConfigs", st.err)
  BY DEF Kernel, Begun, Skip, At
<1> DEFINE st == Begun(broken)
           r  == KernelStage(st, plan, lib, platform.host)
<1>2. st \in Running /\ st.boot = boot /\ st.err = err
  BY BegunFacts DEF TInv
<1>3. plan \in Name
  BY DEF TInv, PlanInv, At
<1> HIDE DEF st
<1>4. r \in Running
  BY <1>2, <1>3, KernelStageType
<1>5. err' = (err \/ r.err)
  BY <1>1, Zenon DEF Then, st
<1>6. boot' = r.boot
  BY <1>1 DEF st
<1> HIDE DEF r
<1>7. r.err = TRUE \/ r.err = FALSE
  BY <1>4 DEF Running
<1>8. ~err' => NoError(r)
  BY <1>5, <1>7, Zenon DEF NoError
<1>9. err => err'
  BY <1>5, Zenon
<1> QED
  BY <1>2, <1>4, <1>6, <1>8, <1>9 DEF r

-----------------------------------------------------------------------------
(* The invariants.                                                            *)

AfterKernel  == {"initramfsConfigs", "initrd"} \union AfterInitrd
AfterRelease == {"kernel"} \union AfterKernel

Described == [present |-> TRUE, trusted |-> cmd.trusted, standard |-> cmd.standard]

\* The release file, from the step that writes it.
ReleaseInv == pc \in AfterRelease /\ ~err /\ ~ContainsSkipStep("kairosRelease")
                 => release = Described

\* /boot/vmlinuz, from the kernel step.
LinkInv == pc \in AfterKernel /\ ~err /\ ~ContainsSkipStep("kernel")
              => LinkedTo(boot, plan)

WholeRun == cmd.stage = "all" /\ cmd.skip = {} /\ ~cmd.trusted

\* What goes into the initrd, and then the initrd.
InitrdInv == /\ pc = "initrd" /\ ~err /\ WholeRun => {"binaries", "initramfs"} \subseteq files
             /\ pc \in AfterInitrd /\ ~err /\ ~cmd.trusted /\ ~ContainsSkipStep("initrd")
                  => initrd.kernel = plan
             /\ pc \in AfterInitrd /\ ~err /\ WholeRun => initrd.kairos

\* The steps that lead into none of these, and those that lead along them.
Outside == \/ Layer \/ Run \/ InstallStage \/ Exit
           \/ PlanInit \/ BeforeInit \/ EndInit \/ AfterInit

Along == \/ Kernel \/ InitramfsConfigs \/ GenerateInitrd \/ Services \/ SshHardening
         \/ Workarounds \/ Cleanup

\* Every step is one of them, or the release step in between.
LEMMA Split3 == [Next]_vars => Outside \/ KairosRelease \/ Along \/ UNCHANGED vars
BY Zenon DEF Next, InitStage, Outside, Along

\* The first do not end on the way.
LEMMA OutsideStep == Outside => pc' \notin AfterRelease
<1> SUFFICES ASSUME Outside PROVE pc' \notin AfterRelease
  OBVIOUS
<1> USE DEF Goto, Then, Finish, Skip, At, AfterInstallStage, AfterInitrd, AfterKernel, AfterRelease
<1>1. CASE Layer \/ Run \/ Exit
  BY <1>1 DEF Layer, Run, Exit
<1>2. CASE InstallStage
  BY <1>2 DEF InstallStage, PlanInstall, BeforeInstall, InstallPackages, InstallKernel,
       InstallFiles, EndInstall, AfterInstall, CloudConfigs, KairosBinaries, ProviderBinaries,
       BuildProvider, Extensions
<1>3. CASE PlanInit \/ BeforeInit \/ EndInit \/ AfterInit
  BY <1>3 DEF PlanInit, BeforeInit, EndInit, AfterInit, Extensions
<1> QED
  BY <1>1, <1>2, <1>3 DEF Outside

\* The executor run goes on from step to step with its plan, and an error stays.
LEMMA AlongStep ==
    ASSUME TInv, Along
    PROVE  /\ UNCHANGED <<release, cmd, plan>>
           /\ pc \in AfterRelease
           /\ err => err'
<1> USE DEF Skip, At, image, AfterInitrd, AfterKernel, AfterRelease
<1>1. UNCHANGED <<release, cmd, plan>> /\ pc \in AfterRelease
  BY DEF Along, Kernel, InitramfsConfigs, GenerateInitrd, Services, SshHardening, Workarounds,
         Cleanup
<1>2. ASSUME err PROVE err'
  <2>1. CASE Kernel
    <3>1. CASE Skip("kernel", "initramfsConfigs")
      BY <1>2, <3>1
    <3>2. CASE At("kernel")
      BY <1>2, <2>1, <3>2, KernelTaken
    <3> QED
      BY <2>1, <3>1, <3>2 DEF Kernel
  <2>2. CASE InitramfsConfigs \/ GenerateInitrd
    BY <1>2, <2>2, Zenon DEF InitramfsConfigs, GenerateInitrd, Then
  <2>3. CASE Services \/ SshHardening \/ Workarounds \/ Cleanup
    BY <1>2, <2>3, Zenon DEF Services, SshHardening, Workarounds, Cleanup, Then
  <2> QED
    BY <2>1, <2>2, <2>3 DEF Along
<1> QED
  BY <1>1, <1>2

\* Only the release step writes the file.
LEMMA ReleaseStep == TInv /\ ReleaseInv /\ [Next]_vars => ReleaseInv'
<1> SUFFICES ASSUME TInv, ReleaseInv, [Next]_vars PROVE ReleaseInv'
  OBVIOUS
<1>1. CASE UNCHANGED vars
  BY <1>1, Zenon DEF vars, control, image, ReleaseInv, Described, ContainsSkipStep
<1>2. CASE Outside
  BY <1>2, OutsideStep DEF ReleaseInv
<1>3. CASE Along
  BY <1>3, AlongStep, Zenon DEF ReleaseInv, Described, ContainsSkipStep
<1>4. CASE KairosRelease
  <2>1. cmd' = cmd
    BY <1>4 DEF KairosRelease, Skip, At
  <2>2. ContainsSkipStep("kairosRelease") \/ err' \/ release' = Described
    BY <1>4, Zenon DEF KairosRelease, Skip, At, Then, Described
  <2> QED
    BY <2>1, <2>2, Zenon DEF ReleaseInv, Described, ContainsSkipStep
<1> QED
  BY <1>1, <1>2, <1>3, <1>4, Split3

\* Only the kernel step makes the link while the plan is executed.
LEMMA LinkStep == TInv /\ LinkInv /\ [Next]_vars => LinkInv'
<1> SUFFICES ASSUME TInv, LinkInv, [Next]_vars PROVE LinkInv'
  OBVIOUS
<1>1. CASE UNCHANGED vars
  BY <1>1, Zenon DEF vars, control, image, LinkInv, LinkedTo, ContainsSkipStep
<1>2. CASE Outside
  BY <1>2, OutsideStep DEF LinkInv, AfterRelease
<1>3. CASE Along
  <2>1. UNCHANGED <<cmd, plan>>
    BY <1>3, AlongStep
  <2>2. CASE Kernel
    <3>1. CASE Skip("kernel", "initramfsConfigs")
      BY <2>1, <3>1 DEF Skip, LinkInv, ContainsSkipStep
    <3>2. CASE At("kernel")
      <4>1. plan \in Name
        BY <3>2 DEF TInv, PlanInv, At
      <4>2. PICK st \in Running, r \in Running :
              /\ r = KernelStage(st, plan, lib, platform.host)
              /\ boot' = r.boot /\ (~err' => NoError(r))
        BY <2>2, <3>2, KernelTaken
      <4>3. ~err' => LinkedTo(boot', plan)
        BY <4>1, <4>2, KernelStageLinks
      <4> QED
        BY <2>1, <4>3 DEF LinkInv, LinkedTo
    <3> QED
      BY <2>2, <3>1, <3>2 DEF Kernel
  <2>3. CASE ~Kernel
    <3>1. boot' = boot /\ pc \in AfterKernel
      BY <1>3, <2>3 DEF Along, InitramfsConfigs, GenerateInitrd, Services, SshHardening,
           Workarounds, Cleanup, Skip, At, image, kernels, AfterKernel, AfterInitrd
    <3>2. err => err'
      BY <1>3, AlongStep
    <3> QED
      BY <2>1, <3>1, <3>2, Zenon DEF LinkInv, LinkedTo, ContainsSkipStep
  <2> QED
    BY <2>2, <2>3
<1>4. CASE KairosRelease
  <2>1. pc' = "kernel"
    BY <1>4 DEF KairosRelease, Skip, Then, Goto
  <2> QED
    BY <2>1 DEF LinkInv, AfterKernel, AfterInitrd
<1> QED
  BY <1>1, <1>2, <1>3, <1>4, Split3

\* What the initrd is made of is there before it is made.
LEMMA InitrdStep == TInv /\ InstallInv /\ InitrdInv /\ [Next]_vars => InitrdInv'
<1> SUFFICES ASSUME TInv, InstallInv, InitrdInv, [Next]_vars PROVE InitrdInv'
  OBVIOUS
<1> USE DEF AfterInitrd
<1>1. CASE UNCHANGED vars
  BY <1>1, Zenon DEF vars, control, image, InitrdInv, WholeRun, ContainsSkipStep
<1>2. CASE Outside
  BY <1>2, OutsideStep DEF InitrdInv, AfterRelease, AfterKernel
<1>3. CASE KairosRelease \/ Kernel
  <2>1. pc' \in {"kernel", "initramfsConfigs"}
    BY <1>3 DEF KairosRelease, Kernel, Skip, Then, Goto
  <2> QED
    BY <2>1 DEF InitrdInv
<1>4. CASE InitramfsConfigs
  <2>1. pc = "initramfsConfigs" /\ pc' = "initrd" /\ cmd' = cmd /\ files \subseteq files'
    BY <1>4 DEF InitramfsConfigs, Skip, At, Then, Goto, image
  <2> SUFFICES ASSUME ~err', WholeRun PROVE {"binaries", "initramfs"} \subseteq files'
    BY <2>1 DEF InitrdInv, WholeRun
  <2>2. "binaries" \in files
    BY <2>1 DEF WholeRun, InstallInv, FromInstall, HasBinaries, WithBinaries, InitPc,
         ContainsSkipStep
  <2>3. ~ContainsSkipStep("initramfsConfigs")
    BY DEF WholeRun, ContainsSkipStep
  <2>4. files' = files \union {"initramfs"}
    BY <1>4, <2>3, Zenon DEF InitramfsConfigs, Skip, Then, WholeRun
  <2> QED
    BY <2>2, <2>4
<1>5. CASE GenerateInitrd
  <2>1. /\ pc = "initrd" /\ pc' = "services" /\ cmd' = cmd /\ plan' = plan
    BY <1>5 DEF GenerateInitrd, Skip, At, Then, Goto
  <2>2. ASSUME ~err', ~cmd.trusted, ~ContainsSkipStep("initrd")
        PROVE  ~err /\ initrd' = Rebuilt
    BY <1>5, <2>2, Zenon DEF GenerateInitrd, Skip, Then
  <2>3. Rebuilt.kernel = plan
    BY DEF Rebuilt
  <2>4. {"binaries", "initramfs"} \subseteq files => Rebuilt.kairos
    BY DEF Rebuilt
  <2>5. WholeRun => ~cmd.trusted /\ ~ContainsSkipStep("initrd")
    BY DEF WholeRun, ContainsSkipStep
  <2>6. ~err' /\ ~cmd.trusted /\ ~ContainsSkipStep("initrd") => initrd'.kernel = plan
    BY <2>2, <2>3, Zenon
  <2>7. ~err' /\ WholeRun => initrd'.kairos
    <3> SUFFICES ASSUME ~err', WholeRun PROVE initrd'.kairos
      OBVIOUS
    <3>1. ~err /\ initrd' = Rebuilt
      BY <2>2, <2>5, Zenon
    <3>2. {"binaries", "initramfs"} \subseteq files
      BY <2>1, <3>1, Zenon DEF InitrdInv
    <3> QED
      BY <2>4, <3>1, <3>2, Zenon
  <2>8. pc' # "initrd"
    BY <2>1
  <2> QED
    BY <2>1, <2>6, <2>7, <2>8, Zenon DEF InitrdInv, WholeRun, ContainsSkipStep
<1>6. CASE Services \/ SshHardening \/ Workarounds \/ Cleanup
  <2>1. UNCHANGED <<cmd, plan, initrd>> /\ pc \in AfterInitrd /\ pc' # "initrd"
    BY <1>6 DEF Services, SshHardening, Workarounds, Cleanup, Skip, At, Then, Goto, image
  <2>2. err => err'
    BY <1>6, AlongStep, Zenon DEF Along
  <2> QED
    BY <2>1, <2>2, Zenon DEF InitrdInv, WholeRun, ContainsSkipStep
<1> QED
  BY <1>1, <1>2, <1>3, <1>4, <1>5, <1>6, Split3 DEF Along

-----------------------------------------------------------------------------
(* The package index of a whole Trusted Boot build, from the step that fetches *)
(* it in the install stage to the one that asks it in the init stage.          *)

WholeTrusted == cmd.stage = "all" /\ cmd.skip = {} /\ cmd.trusted /\ ~Prebuilt

InstallWithIndex == {"installKernel", "installFiles", "endInstall"}
IndexKept        == {"afterInstall", "cloudconfigs", "kairosBinaries", "providerBinaries",
                     "buildProvider", "planInit", "beforeInit", "kairosRelease", "kernel",
                     "initramfsConfigs", "initrd", "services", "sshHardening", "workarounds"}

Fetched == plan \in Split => plan \in nvdimm

IndexInv == WholeTrusted => /\ pc \in InstallWithIndex => err \/ lists
                            /\ pc \in IndexKept => lists
                            /\ pc \in {"cleanup", "endInit"} => err \/ Fetched

\* Neither the author's layers nor the init stage of another run come in between, and
\* no step throws the index away.
LEMMA IndexStep == TInv /\ IndexInv /\ [Next]_vars => IndexInv'
<1> SUFFICES ASSUME TInv, IndexInv, [Next]_vars, WholeTrusted' PROVE IndexInv'
  BY DEF IndexInv
<1> USE DEF InstallWithIndex, IndexKept
<1>1. CASE UNCHANGED vars
  BY <1>1, Zenon DEF vars, control, image, IndexInv, WholeTrusted, Prebuilt, Fetched
<1>2. CASE Layer \/ Run \/ Exit
  <2>1. pc' \in {"idle", "planInstall"} \/ cmd'.stage = "init"
    BY <1>2 DEF Layer, Run, Exit, Goto
  <2> QED
    BY <2>1 DEF IndexInv, WholeTrusted
<1>3. CASE (InstallStage \/ InitStage) /\ UNCHANGED platform
  <2>1. cmd' = cmd
    BY <1>3 DEF InstallStage, PlanInstall, BeforeInstall, InstallPackages, InstallKernel,
         InstallFiles, EndInstall, AfterInstall, CloudConfigs, KairosBinaries, ProviderBinaries,
         BuildProvider, InitStage, PlanInit, BeforeInit, EndInit, AfterInit, KairosRelease,
         Kernel, InitramfsConfigs, GenerateInitrd, Services, SshHardening, Workarounds, Cleanup,
         Extensions, Skip, At
  <2>2. WholeTrusted /\ (\A step : ~ContainsSkipStep(step))
    BY <1>3, <2>1 DEF WholeTrusted, Prebuilt, ContainsSkipStep
  <2>3. \A here, next : ~Skip(here, next)
    BY <2>2, Zenon DEF Skip
  <2>4. CASE PlanInstall \/ BeforeInstall \/ EndInit \/ AfterInit
    <3>1. pc' \in {"beforeInstall", "installPackages", "failed", "afterInit", "report"}
      BY <2>2, <2>4 DEF PlanInstall, BeforeInstall, EndInit, AfterInit, Extensions, Finish, Goto
    <3> QED
      BY <3>1 DEF IndexInv
  <2>5. CASE InstallPackages
    <3>1. pc' = "installKernel" /\ (err' \/ lists' = TRUE)
      <4>1. PICK failed \in BOOLEAN : /\ Then("installKernel", failed)
                                      /\ failed \/ lists' = TRUE
        BY <2>2, <2>3, <2>5, Zenon DEF InstallPackages, WholeTrusted
      <4> QED
        BY <4>1 DEF Then, Goto
    <3> QED
      BY <3>1 DEF IndexInv
  <2>6. CASE InstallKernel \/ InstallFiles
    <3>1. /\ pc \in InstallWithIndex /\ pc' \in InstallWithIndex /\ lists' = lists
          /\ err => err'
      <4>1. CASE InstallKernel
        <5>1. pc = "installKernel" /\ lists' = lists
          BY <2>3, <4>1 DEF InstallKernel, At
        <5>2. \E failed \in BOOLEAN : Then("installFiles", failed)
          BY <2>3, <4>1, Zenon DEF InstallKernel
        <5> QED
          BY <5>1, <5>2 DEF Then, Goto
      <4>2. CASE InstallFiles
        BY <4>2 DEF InstallFiles, Then, Goto, image
      <4> QED
        BY <2>6, <4>1, <4>2
    <3> QED
      BY <2>2, <3>1 DEF IndexInv
  <2>7. CASE EndInstall
    <3>1. pc = "endInstall" /\ lists' = lists
      BY <2>7 DEF EndInstall, Extensions
    <3>2. Finish("afterInstall", err) \/ Finish("afterInstall", TRUE)
      BY <2>7, Zenon DEF EndInstall, Extensions
    <3>3. pc' = "failed" \/ (pc' = "afterInstall" /\ ~err)
      BY <3>2 DEF Finish, Goto
    <3> QED
      BY <2>2, <3>1, <3>3 DEF IndexInv
  <2>8. CASE \/ AfterInstall \/ CloudConfigs \/ KairosBinaries \/ ProviderBinaries
             \/ BuildProvider \/ PlanInit \/ BeforeInit
    <3>1. /\ pc \in IndexKept /\ pc' \in IndexKept \union {"failed"}
          /\ lists' = lists
      BY <2>2, <2>8 DEF AfterInstall, CloudConfigs, KairosBinaries, ProviderBinaries,
           BuildProvider, PlanInit, BeforeInit, Extensions, Finish, Goto, Skip, At, image,
           AfterInstallStage, WholeTrusted
    <3> QED
      BY <2>2, <3>1 DEF IndexInv
  <2>9. CASE \/ KairosRelease \/ Kernel \/ InitramfsConfigs \/ GenerateInitrd \/ Services
             \/ SshHardening
    <3>1. pc \in IndexKept /\ pc' \in IndexKept /\ lists' = lists
      BY <2>9 DEF KairosRelease, Kernel, InitramfsConfigs, GenerateInitrd, Services,
           SshHardening, Then, Goto, Skip, At, image
    <3> QED
      BY <2>2, <3>1 DEF IndexInv
  <2>10. CASE Workarounds
    <3>1. pc = "workarounds" /\ pc' = "cleanup" /\ plan' = plan
      BY <2>3, <2>10 DEF Workarounds, At, Then, Goto
    <3>2. lists /\ cmd.trusted
      BY <2>2, <3>1 DEF IndexInv, WholeTrusted
    <3>3. \/ Then("cleanup", TRUE)
          \/ nvdimm' = IF plan \in Split THEN nvdimm \union {plan} ELSE nvdimm
      BY <2>3, <2>10, <3>2, Zenon DEF Workarounds
    <3>4. err' \/ Fetched'
      <4>1. Then("cleanup", TRUE) => err'
        BY Zenon DEF Then
      <4> QED
        BY <3>1, <3>3, <4>1 DEF Fetched
    <3> QED
      BY <3>1, <3>4 DEF IndexInv
  <2>11. CASE Cleanup
    <3>1. pc = "cleanup" /\ pc' = "endInit" /\ UNCHANGED <<plan, nvdimm>>
      BY <2>3, <2>11 DEF Cleanup, At, Then, Goto
    <3>2. err => err'
      BY <2>11, AlongStep, Zenon DEF Along
    <3> QED
      BY <2>2, <3>1, <3>2 DEF IndexInv, Fetched
  <2> QED
    BY <1>3, <2>4, <2>5, <2>6, <2>7, <2>8, <2>9, <2>10, <2>11, Zenon DEF InstallStage, InitStage
<1> QED
  BY <1>1, <1>2, <1>3 DEF Next

-----------------------------------------------------------------------------

StageInv == TInv /\ InstallInv /\ ReleaseInv /\ LinkInv /\ InitrdInv

\* All of it holds in every state.
LEMMA StageInvariant == Spec => []StageInv
<1>1. Init => TInv /\ InstallInv
  BY InitType DEF Init, InstallInv, WithPackages, WithBinaries, WithProvider, InitPc
<1>2. Init => ReleaseInv /\ LinkInv /\ InitrdInv
  BY DEF Init, ReleaseInv, LinkInv, InitrdInv, AfterRelease, AfterKernel, AfterInitrd
<1>3. StageInv /\ [Next]_vars => StageInv'
  BY TypeStep, InstallStep, ReleaseStep, LinkStep, InitrdStep, Zenon DEF StageInv
<1> QED
  BY <1>1, <1>2, <1>3, PTL DEF StageInv, Spec

\* /etc/kairos-release is of the run that built the image, whatever earlier runs with
\* other flags had written, and a whole standard build has its provider.
THEOREM ReleaseOfThisRun == Spec => []ReleaseDescribesBuild
<1>1. StageInv => ReleaseDescribesBuild
  <2> SUFFICES ASSUME StageInv, Built, ~ContainsSkipStep("kairosRelease")
               PROVE  /\ release = Described
                      /\ cmd.stage = "all" /\ cmd.skip = {} /\ release.standard
                           => "provider" \in files
    BY Zenon DEF ReleaseDescribesBuild, Described
  <2>1. pc = "endInit" /\ ~err
    BY DEF Built
  <2>2. release = Described
    BY <2>1, Zenon DEF StageInv, ReleaseInv, AfterRelease, AfterKernel, AfterInitrd
  <2>3. release.standard => cmd.standard
    BY <2>2, Zenon DEF Described
  <2>4. cmd.stage = "all" /\ cmd.skip = {} => FromInstall /\ HasProvider
    BY <2>1 DEF StageInv, InstallInv, FromInstall, WithProvider, InitPc, ContainsSkipStep
  <2>5. HasProvider /\ cmd.skip = {} /\ cmd.standard => "provider" \in files
    BY DEF HasProvider, ContainsSkipStep
  <2> QED
    BY <2>2, <2>3, <2>4, <2>5, Zenon
<1> QED
  BY <1>1, StageInvariant, PTL

\* The initrd of a whole build was made when the binaries and the configuration that
\* puts them in were there.
THEOREM InitrdComplete == Spec => []InitrdHasKairos
<1>1. StageInv => InitrdHasKairos
  BY Zenon DEF StageInv, InitrdInv, InitrdHasKairos, Built, WholeRun, AfterInitrd
<1> QED
  BY <1>1, StageInvariant, PTL

\* Kernel and initrd are of the kernel that the plan named, whatever extensions
\* did to the kernels after it was made.
THEOREM KernelMatchesInitrd == Spec => []InitrdOfLinkedKernel
<1>1. StageInv => InitrdOfLinkedKernel
  <2> SUFFICES ASSUME StageInv, Built, ~cmd.trusted, {"kernel", "initrd"} \intersect cmd.skip = {}
               PROVE  initrd.kernel = plan /\ LinkedTo(boot, plan)
    BY DEF InitrdOfLinkedKernel, LinkedTo
  <2>1. pc = "endInit" /\ ~err
    BY DEF Built
  <2>2. ~ContainsSkipStep("kernel") /\ ~ContainsSkipStep("initrd")
    BY DEF ContainsSkipStep
  <2>3. initrd.kernel = plan
    BY <2>1, <2>2, Zenon DEF StageInv, InitrdInv, AfterInitrd
  <2>4. LinkedTo(boot, plan)
    BY <2>1, <2>2 DEF StageInv, LinkInv, AfterKernel, AfterInitrd
  <2> QED
    BY <2>3, <2>4
<1> QED
  BY <1>1, StageInvariant, PTL

\* A whole Trusted Boot build has the nvdimm modules of the kernel it chose: nothing
\* between the package step of the install stage and the workarounds step of the init
\* stage throws away the index they are looked up in.
THEOREM NvdimmOfPlan == Spec => []NvdimmShipped
<1>1. Init => IndexInv
  BY DEF Init, IndexInv, InstallWithIndex, IndexKept
<1>2. IndexInv => NvdimmShipped
  BY DEF IndexInv, NvdimmShipped, WholeTrusted, Fetched, Built
<1>3. Init => TInv
  BY InitType
<1> QED
  BY <1>1, <1>2, <1>3, TypeStep, IndexStep, PTL DEF Spec

-----------------------------------------------------------------------------
(* No dangling link, from the kernel step to the end of the executor run; the *)
(* other steps make no link of a path that is to stay a file.                 *)

BootInv == /\ Solid(boot)
           /\ pc \in AfterKernel /\ ~err /\ ~ContainsSkipStep("kernel") => Target(boot)

\* What links lead to: Ubuntu's kernel packages alone make one of vmlinuz.old, and only
\* those of the RHEL family leave a kernel to be copied.
LinksInv == /\ boot[Vmlinuz] \in Path => boot[Vmlinuz] \in SolidPath
            /\ boot[Old] \in Path => boot[Old] \in SolidPath /\ platform.packaging = "linked"
            /\ lib # {} => platform.packaging = "lib"

\* Kernel packages bring files, and Ubuntu's make links of two of the three names.
LEMMA AddSolid ==
    ASSUME TypeOK, Solid(boot), NEW n \in Released, AddKernel(n)
    PROVE  Solid(boot')
<1> DEFINE b == [p \in Path |-> IF p \in Payload(n) THEN Regular ELSE boot[p]]
<1>1. \A p \in SolidPath : b[p] \notin Path
  BY SolidFacts DEF Solid
<1>2. b \in [Path -> Path \union {Absent, Regular}]
  BY DEF TypeOK, BootDir
<1> HIDE DEF b
<1>3. \A p \in SolidPath : Relink(b, n)[p] = b[p]
  BY <1>2, SolidFacts DEF Relink, Vmlinuz
<1>4. boot' = Relink(b, n)
  BY DEF AddKernel, b
<1> QED
  BY <1>1, <1>3, <1>4 DEF Solid

\* So they do in a layer or an extension, where they may also be purged.
LEMMA TouchSolid ==
    ASSUME TypeOK, Solid(boot), TouchKernels
    PROVE  Solid(boot')
<1>1. PICK n \in Released : AddKernel(n) \/ PurgeKernel(n)
  BY DEF TouchKernels
<1>2. CASE PurgeKernel(n)
  BY <1>2, SolidFacts DEF PurgeKernel, Solid
<1> QED
  BY <1>1, <1>2, AddSolid

\* Nothing but the kernel step, the package step and what extensions and layers do
\* changes the kernels.
LEMMA KernelsChange ==
    ASSUME [Next]_vars, ~Kernel
    PROVE  /\ UNCHANGED <<boot, lib>> \/ TouchKernels \/ \E n \in Released : AddKernel(n)
           /\ UNCHANGED platform
<1> USE DEF Skip, At, image, kernels
<1>1. CASE Layer \/ Run \/ Exit
  BY <1>1, Zenon DEF Layer, Run, Exit, Next, vars
<1>2. CASE BeforeInstall \/ EndInstall \/ AfterInstall \/ BeforeInit \/ EndInit \/ AfterInit
  BY <1>2, Zenon DEF BeforeInstall, EndInstall, AfterInstall, BeforeInit, EndInit, AfterInit,
       Extensions, Next, vars
<1>3. CASE InstallKernel
  BY <1>3, Zenon DEF InstallKernel, Next, vars
<1>4. CASE \/ PlanInstall \/ InstallPackages \/ InstallFiles \/ CloudConfigs
           \/ KairosBinaries \/ ProviderBinaries \/ BuildProvider
  BY <1>4, Zenon DEF PlanInstall, InstallPackages, InstallFiles, CloudConfigs, KairosBinaries,
       ProviderBinaries, BuildProvider, Next, vars
<1>5. CASE \/ PlanInit \/ KairosRelease \/ InitramfsConfigs \/ GenerateInitrd \/ Services
           \/ SshHardening \/ Workarounds \/ Cleanup
  BY <1>5, Zenon DEF PlanInit, KairosRelease, InitramfsConfigs, GenerateInitrd, Services,
       SshHardening, Workarounds, Cleanup, Next, vars
<1>6. CASE UNCHANGED vars
  BY <1>6 DEF vars
<1> QED
  BY <1>1, <1>2, <1>3, <1>4, <1>5, <1>6, Zenon DEF Next, InstallStage, InitStage

\* None of that makes a link of a path that is never one.
LEMMA SolidStep ==
    ASSUME TInv, Solid(boot), [Next]_vars, ~Kernel
    PROVE  Solid(boot')
<1>0. TypeOK
  BY DEF TInv
<1>1. CASE UNCHANGED boot
  BY <1>1 DEF Solid
<1>2. CASE TouchKernels
  BY <1>0, <1>2, TouchSolid
<1>3. CASE \E n \in Released : AddKernel(n)
  BY <1>0, <1>3, AddSolid
<1> QED
  BY <1>1, <1>2, <1>3, KernelsChange

\* A kernel package of Ubuntu moves the link on, the others touch no link.
LEMMA AddLinks ==
    ASSUME TypeOK, LinksInv, NEW n \in Released, AddKernel(n), UNCHANGED platform
    PROVE  LinksInv'
<1>0. /\ Vmlinuz \in Path /\ Vmlinuz \notin SolidPath /\ Old \in Path /\ Vmlinuz # Old
      /\ SolidPath \subseteq Path /\ <<"vmlinuz", n>> \in SolidPath
      /\ Absent \notin Path /\ Regular \notin Path
  BY SolidFacts, BuildAssumption DEF Old, Vmlinuz
<1> DEFINE b == [p \in Path |-> IF p \in Payload(n) THEN Regular ELSE boot[p]]
<1>1. b[Vmlinuz] \in Path => b[Vmlinuz] = boot[Vmlinuz]
  BY <1>0
<1>2. b[Old] \in Path => b[Old] = boot[Old]
  BY <1>0
<1>3. b \in [Path -> Path \union {Absent, Regular}]
  BY DEF TypeOK, BootDir
<1>4. boot' = Relink(b, n)
  BY DEF AddKernel
<1> HIDE DEF b
<1>5. CASE platform.packaging # "linked"
  <2>1. boot' = b
    BY <1>4, <1>5 DEF Relink
  <2> QED
    BY <1>1, <1>2, <1>5, <2>1 DEF LinksInv, AddKernel
<1>6. CASE platform.packaging = "linked"
  <2>1. /\ boot'[Vmlinuz] = <<"vmlinuz", n>>
        /\ boot'[Old] = IF b[Vmlinuz] = Absent THEN b[Old] ELSE b[Vmlinuz]
    BY <1>0, <1>3, <1>4, <1>6 DEF Relink, Vmlinuz, Old
  <2>2. lib' = lib
    BY <1>6 DEF AddKernel
  <2> QED
    BY <1>0, <1>1, <1>2, <1>6, <2>1, <2>2 DEF LinksInv
<1> QED
  BY <1>5, <1>6

\* A purge makes no link.
LEMMA TouchLinks ==
    ASSUME TypeOK, LinksInv, TouchKernels, UNCHANGED platform
    PROVE  LinksInv'
<1>1. PICK n \in Released : AddKernel(n) \/ PurgeKernel(n)
  BY DEF TouchKernels
<1>2. CASE PurgeKernel(n)
  <2>1. Vmlinuz \in Path /\ Old \in Path /\ Absent \notin Path
    BY SolidFacts DEF Old
  <2>2. /\ boot'[Vmlinuz] \in {boot[Vmlinuz], Absent} /\ boot'[Old] \in {boot[Old], Absent}
        /\ lib' \subseteq lib
    BY <1>2, <2>1 DEF PurgeKernel
  <2> QED
    BY <2>1, <2>2 DEF LinksInv
<1> QED
  BY <1>1, <1>2, AddLinks

\* A kernel step that did not fail leaves no dangling link.
LEMMA KernelStageTarget ==
    ASSUME NEW st \in Running, Solid(st.boot), NEW k \in Name, NEW lib_, NEW host,
           NEW r, r = KernelStage(st, k, lib_, host), NoError(r)
    PROVE  Target(r.boot)
<1> DEFINE w == KernelStage(Whole(st), k, lib_, host)
<1>1. Whole(st) \in Sound /\ Whole(st).boot = st.boot
  BY WholeFacts
<1>2. w \in Resolved
  BY <1>1, KernelStageResolves
<1>3. r.boot = w.boot
  BY KernelStageWhole
<1> HIDE DEF w
<1> QED
  BY <1>2, <1>3 DEF Resolved

\* Between the kernel step and the end of the executor run /boot is left alone.
LEMMA BootStep == TInv /\ BootInv /\ LinksInv /\ [Next]_vars => BootInv'
<1> SUFFICES ASSUME TInv, BootInv, LinksInv, [Next]_vars PROVE BootInv'
  OBVIOUS
<1>0. Solid(boot)
  BY DEF BootInv
<1>1. CASE Kernel /\ At("kernel")
  <2>1. plan \in Name
    BY <1>1 DEF TInv, PlanInv, At
  <2>2. PICK st \in Running, r \in Running :
          /\ r = KernelStage(st, plan, lib, platform.host)
          /\ st.boot = boot /\ boot' = r.boot /\ (~err' => NoError(r))
    BY <1>1, KernelTaken
  <2>3. Solid(boot')
    <3>1. st \in Tidy(boot[Old])
      BY <1>0, <2>2 DEF Tidy, LinksInv
    <3> QED
      BY <2>1, <2>2, <3>1, KernelStageTidy DEF Tidy
  <2>4. ~err' => Target(boot')
    BY <1>0, <2>1, <2>2, KernelStageTarget
  <2> QED
    BY <2>3, <2>4 DEF BootInv, Solid, Target
<1>2. CASE Kernel /\ Skip("kernel", "initramfsConfigs")
  BY <1>0, <1>2 DEF Skip, BootInv, Solid, ContainsSkipStep, image
<1>3. CASE ~Kernel
  <2>1. Solid(boot')
    BY <1>0, <1>3, SolidStep
  <2>2. CASE UNCHANGED vars
    BY <2>1, <2>2, Zenon DEF vars, control, image, BootInv, Solid, Target, ContainsSkipStep
  <2>3. CASE Outside \/ KairosRelease
    <3>1. pc' \notin AfterKernel
      BY <2>3, OutsideStep DEF KairosRelease, Skip, Then, Goto, AfterRelease, AfterKernel,
         AfterInitrd
    <3> QED
      BY <2>1, <3>1 DEF BootInv, Solid
  <2>4. CASE Along
    <3>1. boot' = boot /\ cmd' = cmd /\ pc \in AfterKernel
      BY <1>3, <2>4 DEF Along, InitramfsConfigs, GenerateInitrd, Services, SshHardening,
           Workarounds, Cleanup, Skip, At, image, kernels, AfterKernel, AfterInitrd
    <3>2. err => err'
      BY <2>4, AlongStep
    <3> QED
      BY <2>1, <3>1, <3>2, Zenon DEF BootInv, Solid, Target, ContainsSkipStep
  <2> QED
    BY <2>2, <2>3, <2>4, Split3
<1> QED
  BY <1>1, <1>2, <1>3 DEF Kernel

\* The kernel step makes links to paths that are never links, and no vmlinuz.old.
LEMMA LinksStep == TInv /\ BootInv /\ LinksInv /\ [Next]_vars => LinksInv'
<1> SUFFICES ASSUME TInv, BootInv, LinksInv, [Next]_vars PROVE LinksInv'
  OBVIOUS
<1>0. TypeOK /\ Solid(boot) /\ OldSolid(boot)
  BY DEF TInv, BootInv, LinksInv, OldSolid
<1>1. CASE Kernel /\ At("kernel")
  <2>1. plan \in Name /\ lib' = lib /\ platform' = platform
    BY <1>1, Zenon DEF TInv, PlanInv, Kernel, Skip, At, Next, vars
  <2>2. PICK st \in Running, r \in Running :
          /\ r = KernelStage(st, plan, lib, platform.host)
          /\ st.boot = boot /\ boot' = r.boot
    BY <1>1, KernelTaken
  <2>3. st \in Tidy(boot[Old])
    BY <1>0, <2>2 DEF Tidy, LinksInv
  <2>4. r \in Tidy(boot[Old])
    BY <2>1, <2>2, <2>3, KernelStageTidy
  <2> QED
    BY <2>1, <2>2, <2>4, SolidFacts DEF LinksInv, Tidy
<1>2. CASE Kernel /\ Skip("kernel", "initramfsConfigs")
  BY <1>2 DEF Skip, image, LinksInv, Next, vars
<1>3. CASE ~Kernel
  <2>1. CASE UNCHANGED <<boot, lib, platform>>
    BY <2>1 DEF LinksInv
  <2> QED
    BY <1>0, <1>3, <2>1, KernelsChange, TouchLinks, AddLinks
<1> QED
  BY <1>1, <1>2, <1>3 DEF Kernel

\* The links of /boot, in every state.
LEMMA BootInvariant == Spec => [](TInv /\ BootInv /\ LinksInv)
<1>1. Init => TInv /\ BootInv /\ LinksInv
  <2>1. Init => Solid(boot)
    BY SolidFacts DEF Init, Solid
  <2>2. Init => pc \notin AfterKernel
    BY DEF Init, AfterKernel, AfterInitrd
  <2>3. Init => LinksInv
    <3>1. Vmlinuz \in Path /\ Old \in Path /\ Absent \notin Path /\ Regular \notin Path
      BY SolidFacts DEF Old
    <3> QED
      BY <3>1 DEF Init, LinksInv
  <2> QED
    BY <2>1, <2>2, <2>3, InitType DEF BootInv
<1> QED
  BY <1>1, TypeStep, BootStep, LinksStep, PTL DEF Spec

\* After a good kernel step a link /boot/vmlinuz leads to a file, whatever kernels
\* were purged before.
THEOREM NoDanglingLink == Spec => []VmlinuzResolves
<1>1. BootInv => VmlinuzResolves
  <2> SUFFICES ASSUME BootInv, Built, ~ContainsSkipStep("kernel"), IsLink(boot, <<"vmlinuz">>)
               PROVE  IsFile(boot, <<"vmlinuz">>)
    BY DEF VmlinuzResolves
  <2>1. Target(boot)
    BY DEF Built, BootInv, AfterKernel, AfterInitrd
  <2> QED
    BY <2>1 DEF Target, IsLink, IsFile, Vmlinuz
<1> QED
  BY <1>1, BootInvariant, PTL

-----------------------------------------------------------------------------
(* Running the kernel step again.  It could undo itself in one way only: the  *)
(* step keeps a dangling vmlinuz.old, copies a kernel to where that leads, and *)
(* would find a file there the next time.  Only Ubuntu's kernel packages make *)
(* that link, and only those of the RHEL family leave a kernel to be copied.  *)

\* Layers may run the init stage over and over: the kernel step repeats what it did.
THEOREM KernelStepRepeatable == Spec => []KernelStageRepeatable
<1>1. TInv /\ BootInv /\ LinksInv => KernelStageRepeatable
  <2> SUFFICES ASSUME TInv, BootInv, LinksInv, NEW k \in modules,
                      ~KernelStage([boot |-> boot, err |-> FALSE, broken |-> {}], k, lib,
                                   platform.host).err
               PROVE  LET once == KernelStage([boot |-> boot, err |-> FALSE, broken |-> {}], k,
                                              lib, platform.host)
                      IN  KernelStage(once, k, lib, platform.host) = once
    BY DEF KernelStageRepeatable
  <2> DEFINE st == [boot |-> boot, err |-> FALSE, broken |-> {}]
             once == KernelStage(st, k, lib, platform.host)
  <2>1. st \in Sound /\ st.boot = boot /\ NoError(st) /\ k \in Name
    BY DEF TInv, TypeOK, Sound, Running, NoError
  <2>2. Solid(st.boot) /\ OldSolid(st.boot) /\ OldApart(st.boot, k, lib)
    BY <2>1 DEF BootInv, LinksInv, OldSolid, OldApart
  <2>3. ~once.err
    OBVIOUS
  <2> HIDE DEF st
  <2>4. once \in Running
    BY <2>1, KernelStageType DEF Sound
  <2>5. NoError(once)
    <3> HIDE DEF once
    <3> QED
      BY <2>3, <2>4 DEF Running, NoError
  <2>6. KernelStage(once, k, lib, platform.host) = once
    BY <2>1, <2>2, <2>5, KernelStageAgain
  <2> QED
    BY <2>6 DEF st
<1> QED
  BY <1>1, BootInvariant, PTL

-----------------------------------------------------------------------------
(* What the validator asks for.  The init stage is followed to the report: a  *)
(* run that skips no step the validator looks at, and has no extensions.      *)

Wanted == /\ cmd.stage # "install" /\ ~cmd.extensions
          /\ {"init", "kairosRelease", "kernel", "initramfsConfigs", "initrd",
              "services", "cleanup"} \intersect cmd.skip = {}

Ends          == {"afterInit", "report"}
SinceCleanup  == {"endInit"} \union Ends
SinceServices == {"sshHardening", "workarounds", "cleanup"} \union SinceCleanup
SinceInitrd   == {"services"} \union SinceServices
SinceConfigs  == {"initrd"} \union SinceInitrd
SinceKernel   == {"initramfsConfigs"} \union SinceConfigs
SinceRelease  == {"kernel"} \union SinceKernel
SincePlan     == {"beforeInit", "kairosRelease"} \union SinceRelease

\* The base image stays, and one that comes with a kernel has no other.
BaseInv == /\ platform \in Platforms
           /\ Prebuilt => /\ boot[Vmlinuz] = Regular /\ lib = {}
                          /\ \A p \in SolidPath : boot[p] # Regular

\* The parts of the image, each from the step that makes it.
Planned    == plan \in Name /\ modules # {}
KernelDone == Target(boot) /\ KernelMade(boot, plan, lib, platform.host)
InitrdDone == initrd.kernel = plan /\ ("binaries" \in files => initrd.kairos)

PlannedInv  == pc \in SincePlan => Planned
EndsInv     == pc \in Ends => ~err
WrittenInv  == pc \in SinceRelease /\ ~err => release.present
MadeInv     == pc \in SinceKernel /\ ~err => KernelDone
ConfigInv   == pc \in SinceConfigs /\ ~err /\ ~cmd.trusted => "initramfs" \in files
BuiltInv    == pc \in SinceInitrd /\ ~err /\ ~cmd.trusted => InitrdDone
ServicesInv == pc \in SinceServices /\ ~err => "services" \in files
KeysInv     == pc \in SinceCleanup /\ ~err => ~hostKeys

PartsInv == /\ PlannedInv /\ EndsInv /\ WrittenInv /\ MadeInv
            /\ ConfigInv /\ BuiltInv /\ ServicesInv /\ KeysInv

ValidInv == /\ pc \in InstallPc => cmd.stage # "init"
            /\ Wanted => PartsInv

USE DEF Ends, SinceCleanup, SinceServices, SinceInitrd, SinceConfigs, SinceKernel,
        SinceRelease, SincePlan

\* Only the first step of the init stage leads to a plan; an install stage of its own
\* ends in a report too, but not of a run that is wanted here.
LEMMA BeforePlan ==
    ASSUME TInv, ValidInv, Layer \/ Run \/ InstallStage \/ Exit
    PROVE  ValidInv'
<1> USE DEF Goto, Then, Finish, Skip, At, AfterInstallStage, InstallPc
<1>1. (pc \in InstallPc => cmd.stage # "init")' /\ (Wanted' => pc' \notin SincePlan)
  <2>1. CASE Layer \/ Exit
    BY <2>1 DEF Layer, Exit
  <2>2. CASE Run
    BY <2>2 DEF Run
  <2>3. CASE InstallStage
    <3>1. pc \in InstallPc /\ cmd' = cmd
      BY <2>3 DEF InstallStage, PlanInstall, BeforeInstall, InstallPackages, InstallKernel,
           InstallFiles, EndInstall, AfterInstall, CloudConfigs, KairosBinaries,
           ProviderBinaries, BuildProvider, Extensions
    <3>2. cmd.stage # "init"
      BY <3>1 DEF ValidInv
    <3>3. pc' \in InstallPc \union {"failed", AfterInstallStage}
      BY <2>3 DEF InstallStage, PlanInstall, BeforeInstall, InstallPackages, InstallKernel,
           InstallFiles, EndInstall, AfterInstall, CloudConfigs, KairosBinaries,
           ProviderBinaries, BuildProvider, Extensions
    <3>4. Wanted' => cmd.stage = "all"
      BY <3>1, <3>2 DEF Wanted, TInv, TypeOK, Command
    <3>5. cmd.stage = "all" => pc' \notin SincePlan
      BY <3>3
    <3>6. cmd'.stage # "init"
      BY <3>1, <3>2
    <3> QED
      BY <3>4, <3>5, <3>6
  <2> QED
    BY <2>1, <2>2, <2>3
<1> QED
  BY <1>1 DEF ValidInv, PartsInv, PlannedInv, EndsInv, WrittenInv, MadeInv, ConfigInv, BuiltInv,
       ServicesInv, KeysInv

\* What leaves a part of the image as it is.
LEMMA PartsKept ==
    /\ plan' = plan /\ modules \subseteq modules' /\ Planned => Planned'
    /\ UNCHANGED <<boot, plan, lib, platform>> /\ KernelDone => KernelDone'
    /\ UNCHANGED <<initrd, plan>> /\ ("binaries" \in files' => "binaries" \in files)
          /\ InitrdDone => InitrdDone'
BY Zenon DEF Planned, KernelDone, Target, KernelMade, InitrdDone

\* The chooser answers the error on an empty listing, and only there.
LEMMA ChosenOnlyOf ==
    ASSUME NEW dirs \in SUBSET Name, NEW rpi
    PROVE  /\ dirs = {} => GetLatest(dirs, {}, rpi) = {NoKernel}
           /\ dirs # {} => NoKernel \notin GetLatest(dirs, {}, FALSE)
<1>1. dirs = {} => GetLatest(dirs, {}, rpi) = {NoKernel}
  BY DEF GetLatest, LatestGeneral, Parsed
<1>2. ASSUME dirs # {} PROVE NoKernel \notin GetLatest(dirs, {}, FALSE)
  BY <1>2, NameAssumption, VersionAssumption
     DEF GetLatest, LatestGeneral, Parsed, Highest, LexicalFirst
<1> QED
  BY <1>1, <1>2

\* The plan names a kernel of the listing it was made from.
LEMMA PlanMade ==
    ASSUME TInv, Wanted, PlanInit
    PROVE  PartsInv'
<1>1. pc' \in {"failed", "beforeInit"} /\ modules' = modules
  BY DEF PlanInit, Goto, ContainsSkipStep, Wanted, image
<1>2. ASSUME pc' = "beforeInit" PROVE Planned'
  <2>1. PICK k \in GetLatest(modules, {}, cmd.rpi) : plan' = k /\ k # NoKernel
    BY <1>2 DEF PlanInit, Goto, ContainsSkipStep, Wanted
  <2>2. modules \in SUBSET Name
    BY DEF TInv, TypeOK
  <2>3. k \in Name
    BY <2>1, <2>2, GetLatestType
  <2>4. modules = {} => GetLatest(modules, {}, cmd.rpi) = {NoKernel}
    BY <2>2, ChosenOnlyOf, Zenon
  <2>5. modules # {}
    BY <2>1, <2>4
  <2> QED
    BY <1>1, <2>1, <2>3, <2>5 DEF Planned
<1> QED
  BY <1>1, <1>2 DEF PartsInv, PlannedInv, EndsInv, WrittenInv, MadeInv, ConfigInv, BuiltInv,
       ServicesInv, KeysInv

\* Without extensions, the places where they would run only look at the error.
LEMMA NoExtensions ==
    ASSUME TInv, Wanted, NEW here, NEW next, Extensions(here, next), UNCHANGED platform
    PROVE  /\ pc = here /\ (pc' = "failed" \/ (~err /\ pc' = next)) /\ ~err'
           /\ UNCHANGED <<cmd, plan, image>>
<1>1. Finish(next, err) /\ UNCHANGED kernels
  BY Zenon DEF Extensions, Wanted
<1>2. pc' = IF err THEN "failed" ELSE next
  BY <1>1 DEF Finish, Goto
<1>3. ~err'
  BY <1>1 DEF Finish
<1> QED
  BY <1>1, <1>2, <1>3 DEF Extensions, kernels, image

LEMMA PlacesPassed ==
    ASSUME TInv, Wanted, PartsInv, BeforeInit \/ EndInit \/ AfterInit, UNCHANGED platform
    PROVE  PartsInv'
<1>1. PICK here \in {"beforeInit", "endInit", "afterInit"} :
         /\ pc = here /\ ~err'
         /\ \/ pc' = "failed"
            \/ ~err /\ here = "beforeInit" /\ pc' = "kairosRelease"
            \/ ~err /\ here = "endInit" /\ pc' = "afterInit"
            \/ ~err /\ here = "afterInit" /\ pc' = "report"
         /\ UNCHANGED <<cmd, plan, image>>
  BY NoExtensions DEF BeforeInit, EndInit, AfterInit
<1>2. (Planned => Planned') /\ (KernelDone => KernelDone') /\ (InitrdDone => InitrdDone')
  BY <1>1, PartsKept DEF image
<1>3. UNCHANGED <<cmd, files, release, hostKeys>>
  BY <1>1 DEF image
<1> QED
  BY <1>1, <1>2, <1>3 DEF PartsInv, PlannedInv, EndsInv, WrittenInv, MadeInv, ConfigInv,
       BuiltInv, ServicesInv, KeysInv

\* A kernel step that did not fail makes the link, and the steps after it leave it.
LEMMA LinkMade ==
    ASSUME TInv, BootInv, LinksInv, Kernel, At("kernel"), UNCHANGED platform, ~err'
    PROVE  KernelDone'
<1>1. Solid(boot) /\ OldSolid(boot)
  BY DEF BootInv, LinksInv, OldSolid
<1>2. plan \in Name /\ platform.host \in Host
  BY BuildAssumption DEF TInv, TypeOK, PlanInv, At, Platform
<1>3. lib' = lib /\ plan' = plan
  BY Zenon DEF Kernel, Skip, At
<1>4. PICK st \in Running, r \in Running :
        /\ r = KernelStage(st, plan, lib, platform.host)
        /\ st.boot = boot /\ boot' = r.boot /\ NoError(r)
  BY KernelTaken
<1>5. KernelMade(boot', plan, lib, platform.host) /\ Target(boot')
  BY <1>1, <1>2, <1>4, KernelStageMakes
<1> QED
  BY <1>3, <1>5 DEF KernelDone, Target, KernelMade

\* Every step of the executor run of the init stage makes its part or keeps it.
LEMMA StepsMake ==
    ASSUME TInv, BootInv, LinksInv, Wanted, PartsInv, KairosRelease \/ Along, UNCHANGED platform
    PROVE  PartsInv'
<1> USE DEF Then, Goto, Skip, At, Wanted, ContainsSkipStep, image, kernels
<1>1. (err => err') /\ UNCHANGED <<cmd, plan>> /\ modules \subseteq modules'
  <2>1. CASE KairosRelease
    BY <2>1, Zenon DEF KairosRelease
  <2>2. CASE Along
    <3>1. modules \subseteq modules'
      BY <2>2 DEF Along, Kernel, InitramfsConfigs, GenerateInitrd, Services, SshHardening,
           Workarounds, Cleanup
    <3> QED
      BY <2>2, <3>1, AlongStep
  <2> QED
    BY <2>1, <2>2
<1>2. Planned => Planned'
  BY <1>1, PartsKept
<1>3. CASE KairosRelease
  <2>1. pc = "kairosRelease" /\ pc' = "kernel"
    BY <1>3 DEF KairosRelease
  <2>2. "kairosRelease" \notin cmd.skip
    OBVIOUS
  <2>3. err' \/ release' = Described
    BY <1>3, <2>2, Zenon DEF KairosRelease, Described
  <2>4. Described.present
    BY DEF Described
  <2>5. WrittenInv'
    BY <2>3, <2>4, Zenon DEF WrittenInv
  <2>6. PlannedInv'
    BY <1>2, <2>1 DEF PartsInv, PlannedInv
  <2> QED
    BY <2>1, <2>5, <2>6 DEF PartsInv, EndsInv, MadeInv, ConfigInv, BuiltInv, ServicesInv, KeysInv
<1>4. CASE Kernel
  <2>1. pc = "kernel" /\ pc' = "initramfsConfigs" /\ At("kernel") /\ release' = release
    BY <1>4 DEF Kernel
  <2>2. MadeInv'
    BY <1>4, <2>1, LinkMade, Zenon DEF MadeInv
  <2>3. WrittenInv'
    BY <1>1, <2>1, Zenon DEF PartsInv, WrittenInv
  <2>4. PlannedInv'
    BY <1>2, <2>1 DEF PartsInv, PlannedInv
  <2> QED
    BY <2>1, <2>2, <2>3, <2>4 DEF PartsInv, EndsInv, ConfigInv, BuiltInv, ServicesInv, KeysInv
<1>5. CASE Along /\ ~Kernel
  <2>1. UNCHANGED <<boot, lib>> /\ release' = release
    BY <1>5 DEF Along, InitramfsConfigs, GenerateInitrd, Services, SshHardening, Workarounds, Cleanup
  <2>2. KernelDone => KernelDone'
    BY <1>1, <2>1, PartsKept
  <2>4. \/ InitramfsConfigs /\ At("initramfsConfigs") /\ pc' = "initrd"
        \/ GenerateInitrd /\ At("initrd") /\ pc' = "services" /\ files' = files
        \/ Services /\ At("services") /\ pc' = "sshHardening" /\ initrd' = initrd
        \/ /\ SshHardening /\ pc = "sshHardening" /\ pc' = "workarounds"
           /\ UNCHANGED <<files, initrd>>
        \/ /\ Workarounds /\ pc = "workarounds" /\ pc' = "cleanup"
           /\ UNCHANGED <<files, initrd>>
        \/ Cleanup /\ At("cleanup") /\ pc' = "endInit" /\ UNCHANGED <<files, initrd>>
    <3>1. {"initramfsConfigs", "initrd", "services", "cleanup"} \intersect cmd.skip = {}
      OBVIOUS
    <3>2. InitramfsConfigs => At("initramfsConfigs") /\ pc' = "initrd"
      BY <3>1 DEF InitramfsConfigs
    <3>3. GenerateInitrd => At("initrd") /\ pc' = "services" /\ files' = files
      BY <3>1 DEF GenerateInitrd
    <3>4. Services => At("services") /\ pc' = "sshHardening" /\ initrd' = initrd
      BY <3>1 DEF Services
    <3>5. SshHardening => pc = "sshHardening" /\ pc' = "workarounds" /\ UNCHANGED <<files, initrd>>
      BY DEF SshHardening
    <3>6. Workarounds => pc = "workarounds" /\ pc' = "cleanup" /\ UNCHANGED <<files, initrd>>
      BY DEF Workarounds
    <3>7. Cleanup => At("cleanup") /\ pc' = "endInit" /\ UNCHANGED <<files, initrd>>
      BY <3>1 DEF Cleanup
    <3> HIDE DEF Then, Goto, Skip, At, Wanted, ContainsSkipStep, image, kernels
    <3> QED
      BY <1>5, <3>2, <3>3, <3>4, <3>5, <3>6, <3>7, Zenon DEF Along
  <2> HIDE DEF Then, Goto, Skip, At, Wanted, ContainsSkipStep, image, kernels
  <2>a. pc \in SinceKernel \ Ends /\ pc' \in SinceConfigs \ Ends
    BY <2>4 DEF At
  <2>5. PlannedInv' /\ EndsInv' /\ MadeInv'
    BY <1>1, <1>2, <2>2, <2>a DEF PartsInv, PlannedInv, EndsInv, MadeInv
  <2>6. WrittenInv'
    <3>1. pc \in SinceRelease
      BY <2>a
    <3> QED
      BY <1>1, <2>1, <3>1, Zenon DEF PartsInv, WrittenInv
  <2>7. ConfigInv'
    <3>1. CASE pc = "initramfsConfigs"
      <4>1. InitramfsConfigs /\ At("initramfsConfigs")
        BY <2>4, <3>1 DEF At
      <4>2. cmd.trusted \/ err' \/ files' = files \union {"initramfs"}
        BY <4>1, Zenon DEF InitramfsConfigs, Then, At, Skip
      <4> QED
        BY <1>1, <4>2 DEF ConfigInv
    <3>2. CASE pc # "initramfsConfigs"
      <4>1. pc \in SinceConfigs
        BY <2>4, <3>2 DEF At
      <4>2. files \subseteq files'
        <5>1. Services => files \subseteq files'
          BY DEF Services, At, Skip, image
        <5> QED
          BY <2>4, <3>2, <5>1 DEF At
      <4> QED
        BY <1>1, <4>1, <4>2 DEF PartsInv, ConfigInv
    <3> QED
      BY <3>1, <3>2
  <2>8. BuiltInv'
    <3>1. CASE pc = "initrd"
      <4>1. GenerateInitrd /\ At("initrd") /\ files' = files /\ pc \in SinceConfigs
        BY <2>4, <3>1 DEF At
      <4>2. cmd.trusted \/ err' \/ initrd' = Rebuilt
        BY <4>1, Zenon DEF GenerateInitrd, Then, At, Skip
      <4>3. cmd.trusted \/ err' \/ "initramfs" \in files
        BY <1>1, <4>1 DEF PartsInv, ConfigInv
      <4>4. Rebuilt.kernel = plan /\ ("binaries" \in files /\ "initramfs" \in files => Rebuilt.kairos)
        BY DEF Rebuilt
      <4>5. cmd.trusted \/ err' \/ InitrdDone'
        BY <1>1, <4>1, <4>2, <4>3, <4>4, Zenon DEF InitrdDone
      <4> QED
        BY <1>1, <4>5 DEF BuiltInv
    <3>2. CASE pc' \in SinceInitrd /\ pc # "initrd"
      <4>1. pc \in SinceInitrd /\ initrd' = initrd
        BY <2>4, <3>2 DEF At
      <4>2. "binaries" \in files' => "binaries" \in files
        <5>1. Services => files' \in {files, files \union {"services"}}
          BY DEF Services, At, Skip, image
        <5> QED
          BY <2>4, <3>2, <5>1 DEF At
      <4>3. InitrdDone => InitrdDone'
        BY <1>1, <4>1, <4>2, PartsKept
      <4> QED
        BY <1>1, <4>1, <4>3 DEF PartsInv, BuiltInv
    <3> QED
      BY <3>1, <3>2 DEF BuiltInv
  <2>9. ServicesInv'
    <3>1. CASE pc = "services"
      <4>1. Services /\ At("services")
        BY <2>4, <3>1 DEF At
      <4>2. err' \/ files' = files \union {"services"}
        BY <4>1, Zenon DEF Services, Then, At, Skip
      <4> QED
        BY <4>2 DEF ServicesInv
    <3>2. CASE pc' \in SinceServices /\ pc # "services"
      <4>1. pc \in SinceServices /\ files' = files
        BY <2>4, <3>2 DEF At
      <4> QED
        BY <1>1, <4>1 DEF PartsInv, ServicesInv
    <3> QED
      BY <3>1, <3>2 DEF ServicesInv
  <2>10. KeysInv'
    <3>1. CASE pc = "cleanup"
      <4>1. Cleanup /\ At("cleanup")
        BY <2>4, <3>1 DEF At
      <4>2. err' \/ ~hostKeys'
        BY <4>1, Zenon DEF Cleanup, Then, At, Skip
      <4> QED
        BY <4>2 DEF KeysInv
    <3>2. CASE pc # "cleanup"
      BY <2>4, <3>2 DEF At, KeysInv
    <3> QED
      BY <3>1, <3>2
  <2> QED
    BY <2>5, <2>6, <2>7, <2>8, <2>9, <2>10 DEF PartsInv
<1> QED
  BY <1>3, <1>4, <1>5

\* Either the run is not followed, or a step makes its part.
LEMMA ValidStep == TInv /\ BootInv /\ LinksInv /\ ValidInv /\ [Next]_vars => ValidInv'
<1> SUFFICES ASSUME TInv, BootInv, LinksInv, ValidInv, [Next]_vars PROVE ValidInv'
  OBVIOUS
<1>1. CASE UNCHANGED vars
  BY <1>1, Zenon DEF vars, control, image, ValidInv, Wanted, PartsInv, PlannedInv, EndsInv,
     WrittenInv, MadeInv, ConfigInv, BuiltInv, ServicesInv, KeysInv, Planned, KernelDone, Target,
     KernelMade, InitrdDone
<1>2. CASE Layer \/ Run \/ InstallStage \/ Exit
  BY <1>2, BeforePlan
<1>3. CASE InitStage /\ UNCHANGED platform
  <2>1. cmd' = cmd
    BY <1>3 DEF InitStage, PlanInit, BeforeInit, EndInit, AfterInit, KairosRelease, Kernel,
         InitramfsConfigs, GenerateInitrd, Services, SshHardening, Workarounds, Cleanup,
         Extensions, Skip, At
  <2>2. pc' \notin InstallPc
    BY <1>3 DEF InitStage, PlanInit, BeforeInit, EndInit, AfterInit, KairosRelease, Kernel,
         InitramfsConfigs, GenerateInitrd, Services, SshHardening, Workarounds, Cleanup,
         Extensions, Skip, Then, Finish, Goto, InstallPc
  <2>3. Wanted' => Wanted /\ PartsInv
    BY <2>1 DEF Wanted, ValidInv
  <2>4. Wanted => PartsInv'
    <3>1. SUFFICES ASSUME Wanted PROVE PartsInv'
      OBVIOUS
    <3>2. PartsInv
      BY <3>1 DEF ValidInv
    <3>3. CASE PlanInit
      BY <3>1, <3>3, PlanMade
    <3>4. CASE BeforeInit \/ EndInit \/ AfterInit
      BY <1>3, <3>1, <3>2, <3>4, PlacesPassed
    <3>5. CASE KairosRelease \/ Along
      BY <1>3, <3>1, <3>2, <3>5, StepsMake
    <3> QED
      BY <1>3, <3>3, <3>4, <3>5, Zenon DEF InitStage, Along
  <2> QED
    BY <2>2, <2>3, <2>4 DEF ValidInv
<1> QED
  BY <1>1, <1>2, <1>3, Zenon DEF Next

\* The image Hadron comes with gets no other kernel: its packages bring no file, and
\* the kernel step finds none.
LEMMA BaseStep ==
    TInv /\ BootInv /\ LinksInv /\ BaseInv /\ [Next]_vars => BaseInv'
<1> SUFFICES ASSUME TInv, BootInv, LinksInv, BaseInv, [Next]_vars PROVE BaseInv'
  OBVIOUS
<1>0. TypeOK /\ Solid(boot) /\ OldSolid(boot)
  BY DEF TInv, BootInv, LinksInv, OldSolid
<1>1. platform' = platform
  BY DEF Next, vars
<1>2. SUFFICES ASSUME Prebuilt
               PROVE  /\ boot'[Vmlinuz] = Regular /\ lib' = {}
                      /\ \A p \in SolidPath : boot'[p] # Regular
  BY <1>1 DEF BaseInv, Prebuilt
<1>3. boot[Vmlinuz] = Regular /\ lib = {} /\ \A p \in SolidPath : boot[p] # Regular
  BY <1>2 DEF BaseInv
<1>4. CASE Kernel /\ At("kernel")
  <2>1. plan \in Name /\ lib' = lib
    BY <1>4, Zenon DEF TInv, PlanInv, Kernel, Skip, At
  <2>2. PICK st \in Running, r \in Running :
          /\ r = KernelStage(st, plan, {}, platform.host)
          /\ st.boot = boot /\ boot' = r.boot
    BY <1>3, <1>4, KernelTaken
  <2>3. st \in Bare
    BY <1>0, <1>3, <2>2 DEF Bare, Solid
  <2>4. r \in Bare
    BY <2>1, <2>2, <2>3, KernelStageKeeps
  <2> QED
    BY <1>3, <2>1, <2>2, <2>4 DEF Bare
<1>5. CASE Kernel /\ Skip("kernel", "initramfsConfigs")
  BY <1>3, <1>5 DEF Skip, image
<1>6. CASE ~Kernel
  <2>1. \A n \in Released : Payload(n) = {}
    BY <1>2 DEF Prebuilt, Payload
  <2>2. Vmlinuz \in Path /\ SolidPath \subseteq Path
    BY SolidFacts
  <2>3. ASSUME NEW n \in Released, AddKernel(n) \/ PurgeKernel(n)
        PROVE  lib' = {} /\ \A p \in Path : boot'[p] = boot[p]
    BY <1>2, <1>3, <2>1, <2>3 DEF AddKernel, PurgeKernel, Relink, Prebuilt
  <2>4. \/ UNCHANGED <<boot, lib>>
        \/ \E n \in Released : AddKernel(n) \/ PurgeKernel(n)
    BY <1>6, KernelsChange DEF TouchKernels
  <2> QED
    BY <1>3, <2>2, <2>3, <2>4
<1> QED
  BY <1>4, <1>5, <1>6 DEF Kernel

\* With a kernel file left, the link is made.
LEMMA VmlinuzIsFound ==
    ASSUME TInv, LinksInv, BaseInv, Planned, KernelDone, KernelLeft(plan)
    PROVE  VmlinuzFound
<1>1. boot[Vmlinuz] # Absent
  <2>1. CASE Prebuilt
    BY <2>1, SolidFacts DEF BaseInv
  <2>2. CASE plan \in lib
    BY <2>2, PackagingAssumption DEF LinksInv, BaseInv, KernelDone, KernelMade
  <2>3. ASSUME NEW p \in Payload(plan) \ {<<"hmac", plan>>}, boot[p] = Regular
        PROVE  boot[Vmlinuz] # Absent
    <3>1. p \in Linkable(plan) \union {<<"vmlinux", plan>>}
      BY <2>3 DEF Payload, Linkable
    <3> QED
      BY <2>3, <3>1 DEF KernelDone, KernelMade
  <2> QED
    BY <2>1, <2>2, <2>3 DEF KernelLeft
<1>2. IsLink(boot, Vmlinuz) => IsFile(boot, Vmlinuz)
  BY DEF KernelDone, Target, IsLink, IsFile
<1> QED
  BY <1>1, <1>2 DEF VmlinuzFound, Vmlinuz

\* An init stage that ends well on an image with its packages and binaries makes an
\* image the validator passes: at the report every part it looks for is there.
THEOREM GoodBuildIsValid == Spec => []GoodBuildValidates
<1>1. Init => BaseInv /\ ValidInv
  <2>1. Vmlinuz \in Path /\ Regular # Absent /\ SolidPath \subseteq Path
        /\ Vmlinuz \notin SolidPath
    BY SolidFacts
  <2>3. Init => BaseInv
    BY <2>1 DEF Init, BaseInv, Vmlinuz
  <2>4. Init => ValidInv
    BY DEF Init, ValidInv, PartsInv, PlannedInv, EndsInv, WrittenInv, MadeInv, ConfigInv,
       BuiltInv, ServicesInv, KeysInv, InstallPc
  <2> QED
    BY <2>3, <2>4
<1>2. TInv /\ LinksInv /\ BaseInv /\ ValidInv => GoodBuildValidates
  <2> SUFFICES ASSUME TInv, LinksInv, BaseInv, ValidInv,
                      Complete, ~cmd.extensions, KernelLeft(plan),
                      platform.masked => platform.host.rhel
               PROVE  Validate(cmd.trusted)
    BY DEF GoodBuildValidates
  <2>1. PartsInv /\ pc = "report"
    BY DEF Complete, Wanted, ValidInv
  <2>2. ~err
    BY <2>1 DEF PartsInv, EndsInv
  <2>3. Planned /\ KernelDone /\ release.present /\ "services" \in files /\ ~hostKeys
    BY <2>1, <2>2 DEF PartsInv, PlannedInv, MadeInv, WrittenInv, ServicesInv, KeysInv
  <2>4. BinariesFound /\ ValidateRHELServices /\ ValidateGettyServices
    <3>1. BinariesFound
      BY DEF Complete, BinariesFound
    <3>2. UnitsUnmasked
      BY <2>3 DEF UnitsUnmasked
    <3>3. UnitsFound
      BY DEF Complete, UnitsFound
    <3> QED
      BY <3>1, <3>2, <3>3, Zenon DEF ValidateRHELServices, ValidateGettyServices
  <2>5. VmlinuzFound
    BY <2>3, VmlinuzIsFound
  <2>6. cmd.trusted \/ (InitrdFound /\ InitrdWhole)
    <3>1. cmd.trusted \/ InitrdDone
      BY <2>1, <2>2 DEF PartsInv, BuiltInv
    <3>2. InitrdDone => initrd # NoInitrd /\ initrd.kairos
      BY <2>3, NameAssumption DEF Planned, InitrdDone, NoInitrd, Complete
    <3> QED
      BY <3>1, <3>2, Zenon DEF InitrdFound, InitrdWhole
  <2>7. KernelFound
    <3>1. modules \in SUBSET Name /\ modules # {}
      BY <2>3 DEF TInv, TypeOK, Planned
    <3>2. NoKernel \notin GetLatest(modules, {}, FALSE)
      BY <3>1, ChosenOnlyOf
    <3> QED
      BY <3>2 DEF KernelFound
  <2> QED
    BY <2>3, <2>4, <2>5, <2>6, <2>7, Zenon DEF Validate
<1> QED
  BY <1>1, <1>2, BootInvariant, BaseStep, ValidStep, PTL DEF Spec
=============================================================================
