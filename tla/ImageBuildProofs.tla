-------------------------- MODULE ImageBuildProofs --------------------------
(***************************************************************************)
(* Results about the build pipeline for every set of command lines, base   *)
(* images and kernels, and any number of runs and layers.                  *)
(***************************************************************************)
EXTENDS ImageBuild, BootLinksProofs

Pc == InstallPc \union InitPc \union {"idle", "failed", "report"}

\* The chooser returns a name or the error.
LEMMA GetLatestType ==
    ASSUME NEW dirs \in SUBSET Name, NEW rpi, NEW k \in GetLatest(dirs, {}, rpi)
    PROVE  k \in Name \union {NoKernel}
<1>1. ASSUME NEW S \in SUBSET Name, NEW n \in Highest(Parsed(S)) PROVE Canon[n] \in Name
  BY VersionAssumption, <1>1 DEF Highest, Parsed
<1>2. ASSUME NEW S \in SUBSET Name PROVE LexicalFirst(S) \subseteq Name /\ LexicalLast(S) \subseteq Name
  BY DEF LexicalFirst, LexicalLast
<1>3. ASSUME NEW S \in SUBSET Name PROVE LatestRaspi(S) \subseteq Name \union {NoKernel}
  BY <1>1, <1>2 DEF LatestRaspi
<1>4. LatestGeneral(dirs, {}) \subseteq Name \union {NoKernel}
  <2>1. dirs \union {} \in SUBSET Name
    OBVIOUS
  <2> QED
    BY <1>1, <1>2, <2>1 DEF LatestGeneral
<1>5. dirs \intersect Raspi \in SUBSET Name
  OBVIOUS
<1> QED
  BY <1>3, <1>4, <1>5 DEF GetLatest

\* A kernel payload is a set of paths, and Ubuntu's links keep the type of /boot.
LEMMA AddKernelType ==
    ASSUME TypeOK, NEW n \in Released, AddKernel(n)
    PROVE  modules' \subseteq Name /\ lib' \subseteq Name /\ boot' \in BootDir
<1> USE BuildAssumption DEF TypeOK
<1>1. modules' \subseteq Name /\ lib' \subseteq Name
  BY DEF AddKernel
<1> DEFINE b == [p \in Path |-> IF p \in Payload(n) THEN Regular ELSE boot[p]]
<1>2. b \in BootDir
  BY DEF BootDir
<1>3. <<"vmlinuz">> \in Path /\ <<"vmlinuz.old">> \in Path /\ <<"vmlinuz", n>> \in Path
  BY PathFacts DEF Plain
<1>4. Relink(b, n) \in BootDir
  <2> HIDE DEF b
  <2> QED
    BY <1>2, <1>3 DEF Relink, BootDir
<1>5. boot' = Relink(b, n)
  BY DEF AddKernel
<1> QED
  BY <1>1, <1>4, <1>5

\* Removing a kernel package leaves its links dangling, and keeps the types.
LEMMA PurgeKernelType ==
    ASSUME TypeOK, NEW n \in Released, PurgeKernel(n)
    PROVE  modules' \subseteq Name /\ lib' \subseteq Name /\ boot' \in BootDir
<1>1. boot' \in BootDir
  BY DEF TypeOK, PurgeKernel, BootDir
<1> QED
  BY <1>1 DEF TypeOK, PurgeKernel

\* What an extension or a layer does to the kernels keeps the types.
LEMMA TouchKernelsType ==
    ASSUME TypeOK, TouchKernels
    PROVE  /\ layers' \in 0..MaxLayers
           /\ modules' \subseteq Name /\ lib' \subseteq Name /\ boot' \in BootDir
<1>1. layers' \in 0..MaxLayers
  BY BuildAssumption DEF TypeOK, TouchKernels
<1> QED
  BY <1>1, AddKernelType, PurgeKernelType DEF TouchKernels

-----------------------------------------------------------------------------
(* Type correctness.  The kernel step runs KernelStage on the planned      *)
(* kernel, so it needs that a plan with a kernel step names one.           *)

PlanInv == pc \in {"beforeInit", "kairosRelease", "kernel"} /\ ~ContainsSkipStep("kernel")
              => plan \in Name

TInv == TypeOK /\ PlanInv

\* A base image is in its types and no plan is made yet.
LEMMA InitType == Init => TInv
<1> SUFFICES ASSUME Init PROVE TInv
  OBVIOUS
<1> USE BuildAssumption DEF Init
<1>1. boot \in BootDir
  BY DEF BootDir
<1>2. modules \subseteq Name
  OBVIOUS
<1>3. initrd \in Initrd /\ release \in Release
  BY DEF Initrd, NoInitrd, Release, NoRelease
<1>4. pc \in Pc /\ cmd \in Command /\ plan \in Name \union {NoKernel}
  BY DEF Pc
<1>5. runs \in 0..MaxRuns /\ layers \in 0..MaxLayers
  OBVIOUS
<1>6. platform \in Platform /\ err \in BOOLEAN /\ exit \in {"none", "ok", "fail"}
  OBVIOUS
<1>7. lists \in BOOLEAN /\ hostKeys \in BOOLEAN /\ files \subseteq Parts /\ nvdimm \subseteq Name /\ lib \subseteq Name
  OBVIOUS
<1>8. TypeOK
  BY <1>1, <1>2, <1>3, <1>4, <1>5, <1>6, <1>7 DEF TypeOK, Pc
<1> QED
  BY <1>8 DEF TInv, PlanInv

\* The extensions run at four places and keep the types at each.
LEMMA ExtensionsType ==
    ASSUME TypeOK, NEW here, NEW next \in Pc, Extensions(here, next), UNCHANGED platform
    PROVE  TypeOK'
<1>1. pc' \in Pc /\ err' \in BOOLEAN
  BY DEF Extensions, Finish, Goto, Pc
<1>2. layers' \in 0..MaxLayers /\ modules' \subseteq Name /\ lib' \subseteq Name /\ boot' \in BootDir
  BY TouchKernelsType DEF Extensions, kernels, TypeOK
<1> QED
  BY <1>1, <1>2 DEF TypeOK, Extensions, Pc

\* The kernel step starts from /boot and the error of the steps before.
Begun(broken) == [boot |-> boot, err |-> err, broken |-> broken]

LEMMA BegunFacts ==
    ASSUME TypeOK, NEW broken \in Faults
    PROVE  /\ Begun(broken) \in Running /\ Begun(broken).boot = boot
           /\ Begun(broken).err = err
<1>1. broken \in SUBSET Fault
  BY BuildAssumption
<1> QED
  BY <1>1 DEF Begun, Running, TypeOK

\* Every step of the install stage keeps the types.
LEMMA InstallType ==
    ASSUME TInv, InstallStage, UNCHANGED platform
    PROVE  TypeOK'
<1> USE DEF TInv
<1>0. TypeOK
  OBVIOUS
<1> USE DEF Goto, Then, Finish, Skip, At, image, kernels, Pc, AfterInstallStage, InstallPc, InitPc
<1>1. CASE PlanInstall
  BY <1>0, <1>1 DEF PlanInstall, TypeOK
<1>2. CASE BeforeInstall
  BY <1>0, <1>2, ExtensionsType DEF BeforeInstall
<1>3. CASE InstallPackages
  BY <1>0, <1>3 DEF InstallPackages, TypeOK, Parts
<1>4. CASE InstallKernel
  <2>1. modules' \subseteq Name /\ lib' \subseteq Name /\ boot' \in BootDir
    BY <1>0, <1>4, AddKernelType DEF InstallKernel, TypeOK
  <2> QED
    BY <1>0, <1>4, <2>1 DEF InstallKernel, TypeOK
<1>5. CASE InstallFiles
  BY <1>0, <1>5 DEF InstallFiles, TypeOK
<1>6. CASE EndInstall
  BY <1>0, <1>6, ExtensionsType DEF EndInstall
<1>7. CASE AfterInstall
  BY <1>0, <1>7, ExtensionsType DEF AfterInstall
<1>8. CASE CloudConfigs
  BY <1>0, <1>8 DEF CloudConfigs, TypeOK, Parts
<1>9. CASE KairosBinaries
  BY <1>0, <1>9 DEF KairosBinaries, TypeOK, Parts
<1>10. CASE ProviderBinaries
  BY <1>0, <1>10 DEF ProviderBinaries, TypeOK, Parts
<1>11. CASE BuildProvider
  BY <1>0, <1>11 DEF BuildProvider, TypeOK
<1> QED
  BY <1>1, <1>2, <1>3, <1>4, <1>5, <1>6, <1>7, <1>8, <1>9, <1>10, <1>11 DEF InstallStage

\* Every step of the init stage keeps the types; the kernel step has a kernel.
LEMMA InitStageType ==
    ASSUME TInv, InitStage, UNCHANGED platform
    PROVE  TypeOK'
<1> USE DEF TInv
<1>0. TypeOK
  OBVIOUS
<1> USE DEF Goto, Then, Finish, Skip, At, image, kernels, Pc, InstallPc, InitPc
<1>1. CASE PlanInit
  <2>1. plan' \in Name \union {NoKernel}
    BY <1>0, <1>1, GetLatestType DEF PlanInit, TypeOK
  <2> QED
    BY <1>0, <1>1, <2>1 DEF PlanInit, TypeOK
<1>2. CASE BeforeInit
  BY <1>0, <1>2, ExtensionsType DEF BeforeInit
<1>3. CASE KairosRelease
  <2>1. cmd.trusted \in BOOLEAN /\ cmd.standard \in BOOLEAN
    BY <1>0 DEF TypeOK, Command
  <2>2. [present |-> TRUE, trusted |-> cmd.trusted, standard |-> cmd.standard] \in Release
    BY <2>1, Zenon DEF Release
  <2>3. release \in Release
    BY <1>0 DEF TypeOK
  <2>4. \/ release' = release
        \/ release' = [present |-> TRUE, trusted |-> cmd.trusted, standard |-> cmd.standard]
    BY <1>3 DEF KairosRelease
  <2>5. release' \in Release
    BY <2>2, <2>3, <2>4
  <2> QED
    BY <1>0, <1>3, <2>5 DEF KairosRelease, TypeOK
<1>4. CASE Kernel
  <2>1. CASE Skip("kernel", "initramfsConfigs")
    BY <1>0, <2>1 DEF TypeOK
  <2>2. CASE At("kernel")
    <3>1. PICK broken \in Faults :
             LET st == KernelStage(Begun(broken), plan, lib, platform.host)
             IN  boot' = st.boot /\ Then("initramfsConfigs", st.err)
      BY <1>4, <2>2 DEF Kernel, Begun
    <3> DEFINE st == KernelStage(Begun(broken), plan, lib, platform.host)
    <3>2. Begun(broken) \in Running /\ plan \in Name
      BY <1>0, <2>2, BegunFacts DEF PlanInv
    <3>3. st \in Running
      BY <3>2, KernelStageType
    <3>4. boot' \in BootDir /\ err' \in BOOLEAN
      BY <1>0, <3>1, <3>3 DEF Running, TypeOK
    <3> QED
      BY <1>0, <1>4, <2>2, <3>4 DEF Kernel, TypeOK
  <2> QED
    BY <1>4, <2>1, <2>2 DEF Kernel
<1>5. CASE InitramfsConfigs
  BY <1>0, <1>5 DEF InitramfsConfigs, TypeOK, Parts
<1>6. CASE GenerateInitrd
  <2>1. plan \in Name \union {NoKernel} /\ initrd \in Initrd
    BY <1>0 DEF TypeOK
  <2>2. ({"binaries", "initramfs"} \subseteq files) \in BOOLEAN /\ FALSE \in BOOLEAN
    OBVIOUS
  <2>3. Rebuilt \in Initrd /\ NoInitrd \in Initrd
    BY <2>1, <2>2, Zenon DEF Rebuilt, NoInitrd, Initrd
  <2>4. initrd' = initrd \/ initrd' = Rebuilt \/ initrd' = NoInitrd
    BY <1>6 DEF GenerateInitrd
  <2>5. initrd' \in Initrd
    BY <2>1, <2>3, <2>4
  <2> QED
    BY <1>0, <1>6, <2>5 DEF GenerateInitrd, TypeOK
<1>7. CASE Services
  BY <1>0, <1>7 DEF Services, TypeOK, Parts
<1>8. CASE SshHardening
  BY <1>0, <1>8 DEF SshHardening, TypeOK
<1>9. CASE Workarounds
  <2>1. modules' \subseteq Name /\ nvdimm' \subseteq Name
    BY <1>0, <1>9, BuildAssumption DEF Workarounds, TypeOK
  <2> QED
    BY <1>0, <1>9, <2>1 DEF Workarounds, TypeOK
<1>10. CASE Cleanup
  BY <1>0, <1>10 DEF Cleanup, TypeOK
<1>11. CASE EndInit
  BY <1>0, <1>11, ExtensionsType DEF EndInit
<1>12. CASE AfterInit
  BY <1>0, <1>12, ExtensionsType DEF AfterInit
<1> QED
  BY <1>1, <1>2, <1>3, <1>4, <1>5, <1>6, <1>7, <1>8, <1>9, <1>10, <1>11, <1>12 DEF InitStage

\* A plan with a kernel step names a kernel, in every step up to that one.
LEMMA PlanStep == TInv /\ [Next]_vars => PlanInv'
<1> SUFFICES ASSUME TInv, [Next]_vars PROVE PlanInv'
  OBVIOUS
<1> USE DEF TInv, Goto, Then, Finish, Skip, At, AfterInstallStage, ContainsSkipStep
<1>1. CASE pc = "planInit"
  <2>1. CASE PlanInit
    <3>1. modules \in SUBSET Name
      BY DEF TypeOK
    <3>2. CASE pc' = "beforeInit" /\ ~ContainsSkipStep("kernel")
      <4>1. PICK k \in GetLatest(modules, {}, cmd.rpi) : plan' = k /\ k # NoKernel
        BY <2>1, <3>2 DEF PlanInit
      <4>2. plan' \in Name
        BY <3>1, <4>1, GetLatestType
      <4> QED
        BY <4>2 DEF PlanInv
    <3>3. CASE pc' # "beforeInit"
      BY <2>1, <3>3 DEF PlanInit, PlanInv
    <3>4. CASE ContainsSkipStep("kernel")
      BY <2>1, <3>4 DEF PlanInit, PlanInv
    <3> QED
      BY <3>2, <3>3, <3>4
  <2>2. CASE UNCHANGED vars
    BY <2>2 DEF vars, control, PlanInv
  <2> QED
    BY <1>1, <2>1, <2>2 DEF Next, Layer, Run, Exit, InstallStage, PlanInstall, BeforeInstall,
         InstallPackages, InstallKernel, InstallFiles, EndInstall, AfterInstall, CloudConfigs,
         KairosBinaries, ProviderBinaries, BuildProvider, InitStage, BeforeInit, KairosRelease,
         Kernel, InitramfsConfigs, GenerateInitrd, Services, SshHardening, Workarounds, Cleanup,
         EndInit, AfterInit, Extensions
<1>2. CASE pc # "planInit"
  <2>1. CASE Layer \/ Run \/ Exit
    BY <2>1 DEF Layer, Run, Exit, PlanInv
  <2>2. CASE InstallStage
    BY <2>2 DEF InstallStage, PlanInstall, BeforeInstall, InstallPackages, InstallKernel,
         InstallFiles, EndInstall, AfterInstall, CloudConfigs, KairosBinaries, ProviderBinaries,
         BuildProvider, Extensions, PlanInv
  <2>3. CASE InitStage
    BY <1>2, <2>3 DEF InitStage, PlanInit, BeforeInit, KairosRelease, Kernel, InitramfsConfigs,
         GenerateInitrd, Services, SshHardening, Workarounds, Cleanup, EndInit, AfterInit,
         Extensions, PlanInv
  <2>4. CASE UNCHANGED vars
    BY <2>4 DEF vars, control, PlanInv
  <2> QED
    BY <2>1, <2>2, <2>3, <2>4 DEF Next
<1> QED
  BY <1>1, <1>2

\* The types and the plan's part of the invariant are kept by every step.
LEMMA TypeStep == TInv /\ [Next]_vars => TInv'
<1> SUFFICES ASSUME TInv, [Next]_vars PROVE TypeOK'
  BY PlanStep DEF TInv
<1>0. TypeOK
  BY DEF TInv
<1>1. CASE Layer /\ UNCHANGED platform
  <2>1. CASE TouchKernels /\ UNCHANGED lists
    BY <1>0, <1>1, <2>1, TouchKernelsType DEF Layer, TypeOK
  <2>2. CASE layers < MaxLayers /\ layers' = layers + 1 /\ lists' \in BOOLEAN /\ UNCHANGED kernels
    BY <1>0, <1>1, <2>2, BuildAssumption DEF Layer, TypeOK, kernels
  <2> QED
    BY <1>1, <2>1, <2>2 DEF Layer
<1>2. CASE Run /\ UNCHANGED platform
  <2>1. runs' \in 0..MaxRuns
    BY <1>0, <1>2, BuildAssumption DEF Run, TypeOK
  <2>2. cmd' \in Command /\ pc' \in {"planInit", "planInstall"}
    BY <1>2, BuildAssumption DEF Run, Goto
  <2>3. plan' = NoKernel /\ err' = FALSE /\ exit' = "none"
    BY <1>2 DEF Run
  <2> QED
    BY <1>0, <1>2, <2>1, <2>2, <2>3 DEF Run, TypeOK, image, InstallPc, InitPc
<1>3. CASE InstallStage /\ UNCHANGED platform
  BY <1>3, InstallType
<1>4. CASE InitStage /\ UNCHANGED platform
  BY <1>4, InitStageType
<1>5. CASE Exit /\ UNCHANGED platform
  BY <1>0, <1>5 DEF Exit, TypeOK, Goto, image
<1>6. CASE UNCHANGED vars
  BY <1>0, <1>6 DEF vars, control, image, TypeOK
<1> QED
  BY <1>1, <1>2, <1>3, <1>4, <1>5, <1>6 DEF Next

\* Every variable of the pipeline stays in its type: the kernel step always has
\* a kernel to work with, and /boot holds nothing but files and links to paths.
THEOREM TypeCorrect == Spec => []TypeOK
<1>1. Spec => []TInv
  BY InitType, TypeStep, PTL DEF Spec
<1>2. TInv => TypeOK
  BY DEF TInv
<1> QED
  BY <1>1, <1>2, PTL

-----------------------------------------------------------------------------
(* The init stage of "--stage all" runs on a complete install stage.  The  *)
(* invariant follows the install stage: each part, once brought, is there  *)
(* at every later step of the run, because files only grow; inside the     *)
(* executor run that installs packages, it is there unless err is set.     *)

FromInstall == cmd.stage = "all" /\ ~ContainsSkipStep("install")

HasPackages == ContainsSkipStep("installPackages") \/ Prebuilt \/ "packages" \in files
HasBinaries == ContainsSkipStep("kairosBinaries") \/ "binaries" \in files
HasProvider == ContainsSkipStep("providerBinaries") \/ ~cmd.standard \/ "provider" \in files

WithPackages == {"afterInstall", "cloudconfigs", "kairosBinaries", "providerBinaries",
                 "buildProvider"} \union InitPc
WithBinaries == {"providerBinaries", "buildProvider"} \union InitPc
WithProvider == {"buildProvider"} \union InitPc

InstallInv == FromInstall =>
    /\ pc \in {"installKernel", "installFiles", "endInstall"} /\ ~err => HasPackages
    /\ pc \in WithPackages => HasPackages
    /\ pc \in WithBinaries => HasBinaries
    /\ pc \in WithProvider => HasProvider

\* No step takes a part of Kairos away again, and none but Run changes the
\* command line.
LEMMA FilesGrow == Next /\ ~Run => files \subseteq files' /\ cmd' = cmd /\ platform' = platform
<1> SUFFICES ASSUME Next, ~Run PROVE files \subseteq files' /\ cmd' = cmd /\ platform' = platform
  OBVIOUS
<1> USE DEF Skip, At, image, kernels
<1>1. CASE Layer \/ Exit
  BY <1>1 DEF Next, Layer, Exit
<1>2. CASE InstallStage
  BY <1>2 DEF Next, InstallStage, PlanInstall, BeforeInstall, InstallPackages, InstallKernel,
       InstallFiles, EndInstall, AfterInstall, CloudConfigs, KairosBinaries, ProviderBinaries,
       BuildProvider, Extensions
<1>3. CASE InitStage
  BY <1>3 DEF Next, InitStage, PlanInit, BeforeInit, KairosRelease, Kernel, InitramfsConfigs,
       GenerateInitrd, Services, SshHardening, Workarounds, Cleanup, EndInit, AfterInit,
       Extensions
<1> QED
  BY <1>1, <1>2, <1>3 DEF Next

\* What the run has brought, it keeps.
LEMMA PartsStay ==
    ASSUME Next, ~Run
    PROVE  /\ FromInstall' <=> FromInstall
           /\ HasPackages => HasPackages'
           /\ HasBinaries => HasBinaries'
           /\ HasProvider => HasProvider'
<1> QED
  BY FilesGrow DEF FromInstall, HasPackages, HasBinaries, HasProvider, ContainsSkipStep, Prebuilt

\* Each step of the install stage brings its part or ends the stage.
LEMMA InstallStep == InstallInv /\ [Next]_vars => InstallInv'
<1> SUFFICES ASSUME InstallInv, [Next]_vars, FromInstall'
             PROVE  InstallInv'
  BY DEF InstallInv
<1> USE DEF WithPackages, WithBinaries, WithProvider
<1>1. CASE UNCHANGED vars
  BY <1>1 DEF vars, control, image, InstallInv, FromInstall, HasPackages, HasBinaries,
              HasProvider, ContainsSkipStep, Prebuilt
<1>2. CASE Run
  <2>1. pc' = "planInstall"
    BY <1>2 DEF Run, Goto, FromInstall
  <2> QED
    BY <2>1 DEF InstallInv, InitPc
<1>3. CASE Next /\ ~Run
  <2>1. FromInstall /\ (HasPackages => HasPackages') /\ (HasBinaries => HasBinaries')
        /\ (HasProvider => HasProvider')
    BY <1>3, PartsStay
  <2> USE DEF Goto, Then, Finish, Skip, At, InitPc
  <2>2. CASE Layer \/ Exit
    BY <2>1, <2>2 DEF Layer, Exit, InstallInv
  <2>3. CASE PlanInstall
    BY <2>1, <2>3 DEF PlanInstall, FromInstall, InstallInv
  <2>4. CASE BeforeInstall
    BY <2>1, <2>4 DEF BeforeInstall, Extensions, InstallInv
  <2>5. CASE InstallPackages
    <3>0. pc' = "installKernel"
      BY <2>5 DEF InstallPackages
    <3> SUFFICES HasPackages' \/ err'
      BY <3>0 DEF InstallInv
    <3>1. CASE Skip("installPackages", "installKernel")
      BY <2>1, <3>1 DEF HasPackages, ContainsSkipStep
    <3>2. CASE Prebuilt
      BY <2>1, <3>2 DEF HasPackages
    <3>3. CASE At("installPackages") /\ ~Prebuilt
      <4>1. PICK failed \in BOOLEAN :
              /\ Then("installKernel", failed)
              /\ failed \/ files' = files \union {"packages"}
        BY <2>5, <3>3, Zenon DEF InstallPackages
      <4>2. failed => err'
        BY <4>1, Zenon DEF Then
      <4> QED
        BY <4>1, <4>2 DEF HasPackages
    <3> QED
      BY <2>5, <3>1, <3>2, <3>3 DEF InstallPackages
  <2>6. CASE InstallKernel
    <3>1. pc = "installKernel" /\ pc' = "installFiles"
      BY <2>6 DEF InstallKernel
    <3>2. err => err'
      BY <2>6, Zenon DEF InstallKernel
    <3> QED
      BY <2>1, <3>1, <3>2 DEF InstallInv
  <2>7. CASE InstallFiles
    <3>1. pc = "installFiles" /\ pc' = "endInstall" /\ (err => err')
      BY <2>7 DEF InstallFiles
    <3> QED
      BY <2>1, <3>1 DEF InstallInv
  <2>8. CASE EndInstall
    <3>1. pc = "endInstall"
      BY <2>8 DEF EndInstall, Extensions
    <3>2. Finish("afterInstall", err) \/ Finish("afterInstall", TRUE)
      BY <2>8, Zenon DEF EndInstall, Extensions
    <3>3. pc' = "failed" \/ (pc' = "afterInstall" /\ ~err)
      BY <3>2
    <3> QED
      BY <2>1, <3>1, <3>3 DEF InstallInv
  <2>9. CASE AfterInstall
    <3>1. pc = "afterInstall" /\ pc' \in {"failed", "cloudconfigs"}
      BY <2>9 DEF AfterInstall, Extensions
    <3> QED
      BY <2>1, <3>1 DEF InstallInv
  <2>10. CASE CloudConfigs
    <3>1. pc = "cloudconfigs" /\ pc' \in {"failed", "kairosBinaries"}
      BY <2>10 DEF CloudConfigs
    <3> QED
      BY <2>1, <3>1 DEF InstallInv
  <2>11. CASE KairosBinaries
    <3>1. pc = "kairosBinaries"
      BY <2>11 DEF KairosBinaries
    <3>2. CASE Skip("kairosBinaries", "providerBinaries")
      <4>1. pc' = "providerBinaries" /\ HasBinaries'
        BY <2>1, <3>2 DEF HasBinaries, ContainsSkipStep
      <4> QED
        BY <2>1, <3>1, <4>1 DEF InstallInv
    <3>3. CASE At("kairosBinaries")
      <4>1. PICK failed \in BOOLEAN :
              /\ Finish("providerBinaries", failed)
              /\ failed \/ files' = files \union {"binaries"}
        BY <2>11, <3>3, Zenon DEF KairosBinaries
      <4>2. pc' = "failed" \/ (pc' = "providerBinaries" /\ HasBinaries')
        BY <4>1 DEF HasBinaries
      <4> QED
        BY <2>1, <3>1, <4>2 DEF InstallInv
    <3> QED
      BY <2>11, <3>2, <3>3 DEF KairosBinaries
  <2>12. CASE ProviderBinaries
    <3>1. pc = "providerBinaries"
      BY <2>12 DEF ProviderBinaries
    <3>2. CASE Skip("providerBinaries", "buildProvider")
      <4>1. pc' = "buildProvider" /\ HasProvider'
        BY <2>1, <3>2 DEF HasProvider, ContainsSkipStep
      <4> QED
        BY <2>1, <3>1, <4>1 DEF InstallInv
    <3>3. CASE At("providerBinaries")
      <4>1. \/ Finish("buildProvider", TRUE)
            \/ /\ Finish("buildProvider", FALSE)
               /\ (~cmd.standard \/ files' = files \union {"provider"})
        BY <2>12, <3>3, Zenon DEF ProviderBinaries
      <4>2. cmd' = cmd
        BY <3>3
      <4>3. pc' = "failed" \/ (pc' = "buildProvider" /\ HasProvider')
        BY <4>1, <4>2 DEF HasProvider
      <4> QED
        BY <2>1, <3>1, <4>3 DEF InstallInv
    <3> QED
      BY <2>12, <3>2, <3>3 DEF ProviderBinaries
  <2>13. CASE BuildProvider
    <3>1. pc = "buildProvider"
      BY <2>13 DEF BuildProvider
    <3>2. HasPackages' /\ HasBinaries' /\ HasProvider'
      BY <2>1, <3>1 DEF InstallInv
    <3> QED
      BY <3>2 DEF InstallInv
  <2>14. CASE InitStage
    <3>1. pc \in InitPc
      BY <2>14 DEF InitStage, PlanInit, BeforeInit, KairosRelease, Kernel, InitramfsConfigs,
           GenerateInitrd, Services, SshHardening, Workarounds, Cleanup, EndInit, AfterInit,
           Extensions
    <3>2. HasPackages' /\ HasBinaries' /\ HasProvider'
      BY <2>1, <3>1 DEF InstallInv
    <3> QED
      BY <3>2 DEF InstallInv
  <2> QED
    BY <1>3, <2>2, <2>3, <2>4, <2>5, <2>6, <2>7, <2>8, <2>9, <2>10, <2>11, <2>12, <2>13, <2>14
       DEF Next, InstallStage
<1> QED
  BY <1>1, <1>2, <1>3

\* RunAllStages never starts init on an install stage that failed or on a part
\* of one: whatever the run was to bring is there in every step of init.
THEOREM InitOnCompleteInstall == Spec => []InitAfterInstall
<1>1. Init => InstallInv
  BY DEF Init, InstallInv, WithPackages, WithBinaries, WithProvider, InitPc
<1>2. InstallInv => InitAfterInstall
  BY DEF InstallInv, InitAfterInstall, FromInstall, HasPackages, HasBinaries, HasProvider,
         WithPackages, WithBinaries, WithProvider
<1> QED
  BY <1>1, <1>2, InstallStep, PTL DEF Spec

-----------------------------------------------------------------------------
(* What a Trusted Boot image and a cleaned one must not hold.  Both hold   *)
(* from the step that removes it to the end of the executor run, since no  *)
(* step in between brings it back.                                         *)

AfterInitrd == {"services", "sshHardening", "workarounds", "cleanup", "endInit"}

TrustedInv == pc \in AfterInitrd /\ ~err /\ cmd.trusted /\ ~ContainsSkipStep("initrd")
                 => initrd = NoInitrd

CleanInv == pc = "endInit" /\ ~err /\ ~ContainsSkipStep("cleanup") => ~hostKeys

\* The steps that lead neither into nor along the second half of init.
Elsewhere == \/ Layer \/ Run \/ InstallStage \/ Exit
             \/ PlanInit \/ BeforeInit \/ KairosRelease \/ Kernel \/ InitramfsConfigs
             \/ EndInit \/ AfterInit

\* They end outside the second half of init, or change nothing it depends on.
LEMMA ElsewhereStep == Elsewhere => pc' \notin AfterInitrd \/ UNCHANGED <<pc, cmd, initrd, err, hostKeys>>
<1> SUFFICES ASSUME Elsewhere PROVE pc' \notin AfterInitrd \/ UNCHANGED <<pc, cmd, initrd, err, hostKeys>>
  OBVIOUS
<1> USE DEF Goto, Then, Finish, Skip, At, AfterInstallStage, AfterInitrd
<1>1. CASE Layer \/ Run \/ Exit
  BY <1>1 DEF Layer, Run, Exit
<1>2. CASE InstallStage
  BY <1>2 DEF InstallStage, PlanInstall, BeforeInstall, InstallPackages, InstallKernel,
       InstallFiles, EndInstall, AfterInstall, CloudConfigs, KairosBinaries, ProviderBinaries,
       BuildProvider, Extensions
<1>3. CASE PlanInit \/ BeforeInit \/ KairosRelease \/ Kernel \/ InitramfsConfigs \/ EndInit \/ AfterInit
  BY <1>3 DEF PlanInit, BeforeInit, KairosRelease, Kernel, InitramfsConfigs, EndInit, AfterInit,
       Extensions
<1> QED
  BY <1>1, <1>2, <1>3 DEF Elsewhere

\* After the initrd step of a Trusted Boot run in which nothing failed nothing puts an initrd in /boot.
LEMMA TrustedStep == TrustedInv /\ [Next]_vars => TrustedInv'
<1> SUFFICES ASSUME TrustedInv, [Next]_vars PROVE TrustedInv'
  OBVIOUS
<1> USE DEF ContainsSkipStep, TrustedInv
<1>1. CASE UNCHANGED vars
  BY <1>1 DEF vars, control, image
<1>2. CASE Elsewhere
  BY <1>2, ElsewhereStep
<1>3. CASE GenerateInitrd
  <2>1. CASE Skip("initrd", "services")
    BY <2>1 DEF Skip
  <2>2. CASE At("initrd")
    <3>1. cmd.trusted => initrd' = NoInitrd \/ Then("services", TRUE)
      BY <1>3, <2>2, Zenon DEF GenerateInitrd, Skip, At
    <3>2. cmd.trusted => initrd' = NoInitrd \/ err'
      BY <3>1, Zenon DEF Then
    <3> QED
      BY <2>2, <3>2, Zenon DEF At
  <2> QED
    BY <1>3, <2>1, <2>2 DEF GenerateInitrd
<1>4. CASE Services \/ SshHardening \/ Workarounds \/ Cleanup
  <2>1. pc \in AfterInitrd /\ UNCHANGED <<cmd, initrd>>
    BY <1>4 DEF Services, SshHardening, Workarounds, Cleanup, Skip, At, image, AfterInitrd
  <2>2. err => err'
    <3>1. CASE UNCHANGED err
      BY <3>1
    <3>2. CASE \E step, failed : Then(step, failed)
      BY <3>2, Zenon DEF Then
    <3> QED
      BY <1>4, <3>1, <3>2, Zenon DEF Services, SshHardening, Workarounds, Cleanup, Skip
  <2> QED
    BY <2>1, <2>2, Zenon
<1> QED
  BY <1>1, <1>2, <1>3, <1>4 DEF Next, InitStage, Elsewhere

\* A Trusted Boot run that gets to the end of init leaves no initrd, whatever
\* runs without Trusted Boot had put in /boot before.
THEOREM TrustedWithoutInitrd == Spec => []TrustedHasNoInitrd
<1>1. Init => TrustedInv
  BY DEF Init, TrustedInv, AfterInitrd
<1>2. TrustedInv => TrustedHasNoInitrd
  BY DEF TrustedInv, TrustedHasNoInitrd, Built, AfterInitrd
<1> QED
  BY <1>1, <1>2, TrustedStep, PTL DEF Spec

\* After the cleanup step of a run nothing generates host keys.
LEMMA CleanStep == CleanInv /\ [Next]_vars => CleanInv'
<1> SUFFICES ASSUME CleanInv, [Next]_vars PROVE CleanInv'
  OBVIOUS
<1>1. CASE UNCHANGED vars
  BY <1>1 DEF vars, control, image, CleanInv, ContainsSkipStep
<1>2. CASE Elsewhere
  BY <1>2, ElsewhereStep DEF CleanInv, ContainsSkipStep, AfterInitrd
<1>3. CASE GenerateInitrd \/ Services \/ SshHardening \/ Workarounds
  <2>1. pc' # "endInit"
    BY <1>3 DEF GenerateInitrd, Services, SshHardening, Workarounds, Skip, Then, Goto
  <2> QED
    BY <2>1 DEF CleanInv
<1>4. CASE Cleanup
  <2>1. CASE Skip("cleanup", "endInit")
    BY <2>1 DEF Skip, CleanInv, ContainsSkipStep
  <2>2. CASE At("cleanup")
    <3>1. hostKeys' = FALSE \/ Then("endInit", TRUE)
      BY <1>4, <2>2, Zenon DEF Cleanup, Skip, At
    <3>2. ~hostKeys' \/ err'
      BY <3>1, Zenon DEF Then
    <3> QED
      BY <3>2, Zenon DEF CleanInv
  <2> QED
    BY <1>4, <2>1, <2>2 DEF Cleanup
<1> QED
  BY <1>1, <1>2, <1>3, <1>4 DEF Next, InitStage, Elsewhere

\* No SSH host key survives a run whose cleanup step went well, whatever
\* packages earlier runs installed.
THEOREM NoKeysAfterCleanup == Spec => []NoHostKeys
<1>1. Init => CleanInv
  BY DEF Init, CleanInv
<1>2. CleanInv => NoHostKeys
  BY Zenon DEF CleanInv, NoHostKeys, Built
<1> QED
  BY <1>1, <1>2, CleanStep, PTL DEF Spec
=============================================================================
