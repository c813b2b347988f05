------------------------ MODULE InstallStageProofs -------------------------
(* Proofs about the install stage, for every build, version override and    *)
(* number of runs and breaks.                                               *)
EXTENDS InstallStage, TLAPS, FiniteSetTheorems

-----------------------------------------------------------------------------
(* The binaries.                                                            *)

\* A file that is there without x bit was created by a write that was cut short,
\* and the installer is as its one write left it.
FilesInv ==
  /\ disk \in [Binaries -> File]
  /\ \A b \in Binaries : disk[b].content # "none" => disk[b].exec \/ b \in cut
  /\ disk["kairos-installer"] # Missing =>
       disk["kairos-installer"].exec
         /\ (disk["kairos-installer"].content = "full" \/ "kairos-installer" \in cut)

\* What SuccessMeansWhole says of one binary.
Fine(b) == /\ disk[b].content = "full" \/ (b = "kairos-installer" /\ b \in cut)
           /\ disk[b].exec \/ (b \notin online /\ b \in cut)

KairosWanted == IF ContainsSkipStep("kairosBinaries") THEN {}
                ELSE AgentBinaries \union {"kairos-installer"}

\* How far the run has come: what it wrote so far is fine.
WrittenInv ==
  /\ pc = "kairosBinaries" => /\ todo \subseteq AgentBinaries
                              /\ ContainsSkipStep("kairosBinaries") => todo = {}
                              /\ \A b \in AgentBinaries \ todo :
                                   ContainsSkipStep("kairosBinaries") \/ Fine(b)
  /\ pc = "installer" => \A b \in AgentBinaries : Fine(b)
  /\ pc = "providerBinaries" => /\ todo \subseteq ProviderBinaries
                                /\ \A b \in KairosWanted : Fine(b)
                                /\ \A b \in ProviderTodo \ todo : Fine(b)
  /\ pc \in {"kairosLink", "ok"} \/ Succeeded => \A b \in Wanted : Fine(b)

WholeInv == FilesInv /\ WrittenInv

\* A write that ends well leaves the file fine and the others alone; one that
\* does not ends the run; and either keeps FilesInv.
LEMMA WriteFiles ==
  ASSUME FilesInv, NEW b \in AgentBinaries \union ProviderBinaries, Write(b),
         UNCHANGED online
  PROVE  /\ FilesInv'
         /\ \/ pc' = "fail"
            \/ /\ pc' = pc /\ todo' = todo \ {b} /\ Fine(b)'
               /\ \A c \in Binaries \ {b} : Fine(c) => Fine(c)'
<1>1. b \in Binaries /\ b # "kairos-installer"
  BY DEF Binaries, AgentBinaries, ProviderBinaries
<1>2. disk[b] \in File /\ "kairos-installer" \in Binaries  BY <1>1 DEF FilesInv, Binaries
<1>3. CASE /\ disk' = [disk EXCEPT ![b] = [content |-> "full",
                          exec |-> b \in online \/ @.content = "none" \/ @.exec]]
           /\ todo' = todo \ {b} /\ UNCHANGED <<pc, cut>>
  <2>1. disk'[b] \in File /\ disk'[b].content = "full"
    BY <1>1, <1>2, <1>3 DEF FilesInv, File
  <2>2. disk'[b].exec \/ (b \notin online /\ b \in cut)
    BY <1>1, <1>2, <1>3 DEF FilesInv, File
  <2>3. \A c \in Binaries \ {b} : disk'[c] = disk[c]
    BY <1>1, <1>3 DEF FilesInv
  <2>4. disk' \in [Binaries -> File]
    BY <1>1, <1>3, <2>1 DEF FilesInv
  <2>5. Fine(b)'  BY <2>1, <2>2, <1>3, Zenon DEF Fine
  <2>6. \A c \in Binaries \ {b} : Fine(c) => Fine(c)'  BY <2>3, <1>3, Zenon DEF Fine
  <2>7. FilesInv'  BY <1>1, <1>2, <2>1, <2>2, <2>3, <2>4, <1>3, Zenon DEF FilesInv
  <2> QED  BY <2>5, <2>6, <2>7, <1>3, Zenon
<1>4. CASE Truncate(b) /\ pc' = "fail"
  <2>1. disk'[b] \in File  BY <1>1, <1>2, <1>4 DEF FilesInv, Truncate, File
  <2>2. disk'[b].exec \/ b \in cut'
    BY <1>1, <1>2, <1>4 DEF FilesInv, Truncate, File
  <2>3. \A c \in Binaries \ {b} : disk'[c] = disk[c]
    BY <1>1, <1>4 DEF FilesInv, Truncate
  <2>4. disk' \in [Binaries -> File]
    BY <1>1, <1>4, <2>1 DEF FilesInv, Truncate
  <2>5. cut \subseteq cut'  BY <1>4 DEF Truncate
  <2>6. FilesInv'  BY <1>1, <1>2, <2>2, <2>3, <2>4, <2>5, Zenon DEF FilesInv
  <2> QED  BY <2>6, <1>4, Zenon
<1>5. CASE UNCHANGED <<disk, cut>> /\ pc' = "fail"
  BY <1>5, Zenon DEF FilesInv
<1> QED  BY <1>3, <1>4, <1>5, Zenon DEF Write, Goto

\* The steps before the binaries and the end of a run leave the files alone.
LEMMA OtherFiles ==
  ASSUME FilesInv, UNCHANGED <<disk, cut>>
  PROVE  FilesInv' /\ (UNCHANGED online => \A b : Fine(b) = Fine(b)')
BY Zenon DEF FilesInv, Fine

\* The steps before the binaries.
Early == \/ Run \/ PreRun \/ Plan \/ Repositories \/ RemoveBundledKernel
         \/ BasePackagesStage \/ L4tRepositories \/ DgxSpark \/ OpencvLink
         \/ UekRepository \/ KernelPackagesStage

LEMMA EarlyStep ==
  ASSUME Early
  PROVE  /\ UNCHANGED <<disk, cut>>
         /\ pc' \notin {"idle", "kairosBinaries", "installer", "providerBinaries",
                        "kairosLink", "ok"}
<1> USE DEF Goto, Then, files
<1>1. CASE Run  BY <1>1 DEF Run
<1>2. CASE PreRun  BY <1>2 DEF PreRun
<1>3. CASE Plan  BY <1>3 DEF Plan
<1>4. CASE Repositories  BY <1>4, Zenon DEF Repositories
<1>5. CASE RemoveBundledKernel  BY <1>5, Zenon DEF RemoveBundledKernel
<1>6. CASE BasePackagesStage  BY <1>6, Zenon DEF BasePackagesStage, Install
<1>7. CASE L4tRepositories  BY <1>7, Zenon DEF L4tRepositories
<1>8. CASE DgxSpark  BY <1>8, Zenon DEF DgxSpark
<1>9. CASE OpencvLink  BY <1>9, Zenon DEF OpencvLink
<1>10. CASE UekRepository  BY <1>10, Zenon DEF UekRepository, AfterUek
<1>11. CASE KernelPackagesStage  BY <1>11, Zenon DEF KernelPackagesStage, Install
<1> QED  BY <1>1, <1>2, <1>3, <1>4, <1>5, <1>6, <1>7, <1>8, <1>9, <1>10, <1>11 DEF Early

\* What is wanted, and so the invariant, depends on the build alone.
LEMMA SameBuild ==
  ASSUME UNCHANGED build
  PROVE  /\ UNCHANGED <<KairosWanted, ProviderTodo, Wanted>>
         /\ \A s : ContainsSkipStep(s) = ContainsSkipStep(s)'
BY Zenon DEF KairosWanted, ProviderTodo, Wanted, ContainsSkipStep

\* The two groups of wanted binaries.
LEMMA WantedParts == Wanted = KairosWanted \union ProviderTodo
BY Zenon DEF Wanted, KairosWanted

\* The steps at which some binaries are there already.
Late == {"kairosBinaries", "installer", "providerBinaries", "kairosLink", "ok"}

\* A step that leads back to before the binaries, or to a failure, has nothing to show.
LEMMA NotLate ==
  ASSUME pc' \notin Late, pc' # "idle"
  PROVE  WrittenInv'
BY Zenon DEF WrittenInv, Late, Succeeded

\* Each step of the run that brings binaries brings its own whole and keeps the others.
LEMMA WholeStep ==
  ASSUME WholeInv, [Next]_vars
  PROVE  WholeInv'
<1> USE DEF WholeInv
<1>1. CASE Early
  <2>1. FilesInv'  BY <1>1, EarlyStep, OtherFiles
  <2>2. pc' \notin Late /\ pc' # "idle"  BY <1>1, EarlyStep DEF Late
  <2> QED  BY <2>1, <2>2, NotLate
<1>2. CASE EndInstall
  <2>1. FilesInv'  BY <1>2, OtherFiles DEF EndInstall, files
  <2>2. CASE pc' = "fail"  BY <2>1, <2>2, NotLate DEF Late
  <2>3. CASE pc' = "kairosBinaries"
    <3>1. todo' = IF ContainsSkipStep("kairosBinaries") THEN {} ELSE AgentBinaries
      BY <1>2 DEF EndInstall
    <3>2. ContainsSkipStep("kairosBinaries") = ContainsSkipStep("kairosBinaries")'
      BY <1>2, SameBuild DEF EndInstall
    <3> QED  BY <2>1, <2>3, <3>1, <3>2, Zenon DEF WrittenInv, Succeeded
  <2> QED  BY <1>2, <2>2, <2>3 DEF EndInstall, Goto
<1>3. CASE KairosBinaries
  <2>1. CASE \E b \in todo : Write(b)
    <3>1. PICK b \in todo : Write(b)  BY <2>1
    <3>2. b \in AgentBinaries  BY <1>3 DEF KairosBinaries, WrittenInv
    <3>3. UNCHANGED <<build, online>>  BY <1>3 DEF KairosBinaries
    <3>4. pc = "kairosBinaries" /\ b \in AgentBinaries \union ProviderBinaries
      BY <1>3, <3>2 DEF KairosBinaries
    <3>5. /\ FilesInv'
          /\ \/ pc' = "fail"
             \/ /\ pc' = pc /\ todo' = todo \ {b} /\ Fine(b)'
                /\ \A c \in Binaries \ {b} : Fine(c) => Fine(c)'
      BY <3>3, <3>1, <3>4, WriteFiles, Zenon
    <3>6. CASE pc' = "fail"  BY <3>6, <3>5, NotLate DEF Late
    <3>7. CASE pc' = "kairosBinaries" /\ todo' = todo \ {b} /\ Fine(b)'
                 /\ \A c \in Binaries \ {b} : Fine(c) => Fine(c)'
      <4>1. todo' \subseteq AgentBinaries  BY <1>3, <3>7 DEF KairosBinaries, WrittenInv
      <4>2. ~ContainsSkipStep("kairosBinaries")  BY <1>3, <3>1 DEF KairosBinaries, WrittenInv
      <4>3. \A c \in AgentBinaries \ todo' : Fine(c)'
        BY <1>3, <3>7, <4>2 DEF KairosBinaries, WrittenInv, Binaries
      <4> QED  BY <3>3, <3>5, <3>7, <4>1, <4>2, <4>3, SameBuild, Zenon DEF WrittenInv, Succeeded
    <3> QED  BY <3>4, <3>5, <3>6, <3>7
  <2>2. CASE todo = {} /\ UNCHANGED <<disk, cut>> /\ Holds
             /\ IF ContainsSkipStep("kairosBinaries")
                  THEN Goto("providerBinaries") /\ todo' = ProviderTodo
                  ELSE Goto("installer") /\ UNCHANGED todo
    <3>1. UNCHANGED <<build, online>>  BY <1>3 DEF KairosBinaries
    <3>2. FilesInv' /\ \A b : Fine(b) = Fine(b)'  BY <2>2, <3>1, OtherFiles
    <3>3. ProviderTodo \subseteq ProviderBinaries  BY DEF ProviderTodo
    <3>4. CASE ContainsSkipStep("kairosBinaries")
      <4>1. pc' = "providerBinaries" /\ todo' = ProviderTodo  BY <2>2, <3>4 DEF Goto
      <4>2. KairosWanted = {}  BY <3>4 DEF KairosWanted
      <4> QED  BY <3>1, <3>2, <3>3, <4>1, <4>2, SameBuild, Zenon DEF WrittenInv, Succeeded
    <3>5. CASE ~ContainsSkipStep("kairosBinaries")
      <4>1. pc' = "installer"  BY <2>2, <3>5 DEF Goto
      <4>2. \A b \in AgentBinaries : Fine(b)  BY <1>3, <2>2, <3>5 DEF KairosBinaries, WrittenInv
      <4> QED  BY <3>2, <4>1, <4>2, Zenon DEF WrittenInv, Succeeded
    <3> QED  BY <3>4, <3>5
  <2> QED  BY <1>3, <2>1, <2>2 DEF KairosBinaries
<1>4. CASE InstallKairosInstaller
  <2>1. UNCHANGED <<build, online>>  BY <1>4 DEF InstallKairosInstaller
  <2>2. \A b \in AgentBinaries : Fine(b)  BY <1>4 DEF InstallKairosInstaller, WrittenInv
  <2>3. CASE disk["kairos-installer"] = Missing /\ Breaks /\ Goto("fail")
             /\ disk' = [disk EXCEPT !["kairos-installer"] = [content |-> "part", exec |-> TRUE]]
             /\ cut' = cut \union {"kairos-installer"}
    <3>1. FilesInv'  BY <2>3 DEF FilesInv, File, Binaries
    <3> QED  BY <2>3, <3>1, NotLate DEF Late, Goto
  <2>4. CASE /\ Holds /\ Goto("providerBinaries") /\ todo' = ProviderTodo
             /\ disk' = IF disk["kairos-installer"] # Missing THEN disk
                        ELSE [disk EXCEPT !["kairos-installer"] = Whole]
             /\ UNCHANGED cut
    <3>1. FilesInv'  BY <2>4 DEF FilesInv, File, Whole, Missing, Binaries
    <3>2. \A b \in Binaries \ {"kairos-installer"} : disk'[b] = disk[b]
      BY <2>4 DEF FilesInv
    <3>3. disk'["kairos-installer"].exec
            /\ (disk'["kairos-installer"].content = "full" \/ "kairos-installer" \in cut')
      BY <2>4 DEF FilesInv, Whole, Binaries
    <3>4. "kairos-installer" \notin AgentBinaries /\ AgentBinaries \subseteq Binaries
      BY DEF AgentBinaries, Binaries
    <3>5. \A b \in AgentBinaries : Fine(b)'  BY <2>1, <2>2, <2>4, <3>2, <3>4, Zenon DEF Fine
    <3>6. Fine("kairos-installer")'  BY <3>3, Zenon DEF Fine
    <3>7. KairosWanted \subseteq AgentBinaries \union {"kairos-installer"}  BY DEF KairosWanted
    <3>8. \A b \in KairosWanted' : Fine(b)'  BY <2>1, <3>5, <3>6, <3>7, SameBuild
    <3>9. todo' \subseteq ProviderBinaries /\ ProviderTodo' = todo'
      BY <2>1, <2>4, SameBuild DEF ProviderTodo
    <3> QED  BY <2>4, <3>1, <3>8, <3>9, Zenon DEF WrittenInv, Succeeded, Goto
  <2> QED  BY <1>4, <2>3, <2>4 DEF InstallKairosInstaller
<1>5. CASE InstallProviderBinaries
  <2>0. UNCHANGED <<build, online>>  BY <1>5 DEF InstallProviderBinaries
  <2>1. CASE \E b \in todo : Write(b)
    <3>1. PICK b \in todo : Write(b)  BY <2>1
    <3>2. b \in ProviderBinaries  BY <1>5 DEF InstallProviderBinaries, WrittenInv
    <3>4. pc = "providerBinaries" /\ b \in AgentBinaries \union ProviderBinaries
      BY <1>5, <3>2 DEF InstallProviderBinaries
    <3>5. /\ FilesInv'
          /\ \/ pc' = "fail"
             \/ /\ pc' = pc /\ todo' = todo \ {b} /\ Fine(b)'
                /\ \A c \in Binaries \ {b} : Fine(c) => Fine(c)'
      BY <2>0, <3>1, <3>4, WriteFiles, Zenon
    <3>6. CASE pc' = "fail"  BY <3>6, <3>5, NotLate DEF Late
    <3>7. CASE pc' = "providerBinaries" /\ todo' = todo \ {b} /\ Fine(b)'
                 /\ \A c \in Binaries \ {b} : Fine(c) => Fine(c)'
      <4>1. todo' \subseteq ProviderBinaries  BY <1>5, <3>7 DEF InstallProviderBinaries, WrittenInv
      <4>2. KairosWanted \union ProviderTodo \subseteq Binaries
        BY DEF KairosWanted, ProviderTodo, Binaries
      <4>3. \A c \in KairosWanted : Fine(c)
        BY <1>5 DEF InstallProviderBinaries, WrittenInv
      <4>4. \A c \in KairosWanted : Fine(c)'  BY <3>7, <4>2, <4>3, Zenon
      <4>5. \A c \in ProviderTodo \ todo' : Fine(c)'
        BY <1>5, <3>7, <4>2 DEF InstallProviderBinaries, WrittenInv
      <4> QED  BY <2>0, <3>5, <3>7, <4>1, <4>4, <4>5, SameBuild, Zenon DEF WrittenInv, Succeeded
    <3> QED  BY <3>4, <3>5, <3>6, <3>7
  <2>2. CASE todo = {} /\ UNCHANGED <<disk, cut>> /\ pc' \in {"ok", "kairosLink"}
    <3>1. FilesInv' /\ \A b : Fine(b) = Fine(b)'  BY <2>0, <2>2, OtherFiles
    <3>2. \A b \in Wanted : Fine(b)
      BY <1>5, <2>2, WantedParts DEF InstallProviderBinaries, WrittenInv
    <3> QED  BY <2>0, <2>2, <3>1, <3>2, SameBuild, Zenon DEF WrittenInv, Succeeded
  <2> QED  BY <1>5, <2>1, <2>2 DEF InstallProviderBinaries, Goto
<1>6. CASE KairosLink
  <2>1. FilesInv' /\ \A b : Fine(b) = Fine(b)'  BY <1>6, OtherFiles DEF KairosLink
  <2>2. \A b \in Wanted : Fine(b)  BY <1>6 DEF KairosLink, WrittenInv
  <2>3. pc' \in {"ok", "fail"} /\ UNCHANGED build  BY <1>6 DEF KairosLink, Goto
  <2> QED  BY <2>1, <2>2, <2>3, SameBuild, Zenon DEF WrittenInv, Succeeded
<1>7. CASE Exit
  <2>1. FilesInv' /\ \A b : Fine(b) = Fine(b)'  BY <1>7, OtherFiles DEF Exit, files
  <2>2. pc' = "idle" /\ exit' = pc /\ UNCHANGED build  BY <1>7 DEF Exit, Goto
  <2>3. pc = "ok" => \A b \in Wanted : Fine(b)  BY DEF WrittenInv
  <2> QED  BY <2>1, <2>2, <2>3, SameBuild, Zenon DEF WrittenInv, Succeeded
<1>8. CASE UNCHANGED vars
  <2>1. UNCHANGED <<build, online, pc, todo, exit, disk, cut>>
    BY <1>8 DEF vars, control, files
  <2>2. FilesInv' /\ \A b : Fine(b) = Fine(b)'  BY <2>1, OtherFiles
  <2> QED  BY <2>1, <2>2, SameBuild, Zenon DEF WrittenInv, Succeeded
<1> QED  BY <1>1, <1>2, <1>3, <1>4, <1>5, <1>6, <1>7, <1>8, Zenon DEF Next, Early

\* After a good run every wanted binary is whole and executable, whatever earlier
\* runs left and however they were cut short, but for the two cases that
\* SuccessMeansWhole names.
THEOREM WholeBinaries == Spec => []SuccessMeansWhole
<1>1. Init => WholeInv
  <2> SUFFICES ASSUME Init PROVE WholeInv  OBVIOUS
  <2>1. FilesInv
    BY DEF Init, FilesInv, File, Missing, Binaries
  <2>2. WrittenInv  BY DEF Init, WrittenInv, Succeeded
  <2> QED  BY <2>1, <2>2 DEF WholeInv
<1>2. WholeInv /\ [Next]_vars => WholeInv'  BY WholeStep
<1>3. WholeInv => SuccessMeansWhole
  BY Zenon DEF WholeInv, WrittenInv, SuccessMeansWhole, Fine
<1> QED  BY <1>1, <1>2, <1>3, PTL DEF Spec

-----------------------------------------------------------------------------
(* What the package tables name for a system.                              *)

\* What the tables of other packages name.
Ordinary ==
    {"base", "sudo", "less", "curl", "gnupg", "nfs-common", "systemd", "fail2ban",
     "openssh-server", "systemd-timesyncd", "nfs-client", "openssh", "multipath-tools",
     "systemd-networkd", "systemd-resolved", "nfs-utils", "connman", "openrc",
     "busybox-openrc", "eudev", "chrony", "NetworkManager", "device-mapper-multipath",
     "systemd-cryptsetup", "packagekit-tools", "packagekit", "dracut", "dracut-live",
     "dracut-network", "libopencv-dev", "grub", "isc-dhcp-client", "dhcp-client",
     "systemd-boot"}

\* The packages of a repository of their own.
Foreign == {"nvidia-l4t-kernel", "nvidia-l4t-bootloader", "cuda", "nvidia-mlnx-tools", "kernel-uek"}

\* Every kernel by its name.
LEMMA KernelNames ==
    /\ Kernels = {"linux-image-generic", "kernel", "kernel-uek", "linux-lts", "kernel-default",
                  "linux-rpi", "linux-raspi", "nvidia-l4t-kernel", "linux-image-nvidia-hwe-24.04",
                  "linux-image-generic-hwe-20.04", "linux-image-generic-hwe-22.04",
                  "linux-image-generic-hwe-24.04", "linux-image-generic-hwe-28.04",
                  "linux-image-amd64", "linux-image-arm64", "linux-image-riscv64"}
    /\ Hwe(<<20, 4>>) = "linux-image-generic-hwe-20.04"
    /\ Hwe(<<22, 4>>) = "linux-image-generic-hwe-22.04"
    /\ Hwe(<<24, 4>>) = "linux-image-generic-hwe-24.04"
    /\ Hwe(<<28, 4>>) = "linux-image-generic-hwe-28.04"
    /\ DebianImage["amd64"] = "linux-image-amd64"
    /\ DebianImage["arm64"] = "linux-image-arm64"
    /\ DebianImage["riscv64"] = "linux-image-riscv64"
<1>1. /\ Hwe(<<20, 4>>) = "linux-image-generic-hwe-20.04"
      /\ Hwe(<<22, 4>>) = "linux-image-generic-hwe-22.04"
      /\ Hwe(<<24, 4>>) = "linux-image-generic-hwe-24.04"
      /\ Hwe(<<28, 4>>) = "linux-image-generic-hwe-28.04"
  BY DEF Hwe
<1>2. /\ DebianImage["amd64"] = "linux-image-amd64"
      /\ DebianImage["arm64"] = "linux-image-arm64"
      /\ DebianImage["riscv64"] = "linux-image-riscv64"
  BY DEF DebianImage
<1>3. {Hwe(v) : v \in Lts} = {Hwe(<<20, 4>>), Hwe(<<22, 4>>), Hwe(<<24, 4>>), Hwe(<<28, 4>>)}
  BY DEF Lts
<1>4. {DebianImage[a] : a \in Arch} = {DebianImage["amd64"], DebianImage["arm64"], DebianImage["riscv64"]}
  BY DEF Arch
<1> QED
  BY <1>1, <1>2, <1>3, <1>4 DEF Kernels

\* None of the ordinary packages is a kernel or needs a repository of its own.
LEMMA Apart == Ordinary \intersect (Kernels \union Foreign) = {}
  BY KernelNames DEF Ordinary, Foreign

\* The fields of a row.
LEMMA RowFields ==
    ASSUME NEW key, NEW arch, NEW model, NEW when, NEW pkgs
    PROVE  LET r == ModelRow(key, arch, model, when, pkgs)
           IN r.key = key /\ r.arch = arch /\ r.model = model /\ r.when = when /\ r.pkgs = pkgs
BY DEF ModelRow

\* The same of a row for any model.
LEMMA RowIs ==
    ASSUME NEW key, NEW arch, NEW when, NEW pkgs
    PROVE  /\ Row(key, arch, when, pkgs).key = key /\ Row(key, arch, when, pkgs).arch = arch
           /\ Row(key, arch, when, pkgs).model = "generic"
           /\ Row(key, arch, when, pkgs).when = when /\ Row(key, arch, when, pkgs).pkgs = pkgs
BY DEF Row, ModelRow

\* The base tables name ordinary packages only.
LEMMA OrdinaryRows ==
    ASSUME NEW r \in BasePackages \union ImmucorePackages \union GrubPackages \union SystemdPackages
    PROVE  r.pkgs \subseteq Ordinary
<1> USE DEF Ordinary, Row, ModelRow
<1>1. CASE r \in BaseDebianFamily  BY <1>1 DEF BaseDebianFamily
<1>2. CASE r \in BaseSUSE  BY <1>2 DEF BaseSUSE
<1>3. CASE r \in BaseAlpine  BY <1>3 DEF BaseAlpine
<1>4. CASE r \in BaseRedHat  BY <1>4 DEF BaseRedHat
<1>5. CASE r \in BaseDebianUbuntu  BY <1>5 DEF BaseDebianUbuntu
<1>6. CASE r \in ImmucorePackages  BY <1>6 DEF ImmucorePackages
<1>7. CASE r \in GrubPackages  BY <1>7 DEF GrubPackages
<1>8. CASE r \in SystemdPackages  BY <1>8 DEF SystemdPackages
<1> QED  BY <1>1, <1>2, <1>3, <1>4, <1>5, <1>6, <1>7, <1>8 DEF BasePackages

\* So do the tables of the boards, but for the kernel of the DGX Spark.
LEMMA ModelRows ==
    ASSUME NEW r \in BasePackagesModels
    PROVE  \/ r.pkgs \subseteq Ordinary
           \/ r.model = "dgx-spark" /\ r.pkgs = {"base", "linux-image-nvidia-hwe-24.04"}
BY DEF Ordinary, ModelRow, BasePackagesModels

\* The places of the versions the tables and the steps compare with.
LEMMA PlaceOf ==
    /\ Place(<<5, 4>>) = 50400 /\ Place(<<5, 5>>) = 50500
    /\ Place(<<9>>) = 90000 /\ Place(<<10>>) = 100000 /\ Place(<<13>>) = 130000
    /\ Place(<<21>>) = 210000
    /\ Place(<<20, 4>>) = 200400 /\ Place(<<22, 4>>) = 220400 /\ Place(<<22, 10>>) = 221000
    /\ Place(<<24, 4>>) = 240400 /\ Place(<<24, 10>>) = 241000 /\ Place(<<25, 4>>) = 250400
    /\ Place(<<25, 10>>) = 251000 /\ Place(<<26, 4>>) = 260400 /\ Place(<<28, 4>>) = 280400
    /\ Place(<<20, 4, 1>>) = 200401 /\ Place(<<22, 4, 1>>) = 220401
BY SMT DEF Place

\* A row without a constraint is for every version.
LEMMA Checks ==
    ASSUME NEW s, Dated(s)
    PROVE  Check(s.version, Always)
<1> DEFINE p == Place(s.version)
<1>1. p \in Nat /\ p < Never
  BY DEF Dated
<1>2. \A lo, hi : Check(s.version, {<<lo, hi>>}) <=> lo <= p /\ p < hi
  BY DEF Check
<1> HIDE DEF p
<1> QED
  BY <1>1, <1>2, SMT DEF Always

\* What the two one-sided constraints ask of a version.
LEMMA CheckAt ==
    ASSUME NEW s, Dated(s), NEW w, Place(w) \in Nat
    PROVE  /\ Check(s.version, From(w)) <=> Place(s.version) >= Place(w)
           /\ Check(s.version, Below(w)) <=> Place(s.version) < Place(w)
<1> DEFINE p == Place(s.version)
           q == Place(w)
<1>1. p \in Nat /\ p < Never /\ q \in Nat
  BY DEF Dated
<1>2. \A lo, hi : Check(s.version, {<<lo, hi>>}) <=> lo <= p /\ p < hi
  BY DEF Check
<1>3. From(w) = {<<q, Never>>} /\ Below(w) = {<<0, q>>}
  BY DEF From, Below
<1> HIDE DEF p, q
<1>4. /\ Check(s.version, From(w)) <=> q <= p /\ p < Never
      /\ Check(s.version, Below(w)) <=> 0 <= p /\ p < q
  BY <1>2, <1>3, Zenon
<1>5. (q <= p /\ p < Never <=> p >= q) /\ (0 <= p /\ p < q <=> p < q)
  BY <1>1, SMT
<1>6. (Check(s.version, From(w)) <=> p >= q) /\ (Check(s.version, Below(w)) <=> p < q)
  BY <1>4, <1>5, Zenon
<1> QED
  BY <1>6 DEF p, q

\* The plan names these packages.
Has(s, b, pkgs) == pkgs \subseteq GetPackages(s, b)

\* What a row for any architecture says of a system is installed on it.
LEMMA Listed ==
    ASSUME NEW s, NEW b, Dated(s), NEW key \in {s.distro, s.family},
           NEW when, Check(s.version, when), NEW pkgs,
           \/ Row(key, "common", when, pkgs) \in BasePackages
           \/ ~b.trusted /\ Row(key, "common", when, pkgs) \in ImmucorePackages
    PROVE  Has(s, b, pkgs)
<1> DEFINE rows == Lists(BasePackages, s, "generic")
        \union (IF b.model = "generic" THEN {} ELSE Lists(BasePackagesModels, s, b.model))
        \union (IF b.trusted THEN Lists(SystemdPackages, s, "generic")
                ELSE Lists(GrubPackages, s, "generic") \union Lists(ImmucorePackages, s, "generic"))
       r == Row(key, "common", when, pkgs)
<1>1. /\ r.key = key /\ r.arch = "common" /\ r.model = "generic"
      /\ r.when = when /\ r.pkgs = pkgs
  BY RowFields DEF Row
<1> HIDE DEF r
<1>2. r \in BasePackages \/ (~b.trusted /\ r \in ImmucorePackages)
  BY DEF r
<1>3. r \in rows
  BY <1>1, <1>2 DEF Lists
<1>4. GetPackages(s, b) = CommonPackages \union FilterPackagesOnConstraint(s, rows)
  BY DEF GetPackages
<1> HIDE DEF rows
<1>5. pkgs \subseteq FilterPackagesOnConstraint(s, rows)
  BY <1>1, <1>3 DEF FilterPackagesOnConstraint, Dated
<1> QED
  BY <1>4, <1>5 DEF Has

\* The plan names ordinary packages, and the kernel of the DGX Spark.
LEMMA ListedOnly ==
    ASSUME NEW s, NEW b, NEW p \in GetPackages(s, b)
    PROVE  p \in Ordinary \/ (b.model = "dgx-spark" /\ p = "linux-image-nvidia-hwe-24.04")
<1>1. CASE p \in CommonPackages
  BY <1>1 DEF CommonPackages, Ordinary
<1>2. CASE \E r \in BasePackages \union ImmucorePackages \union GrubPackages \union SystemdPackages :
             p \in r.pkgs
  BY <1>2, OrdinaryRows
<1>3. CASE \E r \in BasePackagesModels : r.model = b.model /\ p \in r.pkgs
  <2>1. PICK r \in BasePackagesModels : r.model = b.model /\ p \in r.pkgs
    BY <1>3
  <2>2. "base" \in Ordinary
    BY DEF Ordinary
  <2> QED
    BY <2>1, <2>2, ModelRows
<1> QED
  BY <1>1, <1>2, <1>3 DEF GetPackages, FilterPackagesOnConstraint, Lists

\* The rows of the Debian family that the needs of the init stage rest on.
LEMMA DebianRows ==
    /\ Row("DebianFamily", "common", Always,
            {"base", "curl", "gnupg", "nfs-common", "systemd", "fail2ban",
             "openssh-server", "systemd-timesyncd"}) \in BasePackages
    /\ Row("Debian", "common", Always, {"systemd-resolved", "multipath-tools"}) \in BasePackages
    /\ Row("Ubuntu", "common", From(<<22, 4>>), {"multipath-tools"}) \in BasePackages
    /\ Row("Ubuntu", "common", From(<<24, 4>>), {"systemd-resolved"}) \in BasePackages
    /\ Row("DebianFamily", "common", Always, {"dracut", "dracut-network", "isc-dhcp-client"})
          \in ImmucorePackages
    /\ Row("Debian", "common", Always, {"dracut-live"}) \in ImmucorePackages
    /\ Row("Ubuntu", "common", From(<<22, 4>>), {"dracut-live"}) \in ImmucorePackages
BY DEF BasePackages, BaseDebianFamily, BaseDebianUbuntu, ImmucorePackages

\* What is installed on every system of the Debian family.
LEMMA DebianFamilyHas ==
    ASSUME NEW s, NEW b, Dated(s), s.family = "DebianFamily"
    PROVE  /\ {"curl", "gnupg", "systemd", "fail2ban", "openssh-server", "systemd-timesyncd"}
                 \subseteq GetPackages(s, b)
           /\ ~b.trusted => {"dracut", "dracut-network"} \subseteq GetPackages(s, b)
           /\ s.distro = "Debian" =>
                /\ "multipath-tools" \in GetPackages(s, b)
                /\ ~b.trusted => "dracut-live" \in GetPackages(s, b)
           /\ s.distro = "Ubuntu" /\ Check(s.version, From(<<22, 4>>)) =>
                /\ "multipath-tools" \in GetPackages(s, b)
                /\ ~b.trusted => "dracut-live" \in GetPackages(s, b)
           /\ s.distro = "Ubuntu" /\ Check(s.version, From(<<24, 4>>)) =>
                "systemd-resolved" \in GetPackages(s, b)
<1>1. Check(s.version, Always)
  BY Checks
<1>2. "DebianFamily" \in {s.distro, s.family}
  OBVIOUS
<1>3. Has(s, b, {"base", "curl", "gnupg", "nfs-common", "systemd", "fail2ban",
                 "openssh-server", "systemd-timesyncd"})
  BY <1>1, <1>2, Listed, DebianRows
<1>4. ~b.trusted => Has(s, b, {"dracut", "dracut-network", "isc-dhcp-client"})
  BY <1>1, <1>2, Listed, DebianRows
<1>5. ASSUME s.distro = "Debian"
      PROVE  /\ Has(s, b, {"systemd-resolved", "multipath-tools"})
             /\ ~b.trusted => Has(s, b, {"dracut-live"})
  <2>1. "Debian" \in {s.distro, s.family}
    BY <1>5
  <2> QED
    BY <1>1, <2>1, Listed, DebianRows
<1>6. ASSUME s.distro = "Ubuntu"
      PROVE  /\ Check(s.version, From(<<22, 4>>)) =>
                  /\ Has(s, b, {"multipath-tools"})
                  /\ ~b.trusted => Has(s, b, {"dracut-live"})
             /\ Check(s.version, From(<<24, 4>>)) => Has(s, b, {"systemd-resolved"})
  <2>1. "Ubuntu" \in {s.distro, s.family}
    BY <1>6
  <2> QED
    BY <1>1, <2>1, Listed, DebianRows
<1> QED
  BY <1>3, <1>4, <1>5, <1>6 DEF Has

\* Every version but 5.4 and 5.5.
NotMicro == {<<0, 50400>>, <<50401, 50500>>, <<50501, Never>>}

\* The rows of the other families that the needs rest on.
LEMMA OtherRows ==
    /\ Row("SUSEFamily", "common", Always,
            {"base", "curl", "nfs-client", "systemd", "fail2ban", "openssh", "multipath-tools"})
          \in BasePackages
    /\ Row("SUSEFamily", "common", NotMicro, {"systemd-networkd", "systemd-resolved"}) \in BasePackages
    /\ Row("SUSEFamily", "common", Always, {"dracut", "dhcp-client"}) \in ImmucorePackages
    /\ Row("RedHatFamily", "common", Always,
            {"base", "nfs-utils", "systemd", "chrony", "NetworkManager", "openssh-server",
             "device-mapper-multipath"}) \in BasePackages
    /\ Row("RedHatFamily", "common", From(<<9>>), {"systemd-resolved"}) \in BasePackages
    /\ Row("Fedora", "common", Always, {"fail2ban"}) \in BasePackages
    /\ Row("RedHatFamily", "common", Always, {"dracut", "dracut-live", "dracut-network"})
          \in ImmucorePackages
    /\ Row("AlpineFamily", "common", Always,
            {"base", "curl", "nfs-utils", "fail2ban", "openssh-server", "connman",
             "openrc", "busybox-openrc", "eudev", "multipath-tools"}) \in BasePackages
BY SMT DEF BasePackages, BaseSUSE, BaseRedHat, BaseAlpine, ImmucorePackages, NotMicro

\* What is installed on every system of the SUSE family.
LEMMA SUSEFamilyHas ==
    ASSUME NEW s, NEW b, Dated(s), s.family = "SUSEFamily"
    PROVE  /\ {"systemd", "fail2ban", "openssh", "multipath-tools"} \subseteq GetPackages(s, b)
           /\ ~b.trusted => "dracut" \in GetPackages(s, b)
           /\ Place(s.version) \notin {Place(<<5, 4>>), Place(<<5, 5>>)} =>
                {"systemd-networkd", "systemd-resolved"} \subseteq GetPackages(s, b)
<1>1. Check(s.version, Always)
  BY Checks
<1>2. "SUSEFamily" \in {s.distro, s.family}
  OBVIOUS
<1>3. Place(s.version) \notin {Place(<<5, 4>>), Place(<<5, 5>>)} => Check(s.version, NotMicro)
  <2>1. Place(<<5, 4>>) = 50400 /\ Place(<<5, 5>>) = 50500
    BY PlaceOf
  <2> QED
    BY <2>1, SMT DEF Check, Dated, NotMicro
<1>4. Has(s, b, {"base", "curl", "nfs-client", "systemd", "fail2ban", "openssh", "multipath-tools"})
  BY <1>1, <1>2, Listed, OtherRows, Zenon
<1>5. ~b.trusted => Has(s, b, {"dracut", "dhcp-client"})
  BY <1>1, <1>2, Listed, OtherRows, Zenon
<1>6. Check(s.version, NotMicro)
        => Has(s, b, {"systemd-networkd", "systemd-resolved"})
  BY <1>2, Listed, OtherRows, Zenon
<1> QED
  BY <1>3, <1>4, <1>5, <1>6, SMT DEF Has

\* What is installed on every system of the RHEL family.
LEMMA RedHatFamilyHas ==
    ASSUME NEW s, NEW b, Dated(s), s.family = "RedHatFamily"
    PROVE  /\ {"systemd", "chrony", "NetworkManager", "openssh-server", "device-mapper-multipath"}
                 \subseteq GetPackages(s, b)
           /\ Check(s.version, From(<<9>>)) => "systemd-resolved" \in GetPackages(s, b)
           /\ s.distro = "Fedora" => "fail2ban" \in GetPackages(s, b)
           /\ ~b.trusted => {"dracut-live", "dracut-network"} \subseteq GetPackages(s, b)
<1>1. Check(s.version, Always)
  BY Checks
<1>2. "RedHatFamily" \in {s.distro, s.family}
  OBVIOUS
<1>3. Has(s, b, {"base", "nfs-utils", "systemd", "chrony", "NetworkManager", "openssh-server",
                 "device-mapper-multipath"})
  BY <1>1, <1>2, Listed, OtherRows, Zenon
<1>4. Check(s.version, From(<<9>>)) => Has(s, b, {"systemd-resolved"})
  BY <1>2, Listed, OtherRows, Zenon
<1>5. s.distro = "Fedora" => Has(s, b, {"fail2ban"})
  BY <1>1, Listed, OtherRows, Zenon
<1>6. ~b.trusted => Has(s, b, {"dracut", "dracut-live", "dracut-network"})
  BY <1>1, <1>2, Listed, OtherRows, Zenon
<1> QED
  BY <1>3, <1>4, <1>5, <1>6 DEF Has

\* What is installed on Alpine.
LEMMA AlpineFamilyHas ==
    ASSUME NEW s, NEW b, Dated(s), s.family = "AlpineFamily"
    PROVE  {"fail2ban", "openssh-server", "connman", "openrc", "busybox-openrc", "eudev"}
              \subseteq GetPackages(s, b)
<1>1. Check(s.version, Always)
  BY Checks
<1>2. "AlpineFamily" \in {s.distro, s.family}
  OBVIOUS
<1>3. Has(s, b, {"base", "curl", "nfs-utils", "fail2ban", "openssh-server", "connman",
                 "openrc", "busybox-openrc", "eudev", "multipath-tools"})
  BY <1>1, <1>2, Listed, OtherRows, Zenon
<1> QED
  BY <1>3 DEF Has

\* The table a build takes its kernel from.
KernelTable(b) == IF b.trusted THEN KernelPackagesTrustedBoot ELSE KernelPackages

\* The rows of a table for a system, by key.
Applies(s, r) == r.arch \in {"common", s.arch} /\ r.model = "generic"

\* The kernels of a distribution with a list of its own, and of one without.
LEMMA OwnList ==
    ASSUME NEW s, NEW b, Dated(s), b.model = "generic",
           NEW q \in KernelTable(b), q.key = s.distro, Applies(s, q)
    PROVE  \A p : p \in GetKernelPackages(s, b) <=>
              \E r \in KernelTable(b) : /\ r.key = s.distro /\ Applies(s, r)
                                       /\ Check(s.version, r.when) /\ p \in r.pkgs
<1> DEFINE all == Lists(KernelTable(b), s, "generic")
           own == {r \in all : r.key = s.distro}
<1>1. \A r : r \in own <=> r \in KernelTable(b) /\ r.key = s.distro /\ Applies(s, r)
  BY DEF Lists, Applies
<1>2. own # {}
  BY <1>1
<1>3. GetKernelPackages(s, b) = FilterPackagesOnConstraint(s, own)
  BY <1>2, Zenon DEF GetKernelPackages, KernelTable
<1> HIDE DEF own
<1> QED
  BY <1>1, <1>3 DEF FilterPackagesOnConstraint, Dated

\* A distribution without a list of its own has the kernels of its family.
LEMMA FamilyList ==
    ASSUME NEW s, NEW b, Dated(s), b.model = "generic",
           \A r \in KernelTable(b) : Applies(s, r) => r.key # s.distro
    PROVE  \A p : p \in GetKernelPackages(s, b) <=>
              \E r \in KernelTable(b) : /\ r.key = s.family /\ Applies(s, r)
                                       /\ Check(s.version, r.when) /\ p \in r.pkgs
<1> DEFINE all == Lists(KernelTable(b), s, "generic")
           own == {r \in all : r.key = s.distro}
<1>1. \A r : r \in all <=> r \in KernelTable(b) /\ r.key = s.family /\ Applies(s, r)
  BY DEF Lists, Applies
<1>2. own = {}
  BY DEF Lists, Applies
<1>3. GetKernelPackages(s, b) = FilterPackagesOnConstraint(s, all)
  BY <1>2, Zenon DEF GetKernelPackages, KernelTable
<1> HIDE DEF all
<1> QED
  BY <1>1, <1>3 DEF FilterPackagesOnConstraint, Dated

\* The rows, one by one.
LEMMA FamilyKernelRows ==
    /\ \A r \in FamilyKernels :
          \/ r.key = "OracleLinux" /\ r.arch = "amd64" /\ r.pkgs = {"kernel"}
          \/ r.key = "OracleLinux" /\ r.arch = "arm64" /\ r.pkgs = {"kernel-uek"}
          \/ r.key = "RedHatFamily" /\ r.pkgs = {"kernel"}
          \/ r.key = "AlpineFamily" /\ r.pkgs = {"linux-lts"}
          \/ r.key = "SUSEFamily" /\ r.pkgs = {"kernel-default"}
    /\ Row("OracleLinux", "amd64", Always, {"kernel"}) \in FamilyKernels
    /\ Row("OracleLinux", "arm64", Always, {"kernel-uek"}) \in FamilyKernels
    /\ Row("RedHatFamily", "common", Always, {"kernel"}) \in FamilyKernels
    /\ Row("AlpineFamily", "common", Always, {"linux-lts"}) \in FamilyKernels
    /\ Row("SUSEFamily", "common", Always, {"kernel-default"}) \in FamilyKernels
BY DEF FamilyKernels, Row, ModelRow

\* The rows of Debian: one per architecture.
LEMMA DebianKernelRows ==
    /\ \A a \in Arch : Row("Debian", a, Always, {DebianImage[a]}) \in DebianKernels(Arch)
    /\ \A a \in {"amd64", "arm64"} :
          Row("Debian", a, Always, {DebianImage[a]}) \in DebianKernels({"amd64", "arm64"})
    /\ \A r \in DebianKernels(Arch) \union DebianKernels({"amd64", "arm64"}) :
          \E a \in Arch : r = Row("Debian", a, Always, {DebianImage[a]})
BY DEF DebianKernels, Arch

\* The rows of Ubuntu: one per release with a kernel of its own.
LEMMA UbuntuKernelRows ==
    ASSUME NEW a
    PROVE  /\ \A v \in Lts : Row("Ubuntu", a, OneOf({v}), {Hwe(v)}) \in UbuntuKernels(a)
           /\ Row("Ubuntu", a, OneOf({<<24, 10>>, <<25, 4>>, <<25, 10>>}), {Hwe(<<24, 4>>)})
                 \in UbuntuKernels(a)
           /\ Row("Ubuntu", a, OneOf({<<26, 4>>}), {"linux-image-generic"}) \in UbuntuKernels(a)
           /\ \A r \in UbuntuKernels(a) :
                 \/ \E v \in Lts : r = Row("Ubuntu", a, OneOf({v}), {Hwe(v)})
                 \/ r = Row("Ubuntu", a, OneOf({<<24, 10>>, <<25, 4>>, <<25, 10>>}), {Hwe(<<24, 4>>)})
                 \/ r = Row("Ubuntu", a, OneOf({<<26, 4>>}), {"linux-image-generic"})
BY DEF UbuntuKernels

-----------------------------------------------------------------------------
(* One kernel: without a board ...                                         *)

\* The constraint "one of these releases".
LEMMA CheckOneOf ==
    ASSUME NEW s, Dated(s), NEW vs, \A w \in vs : Place(w) \in Nat
    PROVE  Check(s.version, OneOf(vs)) <=> \E w \in vs : Place(s.version) = Place(w)
<1> DEFINE p == Place(s.version)
<1>1. p \in Nat
  BY DEF Dated
<1> HIDE DEF p
<1>2. \A w \in vs : (Place(w) <= p /\ p < Place(w) + 1) <=> p = Place(w)
  BY <1>1, SMT
<1>3. Check(s.version, OneOf(vs)) <=> \E w \in vs : Place(w) <= p /\ p < Place(w) + 1
  <2>1. Check(s.version, OneOf(vs)) <=> \E i \in OneOf(vs) : i[1] <= p /\ p < i[2]
    BY DEF Check, p
  <2> DEFINE f(w) == <<Place(w), Place(w) + 1>>
  <2>2. \A i : i \in OneOf(vs) <=> \E w \in vs : i = f(w)
    BY DEF OneOf
  <2>3. \A w : f(w)[1] = Place(w) /\ f(w)[2] = Place(w) + 1
    OBVIOUS
  <2> HIDE DEF f
  <2>4. (\E i \in OneOf(vs) : i[1] <= p /\ p < i[2]) <=> \E w \in vs : f(w)[1] <= p /\ p < f(w)[2]
    BY <2>2, Zenon
  <2> QED
    BY <2>1, <2>3, <2>4
<1> QED
  BY <1>2, <1>3 DEF p

\* The packages of a kernel list are this kernel alone.
Kernel(s, b, k) == GetKernelPackages(s, b) = {k}

\* A list of its own whose rows for this system agree names one kernel.
LEMMA OwnKernel ==
    ASSUME NEW s, NEW b, Dated(s), b.model = "generic", NEW k,
           NEW q \in KernelTable(b), q.key = s.distro, Applies(s, q),
           Check(s.version, q.when), q.pkgs = {k},
           \A r \in KernelTable(b) : r.key = s.distro /\ Applies(s, r) /\ Check(s.version, r.when)
                => r.pkgs = {k}
    PROVE  Kernel(s, b, k)
<1>1. \A p : p \in GetKernelPackages(s, b) <=>
              \E r \in KernelTable(b) : /\ r.key = s.distro /\ Applies(s, r)
                                       /\ Check(s.version, r.when) /\ p \in r.pkgs
  BY OwnList
<1> QED
  BY <1>1 DEF Kernel

\* And so does the list of the family.
LEMMA FamilyKernel ==
    ASSUME NEW s, NEW b, Dated(s), b.model = "generic", NEW k,
           \A r \in KernelTable(b) : Applies(s, r) => r.key # s.distro,
           NEW q \in KernelTable(b), q.key = s.family, Applies(s, q),
           Check(s.version, q.when), q.pkgs = {k},
           \A r \in KernelTable(b) : r.key = s.family /\ Applies(s, r) /\ Check(s.version, r.when)
                => r.pkgs = {k}
    PROVE  Kernel(s, b, k)
<1>1. \A p : p \in GetKernelPackages(s, b) <=>
              \E r \in KernelTable(b) : /\ r.key = s.family /\ Applies(s, r)
                                       /\ Check(s.version, r.when) /\ p \in r.pkgs
  BY FamilyList
<1> QED
  BY <1>1 DEF Kernel

\* What a table holds.
LEMMA TableRows ==
    ASSUME NEW b, NEW r \in KernelTable(b)
    PROVE  \/ r \in FamilyKernels
           \/ \E a \in Arch : r = Row("Debian", a, Always, {DebianImage[a]})
           \/ b.trusted /\ r = Row("Ubuntu", "common", Always, {Hwe(<<24, 4>>)})
           \/ ~b.trusted /\ r = Row("Ubuntu", "riscv64", Always, {"linux-image-generic"})
           \/ ~b.trusted /\ \E a \in {"amd64", "arm64"} : r \in UbuntuKernels(a)
<1>1. CASE r \in DebianKernels(Arch) \union DebianKernels({"amd64", "arm64"})
  BY <1>1, DebianKernelRows
<1>2. CASE b.trusted /\ r \notin DebianKernels({"amd64", "arm64"})
  BY <1>2 DEF KernelTable, KernelPackagesTrustedBoot
<1>3. CASE ~b.trusted /\ r \notin DebianKernels(Arch)
  BY <1>3 DEF KernelTable, KernelPackages
<1> QED
  BY <1>1, <1>2, <1>3

\* What a table is sure to hold, for trusted boot or without.
LEMMA InTable ==
    ASSUME NEW b
    PROVE  /\ FamilyKernels \subseteq KernelTable(b)
           /\ \A a \in Arch : ~b.trusted \/ a # "riscv64" =>
                 Row("Debian", a, Always, {DebianImage[a]}) \in KernelTable(b)
           /\ b.trusted => Row("Ubuntu", "common", Always, {Hwe(<<24, 4>>)}) \in KernelTable(b)
           /\ ~b.trusted =>
                /\ Row("Ubuntu", "riscv64", Always, {"linux-image-generic"}) \in KernelTable(b)
                /\ \A a \in {"amd64", "arm64"} : UbuntuKernels(a) \subseteq KernelTable(b)
<1>1. /\ FamilyKernels \subseteq KernelTable(b)
      /\ b.trusted => Row("Ubuntu", "common", Always, {Hwe(<<24, 4>>)}) \in KernelTable(b)
  BY DEF KernelTable, KernelPackages, KernelPackagesTrustedBoot
<1>2. ASSUME NEW a \in Arch, ~b.trusted \/ a # "riscv64"
      PROVE  Row("Debian", a, Always, {DebianImage[a]}) \in KernelTable(b)
  <2>1. b.trusted => a \in {"amd64", "arm64"}
    BY <1>2 DEF Arch
  <2> QED
    BY <2>1, DebianKernelRows DEF KernelTable, KernelPackages, KernelPackagesTrustedBoot
<1>3. ~b.trusted =>
                /\ Row("Ubuntu", "riscv64", Always, {"linux-image-generic"}) \in KernelTable(b)
                /\ \A a \in {"amd64", "arm64"} : UbuntuKernels(a) \subseteq KernelTable(b)
  BY DEF KernelTable, KernelPackages
<1> QED
  BY <1>1, <1>2, <1>3

\* The releases between two LTS.
MidReleases == {<<24, 10>>, <<25, 4>>, <<25, 10>>}

\* The lists of both tables, by their fields.
LEMMA TableFields ==
    ASSUME NEW b, NEW r \in KernelTable(b)
    PROVE  \/ r.key = "OracleLinux" /\ r.arch = "amd64" /\ r.pkgs = {"kernel"}
           \/ r.key = "OracleLinux" /\ r.arch = "arm64" /\ r.pkgs = {"kernel-uek"}
           \/ r.key = "RedHatFamily" /\ r.pkgs = {"kernel"}
           \/ r.key = "AlpineFamily" /\ r.pkgs = {"linux-lts"}
           \/ r.key = "SUSEFamily" /\ r.pkgs = {"kernel-default"}
           \/ r.key = "Debian" /\ r.arch \in Arch /\ r.pkgs = {DebianImage[r.arch]}
           \/ b.trusted /\ r.key = "Ubuntu" /\ r.pkgs = {Hwe(<<24, 4>>)}
           \/ ~b.trusted /\ r.key = "Ubuntu" /\ r.arch = "riscv64" /\ r.pkgs = {"linux-image-generic"}
           \/ /\ ~b.trusted /\ r.key = "Ubuntu" /\ r.arch \in {"amd64", "arm64"}
              /\ \/ \E v \in Lts : r.when = OneOf({v}) /\ r.pkgs = {Hwe(v)}
                 \/ r.when = OneOf(MidReleases) /\ r.pkgs = {Hwe(<<24, 4>>)}
                 \/ r.when = OneOf({<<26, 4>>}) /\ r.pkgs = {"linux-image-generic"}
<1>1. CASE r \in FamilyKernels
  BY <1>1, FamilyKernelRows
<1>2. CASE \E a \in Arch : r = Row("Debian", a, Always, {DebianImage[a]})
  BY <1>2, RowIs
<1>3. CASE b.trusted /\ r = Row("Ubuntu", "common", Always, {Hwe(<<24, 4>>)})
  BY <1>3, RowIs
<1>4. CASE ~b.trusted /\ r = Row("Ubuntu", "riscv64", Always, {"linux-image-generic"})
  BY <1>4, RowIs
<1>5. CASE ~b.trusted /\ \E a \in {"amd64", "arm64"} : r \in UbuntuKernels(a)
  <2>1. PICK a \in {"amd64", "arm64"} : r \in UbuntuKernels(a)
    BY <1>5
  <2>2. CASE \E v \in Lts : r = Row("Ubuntu", a, OneOf({v}), {Hwe(v)})
    <3>1. PICK v \in Lts : r = Row("Ubuntu", a, OneOf({v}), {Hwe(v)})
      BY <2>2
    <3>2. /\ r.key = "Ubuntu" /\ r.arch = a /\ r.when = OneOf({v}) /\ r.pkgs = {Hwe(v)}
      BY <3>1, RowIs
    <3>3. a \in {"amd64", "arm64"} /\ v \in Lts
      BY <2>1, <3>1
    <3> QED
      BY <1>5, <3>2, <3>3, Zenon
  <2>3. CASE r = Row("Ubuntu", a, OneOf(MidReleases), {Hwe(<<24, 4>>)})
    BY <1>5, <2>3, RowIs
  <2>4. CASE r = Row("Ubuntu", a, OneOf({<<26, 4>>}), {"linux-image-generic"})
    BY <1>5, <2>4, RowIs
  <2> QED
    BY <2>1, <2>2, <2>3, <2>4, UbuntuKernelRows DEF MidReleases
<1> QED
  BY <1>1, <1>2, <1>3, <1>4, <1>5, TableRows

\* Debian has the image of its architecture.
LEMMA DebianKernel ==
    ASSUME NEW s, NEW b, Dated(s), b.model = "generic",
           s.distro = "Debian", s.family = "DebianFamily", s.arch \in Arch,
           b.trusted => s.arch # "riscv64"
    PROVE  Kernel(s, b, DebianImage[s.arch])
<1> DEFINE q == Row("Debian", s.arch, Always, {DebianImage[s.arch]})
           k == DebianImage[s.arch]
<1>1. q.key = s.distro /\ q.arch = s.arch /\ q.model = "generic" /\ q.when = Always /\ q.pkgs = {k}
  BY RowIs
<1>2. q \in KernelTable(b)
  BY InTable
<1> HIDE DEF q
<1>3. Applies(s, q) /\ Check(s.version, q.when)
  BY <1>1, Checks DEF Applies
<1>4. ASSUME NEW r \in KernelTable(b), r.key = s.distro, Applies(s, r)
      PROVE  r.pkgs = {k}
  <2>1. r.arch \in Arch /\ r.pkgs = {DebianImage[r.arch]}
    BY <1>4, TableFields
  <2>2. r.arch = s.arch
    BY <1>4, <2>1 DEF Applies, Arch
  <2> QED
    BY <2>1, <2>2
<1> HIDE DEF k
<1>5. Kernel(s, b, k)
  BY <1>1, <1>2, <1>3, <1>4, OwnKernel
<1> QED
  BY <1>5 DEF k

\* Oracle Linux has the kernel of its family, or its own on arm64.
LEMMA OracleKernel ==
    ASSUME NEW s, NEW b, Dated(s), b.model = "generic",
           s.distro = "OracleLinux", s.family = "RedHatFamily", s.arch \in {"amd64", "arm64"},
           NEW k, k = IF s.arch = "amd64" THEN "kernel" ELSE "kernel-uek"
    PROVE  Kernel(s, b, k)
<1> DEFINE q == Row("OracleLinux", s.arch, Always, {k})
<1>1. q.key = s.distro /\ q.arch = s.arch /\ q.model = "generic" /\ q.when = Always /\ q.pkgs = {k}
  BY RowIs
<1>2. q \in KernelTable(b)
  BY InTable, FamilyKernelRows
<1> HIDE DEF q
<1>3. Applies(s, q) /\ Check(s.version, q.when)
  BY <1>1, Checks DEF Applies
<1>4. ASSUME NEW r \in KernelTable(b), r.key = s.distro, Applies(s, r)
      PROVE  r.pkgs = {k}
  BY <1>4, TableFields DEF Applies
<1> QED
  BY <1>1, <1>2, <1>3, <1>4, OwnKernel

\* The kernel of a family.
FamilyKernelName == [RedHatFamily |-> "kernel", AlpineFamily |-> "linux-lts",
                     SUSEFamily |-> "kernel-default"]

\* A distribution the tables do not name has the kernel of its family.
LEMMA FamilyKernelOf ==
    ASSUME NEW s, NEW b, Dated(s), b.model = "generic",
           s.distro \notin {"Debian", "Ubuntu", "RedHatFamily", "AlpineFamily", "SUSEFamily"},
           s.family \in {"RedHatFamily", "AlpineFamily", "SUSEFamily"},
           s.distro = "OracleLinux" => s.arch = "riscv64"
    PROVE  Kernel(s, b, FamilyKernelName[s.family])
<1> DEFINE k == FamilyKernelName[s.family]
           q == Row(s.family, "common", Always, {k})
<1>1. q.key = s.family /\ q.arch = "common" /\ q.model = "generic" /\ q.when = Always /\ q.pkgs = {k}
  BY RowIs
<1>2. q \in KernelTable(b)
  <2>1. FamilyKernelName["RedHatFamily"] = "kernel" /\ FamilyKernelName["AlpineFamily"] = "linux-lts"
        /\ FamilyKernelName["SUSEFamily"] = "kernel-default"
    BY DEF FamilyKernelName
  <2>2. q \in FamilyKernels
    BY <2>1, FamilyKernelRows, Zenon
  <2> QED
    BY <2>2, InTable
<1> HIDE DEF q
<1>3. Applies(s, q) /\ Check(s.version, q.when)
  BY <1>1, Checks DEF Applies
<1>4. ASSUME NEW r \in KernelTable(b), r.key = s.family
      PROVE  r.pkgs = {k}
  BY <1>4, TableFields DEF FamilyKernelName
<1>5. ASSUME NEW r \in KernelTable(b), Applies(s, r)
      PROVE  r.key # s.distro
  BY <1>5, TableFields DEF Applies
<1> HIDE DEF k
<1>6. Kernel(s, b, k)
  BY <1>1, <1>2, <1>3, <1>4, <1>5, FamilyKernel
<1> QED
  BY <1>6 DEF k

\* Those the project tests, and those the table knows.
Releases == Lts \union UbuntuReleases

\* No two releases have the same place.
LEMMA PlacesApart ==
    ASSUME NEW v \in Releases, NEW w \in Releases
    PROVE  Place(v) \in Nat /\ (Place(v) = Place(w) => v = w)
BY PlaceOf, SMT DEF Releases, Lts, UbuntuReleases

\* A release satisfies the constraints that name it, and no other.
LEMMA CheckRelease ==
    ASSUME NEW s, Dated(s), NEW w \in Releases, Place(s.version) = Place(w),
           NEW vs, vs \subseteq Releases
    PROVE  Check(s.version, OneOf(vs)) <=> w \in vs
<1>1. \A v \in vs : Place(v) \in Nat /\ (Place(v) = Place(w) => v = w)
  BY PlacesApart
<1> QED
  BY <1>1, CheckOneOf

\* Each release is an LTS, one between two of them, or 26.04.
LEMMA ReleaseKinds ==
    /\ Releases = Lts \union MidReleases \union {<<26, 4>>}
    /\ Lts \intersect MidReleases = {} /\ <<26, 4>> \notin Lts /\ <<26, 4>> \notin MidReleases
BY SMT DEF Releases, Lts, UbuntuReleases, MidReleases

\* The kernels that need no repository of their own.
StockKernels == Kernels \ Foreign

\* The kernels that come from the repositories of the system.
LEMMA StockNames ==
    /\ \A v \in Lts : Hwe(v) \in StockKernels
    /\ \A a \in Arch : DebianImage[a] \in StockKernels
    /\ {"linux-image-generic", "kernel", "linux-lts", "kernel-default", "linux-rpi", "linux-raspi",
         "linux-image-arm64"} \subseteq StockKernels
BY KernelNames DEF StockKernels, Foreign, Lts, Arch

\* Every release of Ubuntu has one kernel, on every architecture.
LEMMA UbuntuKernel ==
    ASSUME NEW s, NEW b, Dated(s), b.model = "generic",
           s.distro = "Ubuntu", s.family = "DebianFamily", s.arch \in Arch,
           NEW w \in UbuntuReleases, Place(s.version) = Place(w)
    PROVE  \E k \in StockKernels : Kernel(s, b, k)
<1> USE DEF Applies
<1>0. w \in Releases
  BY DEF Releases
<1>1. CASE b.trusted
  <2> DEFINE k == Hwe(<<24, 4>>)
             q == Row("Ubuntu", "common", Always, {k})
  <2>1. q \in KernelTable(b)
    BY <1>1, InTable
  <2>2. q.key = "Ubuntu" /\ q.arch = "common" /\ q.model = "generic" /\ q.when = Always /\ q.pkgs = {k}
    BY RowIs
  <2>3. k \in StockKernels
    BY StockNames DEF Lts
  <2> HIDE DEF q, k
  <2>4. \A r \in KernelTable(b) : r.key = "Ubuntu" => r.pkgs = {k}
    BY <1>1, TableFields DEF k
  <2>5. Check(s.version, q.when)
    BY <2>2, Checks
  <2> QED
    BY <2>1, <2>2, <2>3, <2>4, <2>5, OwnKernel
<1>2. CASE ~b.trusted /\ s.arch = "riscv64"
  <2> DEFINE k == "linux-image-generic"
             q == Row("Ubuntu", "riscv64", Always, {k})
  <2>1. q \in KernelTable(b)
    BY <1>2, InTable
  <2>2. q.key = "Ubuntu" /\ q.arch = "riscv64" /\ q.model = "generic" /\ q.when = Always /\ q.pkgs = {k}
    BY RowIs
  <2>3. k \in StockKernels
    BY StockNames
  <2> HIDE DEF q
  <2>4. \A r \in KernelTable(b) : r.key = "Ubuntu" /\ Applies(s, r) => r.pkgs = {k}
    BY <1>2, TableFields DEF k
  <2> HIDE DEF k
  <2>5. Check(s.version, q.when)
    BY <2>2, Checks
  <2> QED
    BY <1>2, <2>1, <2>2, <2>3, <2>4, <2>5, OwnKernel
<1>3. CASE ~b.trusted /\ s.arch \in {"amd64", "arm64"}
  <2>1. UbuntuKernels(s.arch) \subseteq KernelTable(b)
    BY <1>3, InTable
  <2>2. \A vs : vs \subseteq Releases => (Check(s.version, OneOf(vs)) <=> w \in vs)
    BY <1>0, CheckRelease
  <2>3. MidReleases \subseteq Releases /\ {<<26, 4>>} \subseteq Releases
        /\ \A v \in Lts : {v} \subseteq Releases
    BY ReleaseKinds
  <2>4. \A r \in KernelTable(b) : r.key = "Ubuntu" /\ Applies(s, r) /\ Check(s.version, r.when) =>
            \/ w \in Lts /\ r.pkgs = {Hwe(w)}
            \/ w \in MidReleases /\ r.pkgs = {Hwe(<<24, 4>>)}
            \/ w = <<26, 4>> /\ r.pkgs = {"linux-image-generic"}
    <3> SUFFICES ASSUME NEW r \in KernelTable(b), r.key = "Ubuntu", Applies(s, r),
                        Check(s.version, r.when)
                 PROVE  \/ w \in Lts /\ r.pkgs = {Hwe(w)}
                        \/ w \in MidReleases /\ r.pkgs = {Hwe(<<24, 4>>)}
                        \/ w = <<26, 4>> /\ r.pkgs = {"linux-image-generic"}
      OBVIOUS
    <3>1. \/ \E v \in Lts : r.when = OneOf({v}) /\ r.pkgs = {Hwe(v)}
          \/ r.when = OneOf(MidReleases) /\ r.pkgs = {Hwe(<<24, 4>>)}
          \/ r.when = OneOf({<<26, 4>>}) /\ r.pkgs = {"linux-image-generic"}
      BY <1>3, TableFields
    <3>2. CASE \E v \in Lts : r.when = OneOf({v}) /\ r.pkgs = {Hwe(v)}
      BY <3>2, <2>2, <2>3, Zenon
    <3>3. CASE r.when = OneOf(MidReleases) /\ r.pkgs = {Hwe(<<24, 4>>)}
      BY <3>3, <2>2, <2>3, Zenon
    <3>4. CASE r.when = OneOf({<<26, 4>>}) /\ r.pkgs = {"linux-image-generic"}
      BY <3>4, <2>2, <2>3, Zenon
    <3> QED
      BY <3>1, <3>2, <3>3, <3>4
  <2>5. ASSUME NEW vs, vs \subseteq Releases, w \in vs, NEW k \in StockKernels,
               Row("Ubuntu", s.arch, OneOf(vs), {k}) \in UbuntuKernels(s.arch),
               \A r \in KernelTable(b) : r.key = "Ubuntu" /\ Applies(s, r) /\ Check(s.version, r.when)
                   => r.pkgs = {k}
        PROVE  Kernel(s, b, k)
    <3> DEFINE q == Row("Ubuntu", s.arch, OneOf(vs), {k})
    <3>1. q.key = "Ubuntu" /\ q.arch = s.arch /\ q.model = "generic" /\ q.when = OneOf(vs) /\ q.pkgs = {k}
      BY RowIs
    <3>2. q \in KernelTable(b)
      BY <2>1, <2>5
    <3> HIDE DEF q
    <3>3. Check(s.version, q.when)
      BY <2>2, <2>5, <3>1
    <3> QED
      BY <2>5, <3>1, <3>2, <3>3, OwnKernel
  <2>6. CASE w \in Lts
    <3>1. Hwe(w) \in StockKernels
      BY <2>6, StockNames
    <3>2. Row("Ubuntu", s.arch, OneOf({w}), {Hwe(w)}) \in UbuntuKernels(s.arch)
      BY <2>6, UbuntuKernelRows
    <3>3. w \notin MidReleases /\ w # <<26, 4>>
      BY <2>6, ReleaseKinds
    <3>4. \A r \in KernelTable(b) : r.key = "Ubuntu" /\ Applies(s, r) /\ Check(s.version, r.when)
                   => r.pkgs = {Hwe(w)}
      BY <2>4, <3>3, Zenon
    <3>5. {w} \subseteq Releases /\ w \in {w}
      BY <1>0
    <3> QED
      BY <2>5, <3>1, <3>2, <3>4, <3>5, Zenon
  <2>7. CASE w \in MidReleases
    <3>1. Hwe(<<24, 4>>) \in StockKernels
      BY StockNames DEF Lts
    <3>2. Row("Ubuntu", s.arch, OneOf(MidReleases), {Hwe(<<24, 4>>)}) \in UbuntuKernels(s.arch)
      BY UbuntuKernelRows DEF MidReleases
    <3>3. w \notin Lts /\ w # <<26, 4>>
      BY <2>7, ReleaseKinds
    <3>4. \A r \in KernelTable(b) : r.key = "Ubuntu" /\ Applies(s, r) /\ Check(s.version, r.when)
                   => r.pkgs = {Hwe(<<24, 4>>)}
      BY <2>4, <3>3, Zenon
    <3> QED
      BY <2>3, <2>5, <2>7, <3>1, <3>2, <3>4, Zenon
  <2>8. CASE w = <<26, 4>>
    <3>1. "linux-image-generic" \in StockKernels
      BY StockNames
    <3>2. Row("Ubuntu", s.arch, OneOf({<<26, 4>>}), {"linux-image-generic"}) \in UbuntuKernels(s.arch)
      BY UbuntuKernelRows
    <3>3. w \notin Lts /\ w \notin MidReleases
      BY <2>8, ReleaseKinds
    <3>4. \A r \in KernelTable(b) : r.key = "Ubuntu" /\ Applies(s, r) /\ Check(s.version, r.when)
                   => r.pkgs = {"linux-image-generic"}
      BY <2>4, <3>3, Zenon
    <3>5. w \in {<<26, 4>>}
      BY <2>8
    <3> QED
      BY <2>3, <2>5, <3>1, <3>2, <3>4, <3>5, Zenon
  <2> QED
    BY <1>0, <2>6, <2>7, <2>8, ReleaseKinds
<1> QED
  BY <1>1, <1>2, <1>3 DEF Arch

-----------------------------------------------------------------------------
(* ... and on each board.                                                  *)

\* The kernels of a Raspberry Pi, by the key of their list.
PiKernelName == [Debian |-> "linux-image-arm64", Arch |-> "linux-rpi", Ubuntu |-> "linux-raspi",
                 SUSEFamily |-> "kernel-default", AlpineFamily |-> "linux-rpi"]
PiKeys == {"Debian", "Arch", "Ubuntu", "SUSEFamily", "AlpineFamily"}

\* A row per key, each with one kernel.
LEMMA PiRows ==
    ASSUME NEW m
    PROVE  /\ \A r \in PiKernels(m) : /\ r.key \in PiKeys /\ r.arch = "arm64" /\ r.model = m
                                      /\ r.when = Always /\ r.pkgs = {PiKernelName[r.key]}
           /\ \A key \in PiKeys : \E r \in PiKernels(m) : r.key = key
<1> DEFINE pairs == {<<"Debian", "linux-image-arm64">>, <<"Arch", "linux-rpi">>,
                     <<"Ubuntu", "linux-raspi">>, <<"SUSEFamily", "kernel-default">>,
                     <<"AlpineFamily", "linux-rpi">>}
           row(k) == ModelRow(k[1], "arm64", m, Always, {k[2]})
<1>1. \A k \in pairs : k[1] \in PiKeys /\ k[2] = PiKernelName[k[1]]
  BY DEF PiKeys, PiKernelName
<1>2. \A key \in PiKeys : \E k \in pairs : k[1] = key
  BY DEF PiKeys
<1>3. PiKernels(m) = {row(k) : k \in pairs}
  BY DEF PiKernels
<1>4. \A k : /\ row(k).key = k[1] /\ row(k).arch = "arm64" /\ row(k).model = m
             /\ row(k).when = Always /\ row(k).pkgs = {k[2]}
  BY DEF ModelRow
<1> HIDE DEF pairs, row
<1>5. /\ \A r \in PiKernels(m) : \E k \in pairs : r = row(k)
      /\ \A k \in pairs : row(k) \in PiKernels(m)
  BY <1>3
<1> QED
  BY <1>1, <1>2, <1>4, <1>5

\* The rows of the Jetson boards.
LEMMA JetsonRows ==
    /\ \A r \in JetsonKernels :
          /\ r.key = "Ubuntu" /\ r.arch = "arm64" /\ r.model \in Jetson /\ r.when = Always
          /\ r.pkgs \subseteq {"nvidia-l4t-kernel", "nvidia-l4t-bootloader", "cuda", "libopencv-dev"}
          /\ "nvidia-l4t-kernel" \in r.pkgs
          /\ "cuda" \in r.pkgs => r.model # "thor"
    /\ \A m \in Jetson : \E r \in JetsonKernels : r.model = m
<1> DEFINE orin(m) == ModelRow("Ubuntu", "arm64", m, Always,
                 {"nvidia-l4t-kernel", "nvidia-l4t-bootloader", "cuda", "libopencv-dev"})
           thor == ModelRow("Ubuntu", "arm64", "thor", Always,
                 {"nvidia-l4t-kernel", "nvidia-l4t-bootloader"})
<1>1. \A r : r \in JetsonKernels <=> r = orin("agx-orin") \/ r = orin("orin-nx") \/ r = thor
  BY DEF JetsonKernels
<1>2. /\ thor.key = "Ubuntu" /\ thor.arch = "arm64" /\ thor.model = "thor" /\ thor.when = Always
      /\ thor.pkgs = {"nvidia-l4t-kernel", "nvidia-l4t-bootloader"}
  BY DEF ModelRow
<1>3. \A m : /\ orin(m).key = "Ubuntu" /\ orin(m).arch = "arm64" /\ orin(m).model = m
             /\ orin(m).when = Always
             /\ orin(m).pkgs = {"nvidia-l4t-kernel", "nvidia-l4t-bootloader", "cuda", "libopencv-dev"}
  BY DEF ModelRow
<1> HIDE DEF orin, thor
<1> QED
  BY <1>1, <1>2, <1>3 DEF Jetson, Orin

\* The kernels of a board come from the table of the boards alone.
LEMMA ModelList ==
    ASSUME NEW s, NEW b, Dated(s), b.model # "generic"
    PROVE  \A p : p \in GetKernelPackages(s, b) <=>
              \E r \in KernelPackagesModels : /\ r.key \in {s.distro, s.family}
                                             /\ r.arch \in {"common", s.arch} /\ r.model = b.model
                                             /\ Check(s.version, r.when) /\ p \in r.pkgs
<1> DEFINE rows == Lists(KernelPackagesModels, s, b.model)
<1>1. \A r : r \in rows <=> /\ r \in KernelPackagesModels /\ r.key \in {s.distro, s.family}
                            /\ r.arch \in {"common", s.arch} /\ r.model = b.model
  BY DEF Lists
<1>2. GetKernelPackages(s, b) = FilterPackagesOnConstraint(s, rows)
  BY Zenon DEF GetKernelPackages
<1> HIDE DEF rows
<1> QED
  BY <1>1, <1>2 DEF FilterPackagesOnConstraint, Dated

\* A Raspberry Pi has one kernel if one of its keys fits the system.
LEMMA PiKernel ==
    ASSUME NEW s, NEW b, Dated(s), b.model \in {"rpi3", "rpi4"}, s.arch = "arm64",
           NEW key \in PiKeys, key \in {s.distro, s.family},
           {s.distro, s.family} \intersect PiKeys = {key}
    PROVE  Kernel(s, b, PiKernelName[key])
<1> DEFINE k == PiKernelName[key]
<1>1. PICK q \in PiKernels(b.model) : q.key = key
  BY PiRows
<1>2. q \in KernelPackagesModels
  BY <1>1 DEF KernelPackagesModels
<1>3. q.arch = "arm64" /\ q.model = b.model /\ q.pkgs = {k} /\ Check(s.version, q.when)
  BY <1>1, PiRows, Checks
<1>4. ASSUME NEW r \in KernelPackagesModels, r.key \in {s.distro, s.family}, r.model = b.model
      PROVE  r.pkgs = {k}
  <2>1. r \notin JetsonKernels
    BY <1>4, JetsonRows DEF Jetson, Orin
  <2>2. r \in PiKernels("rpi3") \union PiKernels("rpi4")
    BY <2>1 DEF KernelPackagesModels
  <2>3. r.key \in PiKeys /\ r.pkgs = {PiKernelName[r.key]}
    BY <2>2, PiRows
  <2> QED
    BY <1>4, <2>3
<1> HIDE DEF k
<1>5. \A p : p \in GetKernelPackages(s, b) <=> p = k
  BY <1>1, <1>2, <1>3, <1>4, ModelList
<1>6. Kernel(s, b, k)
  BY <1>5 DEF Kernel
<1> QED
  BY <1>6 DEF k

\* The kernel packages of a Jetson board.
LEMMA JetsonKernel ==
    ASSUME NEW s, NEW b, Dated(s), b.model \in Jetson, s.arch = "arm64",
           s.distro = "Ubuntu"
    PROVE  /\ GetKernelPackages(s, b) \subseteq
                 {"nvidia-l4t-kernel", "nvidia-l4t-bootloader", "cuda", "libopencv-dev"}
           /\ "nvidia-l4t-kernel" \in GetKernelPackages(s, b)
           /\ "cuda" \in GetKernelPackages(s, b) => b.model # "thor"
<1>0. b.model # "generic" /\ b.model \notin {"rpi3", "rpi4"}
  BY DEF Jetson, Orin
<1>1. PICK q \in JetsonKernels : q.model = b.model
  BY JetsonRows
<1>2. q \in KernelPackagesModels
  BY <1>1 DEF KernelPackagesModels
<1>3. /\ q.key = s.distro /\ q.arch = s.arch /\ Check(s.version, q.when)
      /\ "nvidia-l4t-kernel" \in q.pkgs
  BY <1>1, JetsonRows, Checks
<1>4. \A r \in KernelPackagesModels : r.model = b.model => r \in JetsonKernels
  BY <1>0, PiRows DEF KernelPackagesModels
<1> QED
  BY <1>0, <1>1, <1>2, <1>3, <1>4, JetsonRows, ModelList

\* The DGX Spark has no row in the kernel tables.
LEMMA NoKernelList ==
    ASSUME NEW s, NEW b, Dated(s), b.model = "dgx-spark"
    PROVE  GetKernelPackages(s, b) = {}
<1>1. \A r \in KernelPackagesModels : r.model # b.model
  BY PiRows, JetsonRows DEF KernelPackagesModels, Jetson, Orin
<1> QED
  BY <1>1, ModelList

\* Its kernel is in the base tables.
LEMMA SparkKernel ==
    ASSUME NEW s, NEW b, Dated(s), b.model = "dgx-spark", s.arch = "arm64", s.distro = "Ubuntu"
    PROVE  "linux-image-nvidia-hwe-24.04" \in GetPackages(s, b)
<1> DEFINE r == ModelRow("Ubuntu", "arm64", "dgx-spark", Always, {"base", "linux-image-nvidia-hwe-24.04"})
<1>1. r \in BasePackagesModels
  BY DEF BasePackagesModels
<1>2. /\ r.key = s.distro /\ r.arch = s.arch /\ r.model = b.model
      /\ r.when = Always /\ "linux-image-nvidia-hwe-24.04" \in r.pkgs
  BY RowFields
<1> HIDE DEF r
<1>3. r \in Lists(BasePackagesModels, s, b.model)
  BY <1>1, <1>2 DEF Lists
<1>4. Check(s.version, r.when)
  BY <1>2, Checks
<1>5. \A rows : r \in rows => "linux-image-nvidia-hwe-24.04" \in FilterPackagesOnConstraint(s, rows)
  BY <1>2, <1>4 DEF FilterPackagesOnConstraint, Dated
<1> QED
  BY <1>3, <1>5 DEF GetPackages

\* What a supported build asks the tables: its system, as detected.
LEMMA SystemOf ==
    ASSUME NEW b, IsBuild(b), SupportedBuild(b)
    PROVE  LET s == DetectSystem(b.os, b.arch)
           IN  /\ Dated(s) /\ s.arch = b.arch /\ s.arch \in Arch
               /\ <<s.distro, s.family, s.name>> \in TestedSystems
               /\ b.arch \in RequiredArch(b.model)
               /\ b.trusted => b.arch # "riscv64"
               /\ TestedModel(s, b.model) /\ TestedRelease(s)
<1> DEFINE s == DetectSystem(b.os, b.arch)
<1>1. s.arch = b.arch
  BY DEF DetectSystem
<1> HIDE DEF s
<1>2. /\ <<s.distro, s.family, s.name>> \in TestedSystems
      /\ b.arch \in RequiredArch(b.model)
      /\ b.trusted => b.arch # "riscv64"
      /\ TestedModel(s, b.model) /\ TestedRelease(s)
  BY DEF SupportedBuild, s
<1>3. Dated(s)
  BY <1>2 DEF TestedRelease, Dated
<1>4. b.arch \in Arch
  BY DEF IsBuild
<1> QED
  BY <1>1, <1>2, <1>3, <1>4 DEF s

\* The tested systems, by distribution, family and name.
LEMMA SystemKinds ==
    ASSUME NEW d, NEW f, NEW n, <<d, f, n>> \in TestedSystems
    PROVE  \/ d = "Ubuntu" /\ f = "DebianFamily" /\ n = "Ubuntu"
           \/ d = "Debian" /\ f = "DebianFamily" /\ n = "Debian"
           \/ /\ d \in {"Fedora", "RedHat", "RockyLinux", "AlmaLinux", "OracleLinux"} /\ f = "RedHatFamily"
              /\ n \in {"Fedora", "Red Hat", "CentOS", "Rocky", "AlmaLinux", "Oracle Linux"}
              /\ d = "Fedora" <=> n = "Fedora"
              /\ d = "OracleLinux" <=> n = "Oracle Linux"
           \/ /\ d \in {"SLES", "OpenSUSELeap", "OpenSUSETumbleweed", "SLEMicroRancher"} /\ f = "SUSEFamily"
              /\ n \in {"SLES", "openSUSE Leap", "openSUSE Tumbleweed", "SLE Micro"}
              /\ d = "SLEMicroRancher" <=> n = "SLE Micro"
           \/ d = "Alpine" /\ f = "AlpineFamily" /\ n = "Alpine"
BY DEF TestedSystems

\* Without a board, the table has one kernel for every tested system.
LEMMA GenericKernel ==
    ASSUME NEW s, NEW b, Dated(s), b.model = "generic", s.arch \in Arch,
           <<s.distro, s.family, s.name>> \in TestedSystems, TestedRelease(s),
           b.trusted => s.arch # "riscv64"
    PROVE  \/ \E k \in StockKernels : Kernel(s, b, k)
           \/ Kernel(s, b, "kernel-uek") /\ s.distro = "OracleLinux" /\ s.arch = "arm64"
<1>1. CASE s.distro = "Ubuntu"
  <2>1. s.family = "DebianFamily"
    BY <1>1, SystemKinds
  <2>2. PICK w \in UbuntuReleases : Place(s.version) = Place(w)
    BY <1>1 DEF TestedRelease
  <2> QED
    BY <1>1, <2>1, <2>2, UbuntuKernel
<1>2. CASE s.distro = "Debian"
  <2>1. s.family = "DebianFamily"
    BY <1>2, SystemKinds
  <2> QED
    BY <1>2, <2>1, DebianKernel, StockNames
<1>3. CASE s.distro = "OracleLinux" /\ s.arch # "riscv64"
  <2>1. s.family = "RedHatFamily" /\ s.arch \in {"amd64", "arm64"}
    BY <1>3, SystemKinds DEF Arch
  <2>2. s.arch = "amd64" => Kernel(s, b, "kernel")
    BY <1>3, <2>1, OracleKernel
  <2>3. s.arch = "arm64" => Kernel(s, b, "kernel-uek")
    BY <1>3, <2>1, OracleKernel
  <2> QED
    BY <1>3, <2>1, <2>2, <2>3, StockNames
<1>4. CASE s.distro \notin {"Ubuntu", "Debian"} /\ (s.distro = "OracleLinux" => s.arch = "riscv64")
  <2>1. /\ s.family \in {"RedHatFamily", "AlpineFamily", "SUSEFamily"}
        /\ s.distro \notin {"Debian", "Ubuntu", "RedHatFamily", "AlpineFamily", "SUSEFamily"}
    BY <1>4, SystemKinds
  <2>2. Kernel(s, b, FamilyKernelName[s.family])
    BY <1>4, <2>1, FamilyKernelOf
  <2>3. FamilyKernelName[s.family] \in StockKernels
    BY <2>1, StockNames DEF FamilyKernelName
  <2> QED
    BY <2>2, <2>3
<1> QED
  BY <1>1, <1>2, <1>3, <1>4

\* A package that is not of a repository of its own.
LEMMA SourceOf ==
    /\ \A p : p \notin Foreign => Source(p) = "stock"
    /\ Source("nvidia-l4t-kernel") = "l4t" /\ Source("nvidia-l4t-bootloader") = "l4t"
    /\ Source("cuda") = "cuda" /\ Source("kernel-uek") = "uek"
BY DEF Source, Foreign

\* The plans of a tested system name one kernel.
LEMMA PlannedKernel ==
    ASSUME NEW b, IsBuild(b), SupportedBuild(b), NEW s, s = DetectSystem(b.os, b.arch)
    PROVE  \E k : (GetPackages(s, b) \union GetKernelPackages(s, b)) \intersect Kernels = {k}
<1>1. /\ Dated(s) /\ s.arch = b.arch /\ s.arch \in Arch
      /\ <<s.distro, s.family, s.name>> \in TestedSystems
      /\ b.arch \in RequiredArch(b.model) /\ (b.trusted => b.arch # "riscv64")
      /\ TestedModel(s, b.model) /\ TestedRelease(s)
  BY SystemOf
<1>2. b.model # "generic" => s.arch = "arm64"
  BY <1>1 DEF RequiredArch
<1>3. b.model # "dgx-spark" => GetPackages(s, b) \intersect Kernels = {}
  BY ListedOnly, Apart
<1>4. StockKernels \union {"kernel-uek", "nvidia-l4t-kernel", "linux-image-nvidia-hwe-24.04"}
        \subseteq Kernels
  BY KernelNames DEF StockKernels
<1>5. CASE b.model = "generic"
  <2>1. \E k \in Kernels : Kernel(s, b, k)
    BY <1>1, <1>4, <1>5, GenericKernel
  <2> QED
    BY <1>3, <1>5, <2>1 DEF Kernel
<1>6. CASE b.model \in {"rpi3", "rpi4"}
  <2>1. PICK key \in PiKeys : {s.distro, s.family} \intersect PiKeys = {key}
    <3>1. s.distro \in {"Ubuntu", "Debian"} \/ s.family \in {"SUSEFamily", "AlpineFamily"}
      BY <1>1, <1>6, Zenon DEF TestedModel, Jetson, Orin
    <3>2. CASE s.distro \in {"Ubuntu", "Debian"}
      <4>1. s.family = "DebianFamily"
        BY <1>1, <3>2, SystemKinds
      <4> QED
        BY <3>2, <4>1 DEF PiKeys
    <3>3. CASE s.family \in {"SUSEFamily", "AlpineFamily"}
      <4>1. s.distro \in {"SLES", "OpenSUSELeap", "OpenSUSETumbleweed", "SLEMicroRancher", "Alpine"}
        BY <1>1, <3>3, SystemKinds
      <4> QED
        BY <3>3, <4>1 DEF PiKeys
    <3> QED
      BY <3>1, <3>2, <3>3
  <2>2. Kernel(s, b, PiKernelName[key])
    BY <1>1, <1>2, <1>6, <2>1, PiKernel
  <2>3. PiKernelName[key] \in StockKernels
    BY <2>1, StockNames DEF PiKernelName, PiKeys
  <2> QED
    BY <1>3, <1>4, <1>6, <2>2, <2>3 DEF Kernel
<1>7. CASE b.model \in Jetson
  <2>1. s.distro = "Ubuntu"
    BY <1>1, <1>7 DEF TestedModel, Jetson, Orin
  <2>2. GetKernelPackages(s, b) \intersect Kernels = {"nvidia-l4t-kernel"}
    <3>1. {"nvidia-l4t-bootloader", "cuda", "libopencv-dev"} \intersect Kernels = {}
      BY KernelNames
    <3> QED
      BY <1>1, <1>2, <1>4, <1>7, <2>1, <3>1, JetsonKernel DEF Jetson, Orin
  <2> QED
    BY <1>3, <1>7, <2>2 DEF Jetson, Orin
<1>8. CASE b.model = "dgx-spark"
  <2>1. s.distro = "Ubuntu"
    BY <1>1, <1>8 DEF TestedModel
  <2>2. "linux-image-nvidia-hwe-24.04" \in GetPackages(s, b)
    BY <1>1, <1>2, <1>8, <2>1, SparkKernel
  <2>3. GetKernelPackages(s, b) = {}
    BY <1>1, <1>8, NoKernelList
  <2> QED
    BY <1>4, <2>2, <2>3, ListedOnly, Apart
<1> QED
  BY <1>1, <1>5, <1>6, <1>7, <1>8 DEF TestedModel, Jetson, Orin

\* Where the packages of the plans come from.
LEMMA PlannedSources ==
    ASSUME NEW b, IsBuild(b), SupportedBuild(b), NEW s, s = DetectSystem(b.os, b.arch)
    PROVE  /\ \A p \in GetPackages(s, b) : Source(p) = "stock"
           /\ \A p \in GetKernelPackages(s, b) :
                 \/ Source(p) = "stock"
                 \/ Source(p) = "uek" /\ s.distro = "OracleLinux" /\ s.arch = "arm64"
                 \/ Source(p) = "l4t" /\ b.model \in Jetson
                 \/ Source(p) = "cuda" /\ b.model \in Orin
<1>1. /\ Dated(s) /\ s.arch = b.arch /\ s.arch \in Arch
      /\ <<s.distro, s.family, s.name>> \in TestedSystems
      /\ b.arch \in RequiredArch(b.model) /\ (b.trusted => b.arch # "riscv64")
      /\ TestedModel(s, b.model) /\ TestedRelease(s)
  BY SystemOf
<1>2. ASSUME NEW p \in GetPackages(s, b)
      PROVE  Source(p) = "stock"
  <2>1. p \notin Foreign
    BY ListedOnly, Apart DEF Foreign
  <2> QED
    BY <2>1, SourceOf
<1>3. b.model # "generic" => s.arch = "arm64"
  BY <1>1 DEF RequiredArch
<1>4. CASE b.model = "generic"
  <2>1. \/ \E k \in StockKernels : Kernel(s, b, k)
        \/ Kernel(s, b, "kernel-uek") /\ s.distro = "OracleLinux" /\ s.arch = "arm64"
    BY <1>1, <1>4, GenericKernel
  <2> QED
    BY <1>2, <2>1, SourceOf DEF Kernel, StockKernels
<1>5. CASE b.model \in {"rpi3", "rpi4"}
  <2>1. \A r \in KernelPackagesModels : r.model = b.model => \E key \in PiKeys : r.pkgs = {PiKernelName[key]}
    <3> SUFFICES ASSUME NEW r \in KernelPackagesModels, r.model = b.model
                 PROVE  \E key \in PiKeys : r.pkgs = {PiKernelName[key]}
      OBVIOUS
    <3>1. r \in PiKernels("rpi3") \union PiKernels("rpi4")
      BY <1>5, JetsonRows DEF KernelPackagesModels, Jetson, Orin
    <3>2. r.key \in PiKeys /\ r.pkgs = {PiKernelName[r.key]}
      BY <3>1, PiRows
    <3> QED
      BY <3>2, Zenon
  <2>2. ASSUME NEW key \in PiKeys
        PROVE  PiKernelName[key] \in StockKernels
    BY <2>2, StockNames DEF PiKernelName, PiKeys
  <2>3. \A p \in GetKernelPackages(s, b) : p \in StockKernels
    BY <1>1, <1>5, <2>1, <2>2, ModelList
  <2> QED
    BY <1>2, <2>3, SourceOf DEF StockKernels
<1>6. CASE b.model \in Jetson
  <2>1. s.distro = "Ubuntu"
    BY <1>1, <1>6 DEF TestedModel, Jetson, Orin
  <2>2. /\ GetKernelPackages(s, b) \subseteq
              {"nvidia-l4t-kernel", "nvidia-l4t-bootloader", "cuda", "libopencv-dev"}
        /\ "cuda" \in GetKernelPackages(s, b) => b.model # "thor"
    BY <1>1, <1>3, <1>6, <2>1, JetsonKernel DEF Jetson, Orin
  <2>3. Source("libopencv-dev") = "stock"
    BY SourceOf DEF Foreign
  <2> QED
    BY <1>2, <1>6, <2>2, <2>3, SourceOf DEF Jetson, Orin
<1>7. CASE b.model = "dgx-spark"
  BY <1>1, <1>2, <1>7, NoKernelList
<1> QED
  BY <1>1, <1>4, <1>5, <1>6, <1>7 DEF TestedModel, Jetson, Orin

-----------------------------------------------------------------------------
(* The dracut modules and the services find their packages.                *)

\* Where the two versions of a constraint meet.
LEMMA Splits ==
    ASSUME NEW s, Dated(s), NEW w, Place(w) \in Nat
    PROVE  Check(s.version, From(w)) <=> ~Check(s.version, Below(w))
<1> DEFINE p == Place(s.version)
           q == Place(w)
           from == Check(s.version, From(w))
           below == Check(s.version, Below(w))
<1>1. p \in Nat /\ q \in Nat
  BY DEF Dated
<1>2. (from <=> p >= q) /\ (below <=> p < q)
  BY CheckAt
<1> HIDE DEF p, q, from, below
<1>3. from <=> ~below
  BY <1>1, <1>2, SMT
<1> QED
  BY <1>3 DEF from, below

\* A later version is at least an earlier one.
LEMMA Later ==
    ASSUME NEW s, Dated(s), NEW v, NEW w, Place(v) \in Nat, Place(w) \in Nat, Place(v) <= Place(w),
           Check(s.version, From(w))
    PROVE  Check(s.version, From(v))
<1> DEFINE p == Place(s.version)
           q == Place(w)
           r == Place(v)
<1>1. p \in Nat /\ q \in Nat /\ r \in Nat /\ r <= q
  BY DEF Dated
<1>2. p >= q
  BY CheckAt
<1> HIDE DEF p, q, r
<1>3. p >= r
  BY <1>1, <1>2, SMT
<1> QED
  BY <1>3, CheckAt DEF p, r

\* What a dracut module asks.
OneDracut(s, pk) == s.family = "SUSEFamily" /\ "dracut" \in pk
Live(s, pk) == \/ OneDracut(s, pk) \/ "dracut-live" \in pk
               \/ s.distro = "Ubuntu" /\ Check(s.version, Below(<<22, 4>>)) /\ "dracut" \in pk
Net(s, pk) == OneDracut(s, pk) \/ "dracut-network" \in pk

\* Which packages a module is content with.
LEMMA Modules ==
    ASSUME NEW s, NEW pk
    PROVE  /\ Live(s, pk) => ModuleProvided(s, pk, "livenet") /\ ModuleProvided(s, pk, "dmsquash-live")
           /\ ModuleProvided(s, pk, "immucore")
           /\ Net(s, pk) => ModuleProvided(s, pk, "network")
           /\ Net(s, pk) /\ NetworkManager(pk) => ModuleProvided(s, pk, "network-manager")
           /\ Net(s, pk) /\ (s.distro = "Ubuntu" => Check(s.version, Below(<<26, 4>>)))
                 /\ s.family # "RedHatFamily" => ModuleProvided(s, pk, "network-legacy")
           /\ Networkd(s, pk) => ModuleProvided(s, pk, "systemd-networkd")
           /\ Resolved(s, pk) => ModuleProvided(s, pk, "systemd-resolved")
           /\ {"multipath-tools", "device-mapper-multipath"} \intersect pk # {}
                 => ModuleProvided(s, pk, "multipath")
           /\ "systemd" \in pk => ModuleProvided(s, pk, "systemd-sysext")
BY DEF ModuleProvided, Live, Net, OneDracut

\* Where systemd-networkd comes from on two of the families.
LEMMA NetworkdOf ==
    ASSUME NEW s, NEW pk
    PROVE  /\ s.family = "DebianFamily" /\ "systemd" \in pk => Networkd(s, pk)
           /\ s.family = "SUSEFamily" /\ {"systemd-networkd", "systemd-network"} \intersect pk # {}
                => Networkd(s, pk)
BY DEF Networkd

\* The modules of the initramfs, by what they depend on.
LEMMA ModuleKinds ==
    ASSUME NEW s, NEW pk, NEW m \in InitramfsModules(s, pk)
    PROVE  \/ m \in {"livenet", "dmsquash-live", "immucore", "network", "systemd-sysext"}
           \/ m = "multipath" /\ Multipath(s)
           \/ m \in NetworkModule(s, pk)
BY Zenon DEF InitramfsModules

\* The network modules, by distribution.
LEMMA NetworkModules ==
    ASSUME NEW s, NEW pk
    PROVE  /\ s.distro = "Ubuntu" /\ s.family # "RedHatFamily"
                => NetworkModule(s, pk) = UbuntuNetwork(s.version)
           /\ s.distro \notin {"Ubuntu", "Hadron"} /\ s.family = "RedHatFamily"
                => NetworkModule(s, pk) = RedHatNetwork(s, pk)
           /\ s.distro \notin {"Ubuntu", "Hadron"} /\ s.family # "RedHatFamily"
                => NetworkModule(s, pk) = {"systemd-networkd", "network-legacy"}
BY DEF NetworkModule

\* On Ubuntu the constraints of the initramfs step and of the tables agree.
LEMMA UbuntuModules ==
    ASSUME NEW s, NEW b, ~b.trusted, NEW pk, GetPackages(s, b) \subseteq pk,
           s.distro = "Ubuntu", s.family = "DebianFamily", s.name = "Ubuntu", TestedRelease(s),
           NEW m \in InitramfsModules(s, pk)
    PROVE  ModuleProvided(s, pk, m)
<1> DEFINE p == Place(s.version)
           From21 == Check(s.version, From(<<21>>))
           From22 == Check(s.version, From(<<22, 4>>))
           From24 == Check(s.version, From(<<24, 4>>))
           From26 == Check(s.version, From(<<26, 4>>))
<1>0. Dated(s)
  BY DEF TestedRelease
<1>1. /\ From22 <=> ~Check(s.version, Below(<<22, 4>>))
      /\ From26 <=> ~Check(s.version, Below(<<26, 4>>))
  BY <1>0, PlaceOf, Splits
<1>2. From21 => From22
  <2>1. PICK v \in UbuntuReleases : p = Place(v)
    BY DEF TestedRelease
  <2>2. p < Place(<<21>>) \/ p >= Place(<<22, 4>>)
    BY <2>1, PlaceOf, SMT DEF UbuntuReleases
  <2>3. p \in Nat /\ Place(<<21>>) \in Nat /\ Place(<<22, 4>>) \in Nat
    BY <1>0, PlaceOf DEF Dated
  <2>4. (From21 <=> p >= Place(<<21>>)) /\ (From22 <=> p >= Place(<<22, 4>>))
    BY <1>0, <2>3, CheckAt
  <2> HIDE DEF p, From21, From22
  <2> QED
    BY <2>2, <2>3, <2>4, SMT
<1>3. /\ "systemd" \in pk /\ "dracut" \in pk /\ "dracut-network" \in pk
      /\ From22 => "multipath-tools" \in pk /\ "dracut-live" \in pk
      /\ From24 => "systemd-resolved" \in pk
  BY <1>0, DebianFamilyHas
<1>4. From26 => From24
  BY <1>0, PlaceOf, Later
<1>5. Live(s, pk) /\ Net(s, pk) /\ Networkd(s, pk) /\ (From24 => Resolved(s, pk))
  <2>1. Live(s, pk) /\ Net(s, pk)
    BY <1>1, <1>3, Zenon DEF Live, Net
  <2>2. Networkd(s, pk)
    BY <1>3, NetworkdOf
  <2>3. From24 => Resolved(s, pk)
    BY <1>3 DEF Resolved
  <2> QED
    BY <2>1, <2>2, <2>3
<1>6. \/ m \in {"livenet", "dmsquash-live", "immucore", "network", "systemd-sysext"}
      \/ m = "multipath" /\ From21
      \/ m = "systemd-networkd"
      \/ m = "systemd-resolved" /\ (From24 \/ From26)
      \/ m = "network-legacy" /\ ~From26
  <2>1. m \in NetworkModule(s, pk) => m \in UbuntuNetwork(s.version)
    BY NetworkModules
  <2>2. Multipath(s) => From21
    BY DEF Multipath
  <2>3. m \in UbuntuNetwork(s.version) =>
           \/ m \in {"network", "systemd-networkd"}
           \/ m = "systemd-resolved" /\ (From24 \/ From26)
           \/ m = "network-legacy" /\ ~From26
    <3>1. \/ UbuntuNetwork(s.version) = {"network"}
          \/ From26 /\ UbuntuNetwork(s.version) = {"systemd-networkd", "systemd-resolved"}
          \/ /\ ~From26 /\ From24
             /\ UbuntuNetwork(s.version) = {"systemd-networkd", "network-legacy", "systemd-resolved"}
          \/ ~From26 /\ UbuntuNetwork(s.version) = {"systemd-networkd", "network-legacy"}
      BY Zenon DEF UbuntuNetwork
    <3> HIDE DEF From24, From26
    <3> QED
      BY <3>1, Zenon
  <2> HIDE DEF From21, From24, From26
  <2>4. \/ m \in {"livenet", "dmsquash-live", "immucore", "network", "systemd-sysext"}
        \/ m = "multipath" /\ Multipath(s)
        \/ m \in NetworkModule(s, pk)
    BY ModuleKinds
  <2> QED
    BY <2>1, <2>2, <2>3, <2>4, Zenon
<1> HIDE DEF From21, From22, From24, From26
<1> QED
  BY <1>1, <1>2, <1>3, <1>4, <1>5, <1>6, Modules

\* On Debian there is nothing to agree on.
LEMMA DebianModules ==
    ASSUME NEW s, NEW b, ~b.trusted, NEW pk, GetPackages(s, b) \subseteq pk, Dated(s),
           s.distro = "Debian", s.family = "DebianFamily",
           NEW m \in InitramfsModules(s, pk)
    PROVE  ModuleProvided(s, pk, m)
<1>1. {"systemd", "dracut", "dracut-network", "multipath-tools", "dracut-live"} \subseteq pk
  BY DebianFamilyHas
<1>2. Live(s, pk) /\ Net(s, pk) /\ Networkd(s, pk)
  BY <1>1, NetworkdOf DEF Live, Net
<1>3. m \in {"livenet", "dmsquash-live", "immucore", "network", "systemd-sysext", "multipath",
             "systemd-networkd", "network-legacy"}
  BY ModuleKinds, NetworkModules
<1> QED
  BY <1>1, <1>2, <1>3, Modules

\* On the RHEL family NetworkManager is installed, and its module chosen.
LEMMA RedHatModules ==
    ASSUME NEW s, NEW b, ~b.trusted, NEW pk, GetPackages(s, b) \subseteq pk, Dated(s),
           s.family = "RedHatFamily", s.distro \notin {"Ubuntu", "Hadron"},
           NEW m \in InitramfsModules(s, pk)
    PROVE  ModuleProvided(s, pk, m)
<1>1. {"systemd", "NetworkManager", "dracut-live", "dracut-network", "device-mapper-multipath"}
        \subseteq pk
  BY RedHatFamilyHas
<1>2. Live(s, pk) /\ Net(s, pk) /\ NetworkManager(pk)
  BY <1>1 DEF Live, Net, NetworkManager
<1>3. RedHatNetwork(s, pk) = {"network-manager"}
  BY <1>2 DEF RedHatNetwork
<1>4. m \in {"livenet", "dmsquash-live", "immucore", "network", "systemd-sysext", "multipath",
             "network-manager"}
  BY <1>3, ModuleKinds, NetworkModules
<1> QED
  BY <1>1, <1>2, <1>4, Modules

\* On the SUSE family dracut is one package.
LEMMA SUSEModules ==
    ASSUME NEW s, NEW b, ~b.trusted, NEW pk, GetPackages(s, b) \subseteq pk, Dated(s),
           s.family = "SUSEFamily", s.distro \notin {"Ubuntu", "Hadron"},
           \/ Place(s.version) \notin {Place(<<5, 4>>), Place(<<5, 5>>)}
           \/ "systemd-network" \in pk,
           NEW m \in InitramfsModules(s, pk)
    PROVE  ModuleProvided(s, pk, m)
<1>1. /\ {"systemd", "multipath-tools", "dracut"} \subseteq pk
      /\ "systemd-network" \in pk \/ {"systemd-networkd", "systemd-resolved"} \subseteq pk
  BY SUSEFamilyHas
<1>2. Live(s, pk) /\ Net(s, pk) /\ Networkd(s, pk)
  BY <1>1, NetworkdOf DEF Live, Net, OneDracut
<1>3. m \in {"livenet", "dmsquash-live", "immucore", "network", "systemd-sysext", "multipath",
             "systemd-networkd", "network-legacy"}
  BY ModuleKinds, NetworkModules
<1> QED
  BY <1>1, <1>2, <1>3, Modules

\* The packages of a tested system that is not for trusted boot provide every
\* dracut module the initramfs step adds for it.
LEMMA PlannedModules ==
    ASSUME NEW b, IsBuild(b), SupportedBuild(b), NEW s, s = DetectSystem(b.os, b.arch),
           ~b.trusted, NEW pk, GetPackages(s, b) \subseteq pk,
           s.name = "SLE Micro" => "systemd-network" \in pk,
           NEW m \in InitramfsModules(s, pk)
    PROVE  ModuleProvided(s, pk, m)
<1>1. Dated(s) /\ <<s.distro, s.family, s.name>> \in TestedSystems /\ TestedRelease(s)
  BY SystemOf
<1>2. CASE s.distro = "Ubuntu"
  BY <1>1, <1>2, SystemKinds, UbuntuModules
<1>3. CASE s.distro = "Debian"
  BY <1>1, <1>3, SystemKinds, DebianModules
<1>4. CASE s.family = "RedHatFamily"
  BY <1>1, <1>4, SystemKinds, RedHatModules
<1>5. CASE s.family = "SUSEFamily"
  <2>1. s.distro \notin {"Ubuntu", "Hadron"}
    BY <1>1, <1>5, SystemKinds
  <2>2. \/ Place(s.version) \notin {Place(<<5, 4>>), Place(<<5, 5>>)}
        \/ "systemd-network" \in pk
    BY <1>1, <1>5 DEF TestedRelease
  <2> QED
    BY <1>1, <1>5, <2>1, <2>2, SUSEModules
<1>6. CASE s.name = "Alpine"
  BY <1>6 DEF InitramfsModules, DracutNames, RHELNames, OpenSUSENames
<1> QED
  BY <1>1, <1>2, <1>3, <1>4, <1>5, <1>6, SystemKinds

\* Where a service comes from.
LEMMA Services ==
    ASSUME NEW s, NEW pk
    PROVE  /\ {"openssh", "openssh-server"} \intersect pk # {} =>
                ServiceProvided(s, pk, "ssh") /\ ServiceProvided(s, pk, "sshd")
           /\ "fail2ban" \in pk => ServiceProvided(s, pk, "fail2ban")
           /\ "connman" \in pk => ServiceProvided(s, pk, "connman")
           /\ "chrony" \in pk => ServiceProvided(s, pk, "chronyd")
           /\ "systemd-timesyncd" \in pk /\ s.family = "DebianFamily"
                => ServiceProvided(s, pk, "systemd-timesyncd")
           /\ "systemd" \in pk /\ s.family # "DebianFamily"
                => ServiceProvided(s, pk, "systemd-timesyncd")
           /\ Networkd(s, pk) => ServiceProvided(s, pk, "systemd-networkd")
           /\ Resolved(s, pk) => ServiceProvided(s, pk, "systemd-resolved")
           /\ NetworkManager(pk) => ServiceProvided(s, pk, "NetworkManager")
           /\ "busybox-openrc" \in pk => ServiceProvided(s, pk, "acpid")
           /\ "openrc" \in pk => ServiceProvided(s, pk, "hwclock")
           /\ "eudev" \in pk => ServiceProvided(s, pk, "udev")
BY DEF ServiceProvided

\* The services of the Debian family.
LEMMA DebianServices ==
    ASSUME NEW s, NEW b, NEW pk, GetPackages(s, b) \subseteq pk, Dated(s),
           s.family = "DebianFamily", s.name \in {"Ubuntu", "Debian"},
           NEW u \in EnabledServices(s, pk)
    PROVE  ServiceProvided(s, pk, u)
<1>1. {"systemd", "fail2ban", "openssh-server", "systemd-timesyncd"} \subseteq pk
  BY DebianFamilyHas
<1>2. u \in {"ssh", "fail2ban", "systemd-timesyncd", "systemd-networkd"}
  BY DEF EnabledServices, OpenSUSENames, RHELNames
<1>3. Networkd(s, pk)
  BY <1>1, NetworkdOf
<1> QED
  BY <1>1, <1>2, <1>3, Services

\* Those of the RHEL family, with chronyd and without systemd-networkd.
LEMMA RedHatServices ==
    ASSUME NEW s, NEW b, NEW pk, GetPackages(s, b) \subseteq pk,
           s.family = "RedHatFamily", s.name \in RHELNames, s.name = "Fedora" => s.distro = "Fedora",
           TestedRelease(s), NEW u \in EnabledServices(s, pk)
    PROVE  ServiceProvided(s, pk, u)
<1>0. Dated(s) /\ Check(s.version, From(<<9>>))
  BY DEF TestedRelease
<1>1. /\ {"systemd", "chrony", "NetworkManager", "openssh-server", "systemd-resolved"} \subseteq pk
      /\ s.name = "Fedora" => "fail2ban" \in pk
  BY <1>0, RedHatFamilyHas
<1>2. \/ u \in {"sshd", "chronyd", "systemd-resolved", "NetworkManager"}
      \/ u = "fail2ban" /\ (s.name = "Fedora" \/ "fail2ban" \in pk)
      \/ u = "systemd-networkd" /\ Networkd(s, pk)
  BY DEF EnabledServices, OpenSUSENames, RHELNames
<1>3. NetworkManager(pk) /\ Resolved(s, pk)
  BY <1>1 DEF NetworkManager, Resolved
<1> QED
  BY <1>1, <1>2, <1>3, Services

\* Those of the SUSE family.
LEMMA SUSEServices ==
    ASSUME NEW s, NEW b, NEW pk, GetPackages(s, b) \subseteq pk, Dated(s),
           s.family = "SUSEFamily", s.name \in OpenSUSENames \union {"SLES", "SLE Micro"},
           \/ Place(s.version) \notin {Place(<<5, 4>>), Place(<<5, 5>>)}
           \/ "systemd-network" \in pk,
           NEW u \in EnabledServices(s, pk)
    PROVE  ServiceProvided(s, pk, u)
<1>1. /\ {"systemd", "fail2ban", "openssh"} \subseteq pk
      /\ "systemd-network" \in pk \/ {"systemd-networkd", "systemd-resolved"} \subseteq pk
  BY SUSEFamilyHas
<1>2. u \in {"sshd", "fail2ban", "systemd-timesyncd", "systemd-networkd", "systemd-resolved"}
  <2>1. CASE s.name \in OpenSUSENames
    BY <2>1 DEF EnabledServices, OpenSUSENames, RHELNames
  <2>2. CASE s.name \in {"SLES", "SLE Micro"}
    BY <2>2 DEF EnabledServices, OpenSUSENames, RHELNames
  <2> QED
    BY <2>1, <2>2
<1>3. Networkd(s, pk)
  BY <1>1, NetworkdOf
<1>4. Resolved(s, pk)
  BY <1>1 DEF Resolved
<1> QED
  BY <1>1, <1>2, <1>3, <1>4, Services

\* Those of Alpine, under OpenRC.
LEMMA AlpineServices ==
    ASSUME NEW s, NEW b, NEW pk, GetPackages(s, b) \subseteq pk, Dated(s),
           s.family = "AlpineFamily", s.name = "Alpine",
           NEW u \in EnabledServices(s, pk)
    PROVE  ServiceProvided(s, pk, u)
<1>1. {"fail2ban", "openssh-server", "connman", "openrc", "busybox-openrc", "eudev"} \subseteq pk
  BY AlpineFamilyHas
<1>2. u \in {"sshd", "fail2ban", "connman", "acpid", "hwclock", "udev"}
  BY DEF EnabledServices, OpenSUSENames, RHELNames
<1> QED
  BY <1>1, <1>2, Services

\* The packages of a tested system provide every service that is enabled on it.
LEMMA PlannedServices ==
    ASSUME NEW b, IsBuild(b), SupportedBuild(b), NEW s, s = DetectSystem(b.os, b.arch),
           NEW pk, GetPackages(s, b) \subseteq pk,
           s.name = "SLE Micro" => "systemd-network" \in pk,
           NEW u \in EnabledServices(s, pk)
    PROVE  ServiceProvided(s, pk, u)
<1>1. Dated(s) /\ <<s.distro, s.family, s.name>> \in TestedSystems /\ TestedRelease(s)
  BY SystemOf
<1>2. CASE s.family = "DebianFamily"
  <2>1. s.name \in {"Ubuntu", "Debian"}
    BY <1>1, <1>2, SystemKinds
  <2> QED
    BY <1>1, <1>2, <2>1, DebianServices
<1>3. CASE s.family = "RedHatFamily"
  <2>1. s.name \in RHELNames /\ (s.name = "Fedora" => s.distro = "Fedora")
    BY <1>1, <1>3, SystemKinds DEF RHELNames
  <2> QED
    BY <1>1, <1>3, <2>1, RedHatServices
<1>4. CASE s.family = "SUSEFamily"
  <2>1. s.name \in OpenSUSENames \union {"SLES", "SLE Micro"}
    BY <1>1, <1>4, SystemKinds DEF OpenSUSENames
  <2>2. \/ Place(s.version) \notin {Place(<<5, 4>>), Place(<<5, 5>>)}
        \/ "systemd-network" \in pk
    BY <1>1, <1>4 DEF TestedRelease
  <2> QED
    BY <1>1, <1>4, <2>1, <2>2, SUSEServices
<1>5. CASE s.family = "AlpineFamily"
  <2>1. s.name = "Alpine"
    BY <1>1, <1>5, SystemKinds
  <2> QED
    BY <1>1, <1>5, <2>1, AlpineServices
<1> QED
  BY <1>1, <1>2, <1>3, <1>4, <1>5, SystemKinds

-----------------------------------------------------------------------------
(* Types.                                                                  *)

\* Only a standard build comes to the step that makes the link kairos.
TypeInv == TypeOK /\ (pc = "kairosLink" => build.standard)

\* The packages of the plans are of the tables.
LEMMA PlansInTables ==
    ASSUME NEW s, NEW b
    PROVE  GetPackages(s, b) \union GetKernelPackages(s, b) \subseteq AnyPackage
<1>1. CommonPackages \subseteq AnyPackage
  BY DEF AnyPackage
<1>2. ASSUME NEW r \in BasePackages \union BasePackagesModels \union ImmucorePackages
                         \union GrubPackages \union SystemdPackages \union KernelPackages
                         \union KernelPackagesTrustedBoot \union KernelPackagesModels
      PROVE  r.pkgs \subseteq AnyPackage
  BY <1>2 DEF AnyPackage
<1>3. ASSUME NEW p \in GetPackages(s, b)
      PROVE  p \in AnyPackage
  BY <1>1, <1>2, <1>3 DEF GetPackages, FilterPackagesOnConstraint, Lists
<1>4. ASSUME NEW p \in GetKernelPackages(s, b)
      PROVE  p \in AnyPackage
  BY <1>2, <1>4 DEF GetKernelPackages, FilterPackagesOnConstraint, Lists
<1> QED
  BY <1>3, <1>4

\* The packages that a command of their own brings, or that come with the image.
LEMMA OwnCommand == {"systemd-network", "nvidia-mlnx-tools", "kernel-default"} \subseteq AnyPackage
<1>1. Row("SUSEFamily", "common", Always, {"kernel-default"}).pkgs \subseteq AnyPackage
  BY FamilyKernelRows DEF KernelPackages, AnyPackage
<1>2. "kernel-default" \in AnyPackage
  BY <1>1, RowIs
<1> QED
  BY <1>2 DEF AnyPackage

\* The counters and the error flag.
LEMMA BreaksType ==
    ASSUME TypeOK, Holds \/ Breaks
    PROVE  breaks' \in 0..MaxBreaks
BY InstallAssumption DEF TypeOK, Holds, Breaks

\* An install command keeps the types.
LEMMA InstallType ==
    ASSUME TypeOK, NEW pkgs, pkgs \subseteq AnyPackage, NEW step \in Steps, Install(pkgs, step)
    PROVE  /\ installed' \subseteq AnyPackage /\ breaks' \in 0..MaxBreaks
           /\ pc' = step /\ err' \in BOOLEAN
<1>1. Holds \/ Breaks
  BY Zenon DEF Install
<1>2. installed' \in {installed, installed \union pkgs, installed \union {p \in pkgs : Source(p) \in repos}}
  BY Zenon DEF Install
<1>3. pc' = step /\ (err' = (err \/ FALSE) \/ err' = (err \/ TRUE))
  BY Zenon DEF Install, Then, Goto
<1>4. err \in BOOLEAN /\ installed \subseteq AnyPackage
  BY DEF TypeOK
<1>5. err' \in BOOLEAN
  BY <1>3, <1>4
<1> QED
  BY <1>1, <1>2, <1>3, <1>4, <1>5, BreaksType

\* So does the write of a binary.
LEMMA WriteType ==
    ASSUME TypeOK, NEW b \in Binaries, Write(b)
    PROVE  /\ disk' \in [Binaries -> File] /\ cut' \subseteq Binaries /\ todo' \subseteq Binaries
           /\ breaks' \in 0..MaxBreaks /\ pc' \in {pc, "fail"}
<1>1. Holds \/ Breaks
  BY Zenon DEF Write
<1>2. disk[b] \in File /\ disk \in [Binaries -> File] /\ cut \subseteq Binaries /\ todo \subseteq Binaries
  BY DEF TypeOK
<1>3. \A x \in BOOLEAN, c \in {"none", "part", "full"} : [content |-> c, exec |-> x] \in File
  BY DEF File
<1>4. disk[b].exec \in BOOLEAN
  BY <1>2 DEF File
<1>5. disk' \in [Binaries -> File] /\ cut' \subseteq Binaries
  BY <1>2, <1>3, <1>4 DEF Write, Truncate
<1>6. todo' \subseteq Binaries /\ pc' \in {pc, "fail"}
  BY <1>2, Zenon DEF Write, Goto
<1> QED
  BY <1>1, <1>5, <1>6, BreaksType

\* The parts of TypeOK, by group of variables.
ControlType == /\ build \in Builds /\ online \subseteq Binaries /\ pc \in Steps /\ todo \subseteq Binaries
               /\ err \in BOOLEAN /\ exit \in {"none", "ok", "fail"}
               /\ runs \in 0..MaxRuns /\ breaks \in 0..MaxBreaks
RootType    == /\ installed \subseteq AnyPackage /\ repos \subseteq {"stock", "l4t", "cuda", "dgx", "uek"}
               /\ sentinel \in BOOLEAN /\ opencv \in 0..2
FilesType   == /\ disk \in [Binaries -> File] /\ cut \subseteq Binaries
               /\ kairos \in BOOLEAN /\ (kairos => build.standard)
LinkType    == pc = "kairosLink" => build.standard

\* TypeInv is the four of them.
LEMMA TypeParts ==
    /\ TypeInv <=> ControlType /\ RootType /\ FilesType /\ LinkType
    /\ TypeInv' <=> (ControlType /\ RootType /\ FilesType /\ LinkType)'
BY Zenon DEF TypeInv, TypeOK, ControlType, RootType, FilesType, LinkType

\* Steps of the executor run leave the files alone, and those of the files the root.
LEMMA SameFiles ==
    ASSUME FilesType, UNCHANGED <<build, disk, cut, kairos>>
    PROVE  FilesType'
BY Zenon DEF FilesType

\* The same of the packages and repositories.
LEMMA SameRoot ==
    ASSUME RootType, UNCHANGED <<installed, repos, sentinel, opencv>>
    PROVE  RootType'
BY Zenon DEF RootType

\* A step of the executor run.
LEMMA StageType ==
    ASSUME ControlType, UNCHANGED <<build, online, todo, exit, runs>>,
           breaks' \in 0..MaxBreaks, err' \in BOOLEAN, pc' \in Steps \ {"kairosLink"}
    PROVE  ControlType' /\ LinkType'
<1>1. ControlType'
  BY Zenon DEF ControlType
<1>2. LinkType'
  BY DEF LinkType
<1> QED
  BY <1>1, <1>2

\* The stages of the executor run keep the types.
LEMMA TypeStages ==
    ASSUME TypeInv, Repositories \/ RemoveBundledKernel \/ BasePackagesStage \/ L4tRepositories
                    \/ DgxSpark \/ OpencvLink \/ UekRepository \/ KernelPackagesStage
    PROVE  TypeInv'
<1> USE TypeParts
<1>0. /\ ControlType /\ RootType /\ FilesType /\ TypeOK
      /\ err \in BOOLEAN /\ installed \subseteq AnyPackage /\ breaks \in 0..MaxBreaks
      /\ repos \subseteq {"stock", "l4t", "cuda", "dgx", "uek"} /\ sentinel \in BOOLEAN
      /\ opencv \in 0..2
  BY Zenon DEF TypeInv, ControlType, RootType
<1>1. CASE Repositories
  <2>1. /\ UNCHANGED <<build, online, todo, exit, runs, repos, sentinel, opencv, disk, cut, kairos>>
        /\ pc' = "bundledKernel" /\ (err' = (err \/ TRUE) \/ err' = (err \/ FALSE))
        /\ Breaks \/ Holds
        /\ installed' \in {installed, installed \union Borrowed}
    BY <1>1, Zenon DEF Repositories, Then, Goto, files
  <2>2. ControlType' /\ LinkType'
    BY <1>0, <2>1, BreaksType, StageType DEF Steps
  <2>3. RootType'
    BY <1>0, <2>1, OwnCommand DEF RootType, Borrowed
  <2> QED
    BY <1>0, <2>1, <2>2, <2>3, SameFiles
<1>2. CASE RemoveBundledKernel
  <2>1. /\ UNCHANGED <<build, online, todo, exit, runs, repos, sentinel, opencv, disk, cut, kairos>>
        /\ pc' = "basePackages" /\ (err' = (err \/ TRUE) \/ err' = (err \/ FALSE))
        /\ Breaks \/ Holds
        /\ installed' \in {installed, installed \ {"kernel-default"}}
    BY <1>2, Zenon DEF RemoveBundledKernel, Then, Goto, files
  <2>2. ControlType' /\ LinkType'
    BY <1>0, <2>1, BreaksType, StageType DEF Steps
  <2>3. RootType'
    BY <1>0, <2>1 DEF RootType
  <2> QED
    BY <1>0, <2>1, <2>2, <2>3, SameFiles
<1>3. CASE BasePackagesStage
  <2>1. /\ UNCHANGED <<build, online, todo, exit, runs, repos, sentinel, opencv, disk, cut, kairos>>
        /\ Install(GetPackages(sys, build), "l4t")
    BY <1>3 DEF BasePackagesStage, files
  <2>2. GetPackages(sys, build) \subseteq AnyPackage /\ "l4t" \in Steps
    BY PlansInTables DEF Steps
  <2>3. /\ installed' \subseteq AnyPackage /\ breaks' \in 0..MaxBreaks
        /\ pc' = "l4t" /\ err' \in BOOLEAN
    BY <1>0, <2>1, <2>2, InstallType
  <2>4. ControlType' /\ LinkType'
    BY <1>0, <2>1, <2>3, StageType DEF Steps
  <2>5. RootType'
    BY <1>0, <2>1, <2>3 DEF RootType
  <2> QED
    BY <1>0, <2>1, <2>4, <2>5, SameFiles
<1>4. CASE L4tRepositories
  <2>1. /\ UNCHANGED <<build, online, todo, exit, runs, installed, opencv, disk, cut, kairos>>
        /\ pc' = "dgx" /\ (err' = (err \/ TRUE) \/ err' = (err \/ FALSE))
        /\ Breaks \/ Holds
        /\ sentinel' \in {sentinel, TRUE, (sentinel \/ build.model \in Jetson)}
    BY <1>4, Zenon DEF L4tRepositories, Then, Goto, files
  <2>6. repos' \subseteq repos \union JetsonRepos
    BY <1>4 DEF L4tRepositories
  <2>2. ControlType' /\ LinkType'
    BY <1>0, <2>1, BreaksType, StageType DEF Steps
  <2>3. JetsonRepos \subseteq {"l4t", "cuda"}
    BY DEF JetsonRepos
  <2>4. repos' \subseteq {"stock", "l4t", "cuda", "dgx", "uek"} /\ sentinel' \in BOOLEAN
    BY <1>0, <2>1, <2>3, <2>6
  <2>5. RootType'
    BY <1>0, <2>1, <2>4 DEF RootType
  <2> QED
    BY <1>0, <2>1, <2>2, <2>5, SameFiles
<1>5. CASE DgxSpark
  <2>1. /\ UNCHANGED <<build, online, todo, exit, runs, sentinel, opencv, disk, cut, kairos>>
        /\ pc' = "opencvLink" /\ (err' = (err \/ TRUE) \/ err' = (err \/ FALSE))
        /\ Breaks \/ Holds
        /\ repos' \in {repos, repos \union {"dgx"}}
        /\ installed' \in {installed, installed \union {"nvidia-mlnx-tools"}}
    BY <1>5, Zenon DEF DgxSpark, Then, Goto, files
  <2>2. ControlType' /\ LinkType'
    BY <1>0, <2>1, BreaksType, StageType DEF Steps
  <2>3. RootType'
    BY <1>0, <2>1, OwnCommand DEF RootType
  <2> QED
    BY <1>0, <2>1, <2>2, <2>3, SameFiles
<1>6. CASE OpencvLink
  <2>1. /\ UNCHANGED <<build, online, todo, exit, runs, breaks, installed, repos, sentinel,
                       disk, cut, kairos>>
        /\ pc' = "uek" /\ (err' = (err \/ TRUE) \/ err' = (err \/ FALSE))
        /\ opencv' = opencv \/ (opencv' = opencv + 1 /\ (opencv = 0 \/ opencv = 1))
    BY <1>6, Zenon DEF OpencvLink, Then, Goto, files
  <2>2. ControlType' /\ LinkType'
    BY <1>0, <2>1, StageType DEF Steps
  <2>3. RootType'
    BY <1>0, <2>1 DEF RootType
  <2> QED
    BY <1>0, <2>1, <2>2, <2>3, SameFiles
<1>7. CASE UekRepository
  <2>1. /\ UNCHANGED <<build, online, todo, exit, runs, installed, sentinel, opencv, disk, cut, kairos>>
        /\ pc' \in {"endInstall", "kernel"} /\ (err' = (err \/ TRUE) \/ err' = (err \/ FALSE))
        /\ Breaks \/ Holds
        /\ repos' \in {repos, repos \union {"uek"}}
    BY <1>7, Zenon DEF UekRepository, AfterUek, Then, Goto, files
  <2>2. ControlType' /\ LinkType'
    BY <1>0, <2>1, BreaksType, StageType DEF Steps
  <2>3. RootType'
    BY <1>0, <2>1 DEF RootType
  <2> QED
    BY <1>0, <2>1, <2>2, <2>3, SameFiles
<1>8. CASE KernelPackagesStage
  <2>1. /\ UNCHANGED <<build, online, todo, exit, runs, repos, sentinel, opencv, disk, cut, kairos>>
        /\ Install(GetKernelPackages(sys, build), "endInstall")
    BY <1>8 DEF KernelPackagesStage, files
  <2>2. GetKernelPackages(sys, build) \subseteq AnyPackage /\ "endInstall" \in Steps
    BY PlansInTables DEF Steps
  <2>3. /\ installed' \subseteq AnyPackage /\ breaks' \in 0..MaxBreaks
        /\ pc' = "endInstall" /\ err' \in BOOLEAN
    BY <1>0, <2>1, <2>2, InstallType
  <2>4. ControlType' /\ LinkType'
    BY <1>0, <2>1, <2>3, StageType DEF Steps
  <2>5. RootType'
    BY <1>0, <2>1, <2>3 DEF RootType
  <2> QED
    BY <1>0, <2>1, <2>4, <2>5, SameFiles
<1> QED
  BY <1>1, <1>2, <1>3, <1>4, <1>5, <1>6, <1>7, <1>8

\* The steps around them change the control state alone.
LEMMA TypeEnds ==
    ASSUME TypeInv, Run \/ PreRun \/ Plan \/ EndInstall \/ Exit \/ UNCHANGED vars
    PROVE  TypeInv'
<1>0. ControlType /\ RootType /\ FilesType /\ LinkType
  BY TypeParts
<1>1. UNCHANGED <<build, installed, repos, sentinel, opencv, disk, cut, kairos>>
  BY Zenon DEF Run, PreRun, Plan, EndInstall, Exit, vars, control, root, files
<1>2. RootType' /\ FilesType'
  BY <1>0, <1>1, SameRoot, SameFiles
<1>3. CASE Run
  <2>1. /\ online' \in {{}, Binaries} /\ runs' = runs + 1 /\ runs < MaxRuns /\ breaks' = 0
        /\ err' = FALSE /\ exit' = "none" /\ pc' = "preRun" /\ UNCHANGED <<build, todo>>
    BY <1>3, Zenon DEF Run, Goto
  <2>2. runs' \in 0..MaxRuns /\ breaks' \in 0..MaxBreaks
    BY <1>0, <2>1, InstallAssumption DEF ControlType
  <2>3. ControlType'
    BY <1>0, <2>1, <2>2 DEF ControlType, Steps
  <2>4. LinkType'
    BY <2>1 DEF LinkType
  <2> QED
    BY <1>2, <2>3, <2>4, TypeParts
<1>4. CASE PreRun \/ Plan \/ EndInstall
  <2>1. /\ UNCHANGED <<build, online, err, exit, runs, breaks>>
        /\ pc' \in {"fail", "plan", "endInstall", "uek", "repositories", "kairosBinaries"}
        /\ todo' \in {todo, {}, AgentBinaries}
    BY <1>4, Zenon DEF PreRun, Plan, EndInstall, Goto
  <2>2. todo' \subseteq Binaries
    BY <1>0, <2>1 DEF ControlType, Binaries
  <2>3. ControlType'
    BY <1>0, <2>1, <2>2 DEF ControlType, Steps
  <2>4. LinkType'
    BY <2>1 DEF LinkType
  <2> QED
    BY <1>2, <2>3, <2>4, TypeParts
<1>5. CASE Exit
  <2>1. /\ UNCHANGED <<build, online, err, runs, breaks>> /\ pc' = "idle" /\ todo' = {}
        /\ exit' \in {"ok", "fail"}
    BY <1>5, Zenon DEF Exit, Goto
  <2>2. ControlType'
    BY <1>0, <2>1 DEF ControlType, Steps
  <2>3. LinkType'
    BY <2>1 DEF LinkType
  <2> QED
    BY <1>2, <2>2, <2>3, TypeParts
<1>6. CASE UNCHANGED vars
  <2>1. ControlType' /\ LinkType'
    BY <1>0, <1>6, Zenon DEF vars, control, ControlType, LinkType
  <2> QED
    BY <1>2, <2>1, TypeParts
<1> QED
  BY <1>3, <1>4, <1>5, <1>6

\* The steps that write the binaries.
LEMMA TypeBinaries ==
    ASSUME TypeInv, KairosBinaries \/ InstallKairosInstaller \/ InstallProviderBinaries \/ KairosLink
    PROVE  TypeInv'
<1>0. ControlType /\ RootType /\ FilesType /\ LinkType /\ TypeOK
  BY TypeParts DEF TypeInv
<1>1. UNCHANGED <<build, online, err, exit, runs, installed, repos, sentinel, opencv>>
  BY Zenon DEF KairosBinaries, InstallKairosInstaller, InstallProviderBinaries, KairosLink, root
<1>2. RootType'
  BY <1>0, <1>1, SameRoot
<1>3. ASSUME pc' \in Steps, todo' \subseteq Binaries, breaks' \in 0..MaxBreaks,
             disk' \in [Binaries -> File], cut' \subseteq Binaries, UNCHANGED kairos,
             pc' = "kairosLink" => build.standard
      PROVE  TypeInv'
  <2>1. ControlType'
    BY <1>0, <1>1, <1>3, Zenon DEF ControlType
  <2>2. FilesType'
    BY <1>0, <1>1, <1>3, Zenon DEF FilesType
  <2>3. LinkType'
    BY <1>1, <1>3, Zenon DEF LinkType
  <2> QED
    BY <1>2, <2>1, <2>2, <2>3, TypeParts
<1>4. pc \in Steps /\ todo \subseteq Binaries /\ disk \in [Binaries -> File] /\ cut \subseteq Binaries
  BY <1>0 DEF TypeOK
<1>5. ProviderTodo \subseteq Binaries
  BY DEF ProviderTodo, Binaries
<1>6. CASE KairosBinaries \/ InstallProviderBinaries
  <2>0. UNCHANGED kairos /\ pc # "kairosLink"
    BY <1>6, Zenon DEF KairosBinaries, InstallProviderBinaries
  <2>1. CASE \E b \in todo : Write(b)
    <3>1. PICK b \in Binaries : Write(b)
      BY <1>4, <2>1
    <3>2. /\ disk' \in [Binaries -> File] /\ cut' \subseteq Binaries /\ todo' \subseteq Binaries
          /\ breaks' \in 0..MaxBreaks /\ pc' \in {pc, "fail"}
      BY <1>0, <3>1, WriteType
    <3>3. pc' \in Steps /\ pc' # "kairosLink"
      BY <1>4, <2>0, <3>2 DEF Steps
    <3> QED
      BY <1>3, <2>0, <3>2, <3>3
  <2>2. CASE ~ \E b \in todo : Write(b)
    <3>1. /\ UNCHANGED <<disk, cut>> /\ Holds /\ todo' \in {todo, ProviderTodo}
          /\ \/ pc' \in {"providerBinaries", "installer", "ok"}
             \/ pc' = "kairosLink" /\ build.standard
      BY <1>6, <2>2, Zenon DEF KairosBinaries, InstallProviderBinaries, Goto
    <3>2. todo' \subseteq Binaries /\ breaks' \in 0..MaxBreaks /\ pc' \in Steps
      BY <1>0, <1>4, <1>5, <3>1, BreaksType DEF Steps
    <3> QED
      BY <1>3, <1>4, <2>0, <3>1, <3>2
  <2> QED
    BY <2>1, <2>2
<1>7. CASE InstallKairosInstaller
  <2>1. /\ Holds \/ Breaks
        /\ UNCHANGED kairos /\ pc' \in {"fail", "providerBinaries"}
        /\ todo' \in {todo, ProviderTodo} /\ cut' \in {cut, cut \union {"kairos-installer"}}
        /\ disk' \in {disk, [disk EXCEPT !["kairos-installer"] = Whole],
                      [disk EXCEPT !["kairos-installer"] = [content |-> "part", exec |-> TRUE]]}
    BY <1>7, Zenon DEF InstallKairosInstaller, Goto
  <2>2. Whole \in File /\ [content |-> "part", exec |-> TRUE] \in File /\ "kairos-installer" \in Binaries
    BY DEF Whole, File, Binaries
  <2>3. /\ todo' \subseteq Binaries /\ cut' \subseteq Binaries /\ pc' \in Steps /\ pc' # "kairosLink"
        /\ disk' \in [Binaries -> File]
    BY <1>4, <1>5, <2>1, <2>2 DEF Steps
  <2>4. breaks' \in 0..MaxBreaks
    BY <1>0, <2>1, BreaksType
  <2> QED
    BY <1>3, <2>1, <2>3, <2>4
<1>8. CASE KairosLink
  <2>1. /\ UNCHANGED <<todo, breaks, disk, cut>> /\ pc' \in {"fail", "ok"} /\ kairos' = TRUE
        /\ build.standard
    BY <1>0, <1>8, Zenon DEF KairosLink, LinkType, Goto
  <2>2. ControlType'
    BY <1>0, <1>1, <2>1 DEF ControlType, Steps
  <2>3. FilesType'
    BY <1>0, <1>1, <2>1 DEF FilesType
  <2>4. LinkType'
    BY <2>1 DEF LinkType
  <2> QED
    BY <1>2, <2>2, <2>3, <2>4, TypeParts
<1> QED
  BY <1>6, <1>7, <1>8

\* TypeInv is inductive.
LEMMA TypeStep ==
    ASSUME TypeInv, [Next]_vars
    PROVE  TypeInv'
<1>1. CASE \/ Repositories \/ RemoveBundledKernel \/ BasePackagesStage \/ L4tRepositories
           \/ DgxSpark \/ OpencvLink \/ UekRepository \/ KernelPackagesStage
  BY <1>1, TypeStages
<1>2. CASE Run \/ PreRun \/ Plan \/ EndInstall \/ Exit \/ UNCHANGED vars
  BY <1>2, TypeEnds
<1>3. CASE KairosBinaries \/ InstallKairosInstaller \/ InstallProviderBinaries \/ KairosLink
  BY <1>3, TypeBinaries
<1> QED
  BY <1>1, <1>2, <1>3 DEF Next

\* It holds at first.
LEMMA TypeInit ==
    ASSUME Init
    PROVE  TypeInv
<1>1. ControlType
  <2>1. /\ build \in Builds /\ online = {} /\ pc = "idle" /\ todo = {} /\ err = FALSE /\ exit = "none"
        /\ runs = 0 /\ breaks = 0
    BY DEF Init
  <2>2. runs \in 0..MaxRuns /\ breaks \in 0..MaxBreaks
    BY <2>1, InstallAssumption
  <2> QED
    BY <2>1, <2>2 DEF ControlType, Steps
<1>2. installed \subseteq AnyPackage
  BY OwnCommand DEF Init
<1>3. RootType
  <2>1. (repos = {"stock"} \/ repos = {"stock", "uek"}) /\ sentinel = FALSE /\ opencv = 0
    BY Zenon DEF Init
  <2>2. repos \subseteq {"stock", "l4t", "cuda", "dgx", "uek"}
    <3>1. CASE repos = {"stock"}
      BY <3>1
    <3>2. CASE repos = {"stock", "uek"}
      BY <3>2
    <3> QED
      BY <2>1, <3>1, <3>2
  <2>3. sentinel \in BOOLEAN
    BY <2>1, Zenon
  <2>4. opencv \in 0..2
    <3>1. opencv = 0
      BY <2>1
    <3> QED
      BY <3>1
  <2> QED
    BY <1>2, <2>2, <2>3, <2>4, Zenon DEF RootType
<1>4. FilesType
  BY DEF Init, FilesType, Missing, File
<1>5. LinkType
  BY DEF Init, LinkType
<1> QED
  BY <1>1, <1>3, <1>4, <1>5, TypeParts

\* Every variable keeps its type, whatever the builds, the number of runs and of breaks.
THEOREM TypeCorrect == Spec => []TypeOK
<1>1. Init => TypeInv
  BY TypeInit
<1>2. TypeInv /\ [Next]_vars => TypeInv'
  BY TypeStep
<1>3. TypeInv => TypeOK
  BY DEF TypeInv
<1> QED
  BY <1>1, <1>2, <1>3, PTL DEF Spec

-----------------------------------------------------------------------------
(* What a good run installs.                                               *)

\* The steps that come after a stage has run; a later set holds the earlier ones' ends.
SinceEnd   == {"kairosBinaries", "installer", "providerBinaries", "kairosLink", "ok"}
SinceKernel  == SinceEnd \union {"endInstall"}
SinceSpark   == SinceKernel \union {"opencvLink", "uek", "kernel"}
SinceBase    == SinceSpark \union {"l4t", "dgx"}
SinceBundled == SinceBase \union {"basePackages"}
SinceRepos   == SinceBundled \union {"bundledKernel"}

\* The run is past a stage, or has ended well.
Past(steps) == pc \in steps \/ Succeeded

\* No package stage is left out.
Full == sys.distro # "Hadron" /\ {"installPackages", "installKernel"} \intersect build.skip = {}

Bundled == IF sys.distro = "SLEMicroRancher" THEN {"kernel-default"} ELSE {}

\* What is installed is planned, or a bundled kernel that has yet to go, and a
\* failure is known until the run ends.
Contents == /\ installed \subseteq AsPlanned \union Bundled
            /\ sys.name # "SLE Micro" => Bundled \subseteq installed
            /\ Past(SinceEnd) => ~err

\* What the stages the run is past have done, if none failed.
NoneBundled == Past(SinceBundled) => installed \subseteq AsPlanned
Brought ==
    /\ Past(SinceRepos) /\ sys.name = "SLE Micro" => "systemd-network" \in installed
    /\ Past(SinceBase) => GetPackages(sys, build) \subseteq installed
    /\ Past(SinceSpark) /\ build.model = "dgx-spark" => "nvidia-mlnx-tools" \in installed
    /\ Past(SinceKernel) => GetKernelPackages(sys, build) \subseteq installed

PlannedInv == /\ Contents
              /\ Full /\ ~err => NoneBundled /\ Brought

\* The plans depend on the build alone.
LEMMA SamePlans ==
    ASSUME UNCHANGED build
    PROVE  /\ sys' = sys /\ AsPlanned' = AsPlanned /\ Bundled' = Bundled /\ (Full' <=> Full)
           /\ GetPackages(sys, build)' = GetPackages(sys, build)
           /\ GetKernelPackages(sys, build)' = GetKernelPackages(sys, build)
<1>1. sys' = sys
  BY Zenon DEF sys
<1> QED
  BY <1>1, Zenon DEF AsPlanned, Bundled, Full

\* A step that installs nothing and is past no stage it was not past before.
LEMMA MovesOn ==
    ASSUME PlannedInv, UNCHANGED <<build, installed>>,
           Full /\ ~err' =>
             /\ Past(SinceRepos)' => ~err /\ Past(SinceRepos)
             /\ Past(SinceBundled)' => Past(SinceBundled)
             /\ Past(SinceBase)' => Past(SinceBase)
             /\ Past(SinceSpark)' => Past(SinceSpark)
             /\ Past(SinceKernel)' => Past(SinceKernel),
           Past(SinceEnd)' => ~err'
    PROVE  PlannedInv'
<1>1. Contents'
  BY SamePlans, Zenon DEF PlannedInv, Contents
<1>2. Full /\ ~err' => NoneBundled'
  <2>1. Past(SinceBundled)' => Past(SinceRepos)'
    BY Zenon DEF Past, SinceRepos
  <2> QED
    BY <2>1, SamePlans, Zenon DEF PlannedInv, NoneBundled
<1>3. Full /\ ~err' => Brought'
  <2>1. /\ Past(SinceKernel)' => Past(SinceSpark)'
        /\ Past(SinceSpark)' => Past(SinceBase)'
        /\ Past(SinceBase)' => Past(SinceRepos)'
    BY Zenon DEF Past, SinceKernel, SinceSpark, SinceBase, SinceBundled, SinceRepos
  <2> QED
    BY <2>1, SamePlans, Zenon DEF PlannedInv, Brought
<1> QED
  BY <1>1, <1>2, <1>3, SamePlans, Zenon DEF PlannedInv

\* The steps that install nothing.
LEMMA PlannedMoves ==
    ASSUME PlannedInv,
           \/ Run \/ PreRun \/ Plan \/ L4tRepositories \/ OpencvLink \/ UekRepository \/ EndInstall
           \/ KairosBinaries \/ InstallKairosInstaller \/ InstallProviderBinaries \/ KairosLink
           \/ Exit \/ UNCHANGED vars
    PROVE  PlannedInv'
<1> USE DEF Past, Succeeded, SinceEnd, SinceKernel, SinceSpark, SinceBase, SinceBundled, SinceRepos
<1>0. Past(SinceEnd) => ~err
  BY DEF PlannedInv, Contents
<1>1. CASE Run
  <2>1. UNCHANGED <<build, installed>> /\ pc' = "preRun"
    BY <1>1, Zenon DEF Run, Goto, root
  <2> QED
    BY <2>1, MovesOn
<1>2. CASE PreRun
  <2>1. UNCHANGED <<build, installed>> /\ pc' \in {"fail", "plan"}
    BY <1>2, Zenon DEF PreRun, Goto, root
  <2> QED
    BY <2>1, MovesOn
<1>3. CASE Plan
  <2>1. UNCHANGED <<build, installed>> /\ (Full => pc' \in {"fail", "repositories"})
        /\ pc' \in {"fail", "repositories", "uek", "endInstall"}
    BY <1>3, Zenon DEF Plan, Goto, root, Full, ContainsSkipStep
  <2> QED
    BY <2>1, MovesOn
<1>4. CASE L4tRepositories
  <2>1. UNCHANGED <<build, installed>> /\ pc = "l4t" /\ pc' = "dgx" /\ (err => err')
    BY <1>4, Zenon DEF L4tRepositories, Then, Goto
  <2> QED
    BY <2>1, MovesOn
<1>5. CASE OpencvLink
  <2>1. UNCHANGED <<build, installed>> /\ pc = "opencvLink" /\ pc' = "uek" /\ (err => err')
    BY <1>5, Zenon DEF OpencvLink, Then, Goto
  <2> QED
    BY <2>1, MovesOn
<1>6. CASE UekRepository
  <2>1. /\ UNCHANGED <<build, installed>> /\ pc = "uek" /\ (Full => pc' = "kernel")
        /\ pc' \in {"kernel", "endInstall"} /\ (err => err')
    BY <1>6, Zenon DEF UekRepository, AfterUek, Then, Goto, Full, ContainsSkipStep
  <2> QED
    BY <2>1, MovesOn
<1>7. CASE EndInstall
  <2>1. UNCHANGED <<build, installed, err>> /\ pc = "endInstall" /\ pc' = IF err THEN "fail" ELSE "kairosBinaries"
    BY <1>7, Zenon DEF EndInstall, Goto, root
  <2> QED
    BY <2>1, MovesOn
<1>8. CASE KairosBinaries \/ InstallKairosInstaller \/ InstallProviderBinaries \/ KairosLink
  <2>1. /\ UNCHANGED <<build, installed, err>> /\ pc \in SinceEnd
        /\ pc' \in {"fail", "installer", "kairosLink", "ok", "kairosBinaries", "providerBinaries"}
    BY <1>8, Zenon DEF KairosBinaries, InstallKairosInstaller, InstallProviderBinaries, KairosLink,
                       Write, Goto, root
  <2> QED
    BY <1>0, <2>1, MovesOn
<1>9. CASE Exit
  <2>1. UNCHANGED <<build, installed, err>> /\ pc' = "idle" /\ exit' = pc /\ pc \in {"ok", "fail"}
    BY <1>9, Zenon DEF Exit, Goto, root
  <2> QED
    BY <1>0, <2>1, MovesOn
<1>10. CASE UNCHANGED vars
  <2>1. UNCHANGED <<build, installed, err, pc, exit>>
    BY <1>10 DEF vars, control, root
  <2> QED
    BY <1>0, <2>1, MovesOn
<1> QED
  BY <1>1, <1>2, <1>3, <1>4, <1>5, <1>6, <1>7, <1>8, <1>9, <1>10

\* What an install command does when it is not known to have failed.
LEMMA InstallBrings ==
    ASSUME NEW pkgs, NEW next, Install(pkgs, next)
    PROVE  /\ installed \subseteq installed' /\ installed' \subseteq installed \union pkgs
           /\ pc' = next
           /\ ~err' => ~err /\ installed' = installed \union pkgs
<1>1. installed' \in {installed, installed \union pkgs, installed \union {p \in pkgs : Source(p) \in repos}}
  BY Zenon DEF Install
<1>2. pc' = next /\ (~err' => ~err /\ installed' = installed \union pkgs)
  BY Zenon DEF Install, Then, Goto
<1> QED
  BY <1>1, <1>2

\* The parts of the plan.
LEMMA PlanParts ==
    /\ GetPackages(sys, build) \subseteq AsPlanned
    /\ GetKernelPackages(sys, build) \subseteq AsPlanned
    /\ sys.name = "SLE Micro" => "systemd-network" \in AsPlanned
    /\ build.model = "dgx-spark" => "nvidia-mlnx-tools" \in AsPlanned
    /\ Bundled \subseteq {"kernel-default"}
    /\ sys.name # "SLE Micro" => Bundled \subseteq AsPlanned
BY DEF AsPlanned, Bundled

\* The steps that install.
LEMMA PlannedInstalls ==
    ASSUME PlannedInv, Repositories \/ RemoveBundledKernel \/ BasePackagesStage \/ DgxSpark
                       \/ KernelPackagesStage
    PROVE  PlannedInv'
<1> USE DEF Past, Succeeded, SinceEnd, SinceKernel, SinceSpark, SinceBase, SinceBundled, SinceRepos
<1>0. /\ installed \subseteq AsPlanned \union Bundled
      /\ sys.name # "SLE Micro" => Bundled \subseteq installed
      /\ Full /\ ~err => NoneBundled /\ Brought
  BY Zenon DEF PlannedInv, Contents
<1>a. UNCHANGED build
  BY Zenon DEF Repositories, RemoveBundledKernel, BasePackagesStage, DgxSpark, KernelPackagesStage
<1>1. CASE Repositories
  <2>1. /\ pc' = "bundledKernel"
        /\ installed' = installed \/ (installed' = installed \union {"systemd-network"} /\ sys.name = "SLE Micro")
        /\ ~err' /\ sys.name = "SLE Micro" => "systemd-network" \in installed'
    <3>1. /\ \/ installed' \in {installed, installed \union Borrowed} /\ err' = (err \/ TRUE)
             \/ installed' = installed \union Borrowed
          /\ pc' = "bundledKernel"
      BY <1>1, Zenon DEF Repositories, Then, Goto
    <3> QED
      BY <3>1 DEF Borrowed
  <2>2. Contents'
    <3>1. installed' \subseteq AsPlanned \union Bundled /\ (sys.name # "SLE Micro" => Bundled \subseteq installed')
      BY <1>0, <2>1, PlanParts
    <3> QED
      BY <1>a, <2>1, <3>1, SamePlans DEF Contents
  <2>3. NoneBundled'
    BY <2>1 DEF NoneBundled
  <2>4. ~err' => Brought'
    BY <1>a, <2>1, SamePlans DEF Brought
  <2> QED
    BY <2>2, <2>3, <2>4, Zenon DEF PlannedInv
<1>2. CASE RemoveBundledKernel
  <2>1. /\ pc = "bundledKernel" /\ pc' = "basePackages" /\ (~err' => ~err)
        /\ installed' \subseteq installed /\ (sys.name # "SLE Micro" => UNCHANGED installed)
        /\ ~err' /\ sys.name = "SLE Micro" => installed' = installed \ {"kernel-default"}
    <3>1. \/ /\ installed' = IF sys.name = "SLE Micro" THEN installed \ {"kernel-default"} ELSE installed
             /\ err' = (err \/ FALSE)
          \/ sys.name = "SLE Micro" /\ UNCHANGED installed /\ err' = (err \/ TRUE)
      BY <1>2, Zenon DEF RemoveBundledKernel, Then
    <3>2. pc = "bundledKernel" /\ pc' = "basePackages"
      BY <1>2, Zenon DEF RemoveBundledKernel, Then, Goto
    <3> QED
      BY <3>1, <3>2
  <2>2. ~err' => installed' \subseteq AsPlanned
    BY <1>0, <2>1, PlanParts
  <2>3. Contents'
    <3>1. installed' \subseteq AsPlanned \union Bundled /\ (sys.name # "SLE Micro" => Bundled \subseteq installed')
      BY <1>0, <2>1
    <3> QED
      BY <1>a, <2>1, <3>1, SamePlans DEF Contents
  <2>4. ~err' => NoneBundled'
    BY <1>a, <2>2, SamePlans DEF NoneBundled
  <2>5. Full /\ ~err' => Brought'
    <3>1. Full /\ ~err' /\ sys.name = "SLE Micro" => "systemd-network" \in installed'
      BY <1>0, <2>1 DEF Brought
    <3> QED
      BY <1>a, <2>1, <3>1, SamePlans DEF Brought
  <2> QED
    BY <1>a, <2>3, <2>4, <2>5, SamePlans, Zenon DEF PlannedInv
<1>3. CASE BasePackagesStage
  <2> DEFINE pkgs == GetPackages(sys, build)
  <2>1. pc = "basePackages" /\ Install(pkgs, "l4t")
    BY <1>3 DEF BasePackagesStage
  <2> HIDE DEF pkgs
  <2>2. /\ installed \subseteq installed' /\ installed' \subseteq installed \union pkgs
        /\ pc' = "l4t" /\ (~err' => ~err /\ installed' = installed \union pkgs)
    BY <2>1, InstallBrings
  <2>3. pkgs \subseteq AsPlanned
    BY PlanParts DEF pkgs
  <2>4. Contents'
    <3>1. installed' \subseteq AsPlanned \union Bundled /\ (sys.name # "SLE Micro" => Bundled \subseteq installed')
      BY <1>0, <2>2, <2>3
    <3> QED
      BY <1>a, <2>2, <3>1, SamePlans DEF Contents
  <2>5. Full /\ ~err' => NoneBundled'
    <3>1. Full /\ ~err' => installed' \subseteq AsPlanned
      BY <1>0, <2>1, <2>2, <2>3 DEF NoneBundled
    <3> QED
      BY <1>a, <3>1, SamePlans DEF NoneBundled
  <2>6. Full /\ ~err' => Brought'
    <3>1. Full /\ ~err' /\ sys.name = "SLE Micro" => "systemd-network" \in installed'
      BY <1>0, <2>1, <2>2 DEF Brought
    <3>2. ~err' => pkgs \subseteq installed'
      BY <2>2
    <3> QED
      BY <1>a, <2>2, <3>1, <3>2, SamePlans DEF Brought, pkgs
  <2> QED
    BY <1>a, <2>4, <2>5, <2>6, SamePlans, Zenon DEF PlannedInv
<1>4. CASE DgxSpark
  <2>1. /\ pc = "dgx" /\ pc' = "opencvLink" /\ (~err' => ~err)
        /\ installed' = installed
           \/ (installed' = installed \union {"nvidia-mlnx-tools"} /\ build.model = "dgx-spark")
        /\ ~err' /\ build.model = "dgx-spark" => "nvidia-mlnx-tools" \in installed'
    <3>1. \/ UNCHANGED installed /\ build.model = "dgx-spark" /\ err' = (err \/ TRUE)
          \/ UNCHANGED installed /\ build.model # "dgx-spark" /\ err' = (err \/ FALSE)
          \/ /\ installed' = installed \union {"nvidia-mlnx-tools"} /\ build.model = "dgx-spark"
             /\ err' = (err \/ FALSE)
      BY <1>4, Zenon DEF DgxSpark, Then
    <3>2. pc = "dgx" /\ pc' = "opencvLink"
      BY <1>4, Zenon DEF DgxSpark, Then, Goto
    <3> QED
      BY <3>1, <3>2
  <2>2. Contents'
    <3>1. installed' \subseteq AsPlanned \union Bundled /\ (sys.name # "SLE Micro" => Bundled \subseteq installed')
      BY <1>0, <2>1, PlanParts
    <3> QED
      BY <1>a, <2>1, <3>1, SamePlans DEF Contents
  <2>3. Full /\ ~err' => NoneBundled'
    <3>1. Full /\ ~err' => installed' \subseteq AsPlanned
      BY <1>0, <2>1, PlanParts DEF NoneBundled
    <3> QED
      BY <1>a, <3>1, SamePlans DEF NoneBundled
  <2>4. Full /\ ~err' => Brought'
    <3>1. Full /\ ~err' => /\ sys.name = "SLE Micro" => "systemd-network" \in installed'
                           /\ GetPackages(sys, build) \subseteq installed'
      BY <1>0, <2>1 DEF Brought
    <3> QED
      BY <1>a, <2>1, <3>1, SamePlans DEF Brought
  <2> QED
    BY <1>a, <2>2, <2>3, <2>4, SamePlans, Zenon DEF PlannedInv
<1>5. CASE KernelPackagesStage
  <2> DEFINE pkgs == GetKernelPackages(sys, build)
  <2>1. pc = "kernel" /\ Install(pkgs, "endInstall")
    BY <1>5 DEF KernelPackagesStage
  <2> HIDE DEF pkgs
  <2>2. /\ installed \subseteq installed' /\ installed' \subseteq installed \union pkgs
        /\ pc' = "endInstall" /\ (~err' => ~err /\ installed' = installed \union pkgs)
    BY <2>1, InstallBrings
  <2>3. pkgs \subseteq AsPlanned
    BY PlanParts DEF pkgs
  <2>4. Contents'
    <3>1. installed' \subseteq AsPlanned \union Bundled /\ (sys.name # "SLE Micro" => Bundled \subseteq installed')
      BY <1>0, <2>2, <2>3
    <3> QED
      BY <1>a, <2>2, <3>1, SamePlans DEF Contents
  <2>5. Full /\ ~err' => NoneBundled'
    <3>1. Full /\ ~err' => installed' \subseteq AsPlanned
      BY <1>0, <2>1, <2>2, <2>3 DEF NoneBundled
    <3> QED
      BY <1>a, <3>1, SamePlans DEF NoneBundled
  <2>6. Full /\ ~err' => Brought'
    <3>1. Full /\ ~err' => /\ sys.name = "SLE Micro" => "systemd-network" \in installed'
                           /\ GetPackages(sys, build) \subseteq installed'
                           /\ build.model = "dgx-spark" => "nvidia-mlnx-tools" \in installed'
      BY <1>0, <2>1, <2>2 DEF Brought
    <3>2. ~err' => pkgs \subseteq installed'
      BY <2>2
    <3> QED
      BY <1>a, <2>2, <3>1, <3>2, SamePlans DEF Brought, pkgs
  <2> QED
    BY <1>a, <2>4, <2>5, <2>6, SamePlans, Zenon DEF PlannedInv
<1> QED
  BY <1>1, <1>2, <1>3, <1>4, <1>5

\* PlannedInv is inductive.
LEMMA PlannedStep ==
    ASSUME PlannedInv, [Next]_vars
    PROVE  PlannedInv'
<1>1. CASE \/ Repositories \/ RemoveBundledKernel \/ BasePackagesStage \/ DgxSpark
           \/ KernelPackagesStage
  BY <1>1, PlannedInstalls
<1>2. CASE \/ Run \/ PreRun \/ Plan \/ L4tRepositories \/ OpencvLink \/ UekRepository \/ EndInstall
           \/ KairosBinaries \/ InstallKairosInstaller \/ InstallProviderBinaries \/ KairosLink
           \/ Exit \/ UNCHANGED vars
  BY <1>2, PlannedMoves
<1> QED
  BY <1>1, <1>2 DEF Next

\* It holds at first: SLE Micro has its bundled kernel, and nothing is past.
LEMMA PlannedInit ==
    ASSUME Init
    PROVE  PlannedInv
<1>1. installed = Bundled
  BY Zenon DEF Init, Bundled
<1>2. pc = "idle" /\ exit = "none"
  BY DEF Init
<1>3. Contents
  BY <1>1, <1>2, Zenon DEF Contents, Past, Succeeded, SinceEnd
<1>4. ~Past(SinceRepos) /\ ~Past(SinceBundled) /\ ~Past(SinceBase) /\ ~Past(SinceSpark) /\ ~Past(SinceKernel)
  BY <1>2 DEF Past, Succeeded, SinceEnd, SinceKernel, SinceSpark, SinceBase, SinceBundled, SinceRepos
<1> QED
  BY <1>3, <1>4, Zenon DEF PlannedInv, NoneBundled, Brought

\* After a good run every stage is past and none failed.
LEMMA PlannedGood ==
    ASSUME PlannedInv
    PROVE  PackagesAsPlanned
<1> SUFFICES ASSUME Succeeded, Full
             PROVE  installed = AsPlanned
  BY Zenon DEF PackagesAsPlanned, Full
<1>1. ~err /\ NoneBundled /\ Brought /\ (sys.name # "SLE Micro" => Bundled \subseteq installed)
  BY Zenon DEF PlannedInv, Contents, Past
<1>2. installed \subseteq AsPlanned
  BY <1>1, Zenon DEF NoneBundled, Past
<1>3. /\ sys.name = "SLE Micro" => "systemd-network" \in installed
      /\ GetPackages(sys, build) \subseteq installed
      /\ build.model = "dgx-spark" => "nvidia-mlnx-tools" \in installed
      /\ GetKernelPackages(sys, build) \subseteq installed
  BY <1>1, Zenon DEF Brought, Past
<1>4. AsPlanned \subseteq installed
  BY <1>1, <1>3 DEF AsPlanned, Bundled
<1> QED
  BY <1>2, <1>4

\* A run that ends well has installed what the plans name, and nothing else, on any
\* system and whatever earlier runs left.
THEOREM InstallsWhatIsPlanned == Spec => []PackagesAsPlanned
<1>1. Init => PlannedInv
  BY PlannedInit
<1>2. PlannedInv /\ [Next]_vars => PlannedInv'
  BY PlannedStep
<1>3. PlannedInv => PackagesAsPlanned
  BY PlannedGood
<1> QED
  BY <1>1, <1>2, <1>3, PTL DEF Spec

-----------------------------------------------------------------------------
(* What it is worth on a tested system.                                    *)

\* What a good run on a tested system leaves: the plans, and nothing beside them.
LEMMA GoodRun ==
    ASSUME TypeOK, PackagesAsPlanned, Succeeded, Tested
    PROVE  /\ IsBuild(build) /\ SupportedBuild(build)
           /\ GetPackages(sys, build) \subseteq installed
           /\ sys.name = "SLE Micro" => "systemd-network" \in installed
           /\ \E more \in SUBSET {"systemd-network", "nvidia-mlnx-tools"} :
                installed = GetPackages(sys, build) \union GetKernelPackages(sys, build) \union more
<1>1. IsBuild(build) /\ SupportedBuild(build)
  BY InstallAssumption DEF TypeOK, Tested
<1>2. /\ <<sys.distro, sys.family, sys.name>> \in TestedSystems
      /\ build.skip = {}
  BY <1>1, Zenon DEF SupportedBuild, sys
<1>3. sys.distro # "Hadron" /\ (sys.distro = "SLEMicroRancher" => sys.name = "SLE Micro")
  BY <1>2, SystemKinds
<1>4. installed = AsPlanned
  BY <1>2, <1>3 DEF PackagesAsPlanned
<1>5. installed = GetPackages(sys, build) \union GetKernelPackages(sys, build)
        \union ((IF sys.name = "SLE Micro" THEN {"systemd-network"} ELSE {})
                \union (IF build.model = "dgx-spark" THEN {"nvidia-mlnx-tools"} ELSE {}))
  BY <1>3, <1>4 DEF AsPlanned
<1> QED
  BY <1>1, <1>5

\* The plan names one kernel, and what is beside the plan is no kernel.
LEMMA OneKernelGood ==
    ASSUME TypeOK, PackagesAsPlanned
    PROVE  OneKernel
<1> SUFFICES ASSUME Succeeded, Tested
             PROVE  Cardinality(installed \intersect Kernels) = 1
  BY DEF OneKernel
<1>1. PICK more \in SUBSET {"systemd-network", "nvidia-mlnx-tools"} :
        installed = GetPackages(sys, build) \union GetKernelPackages(sys, build) \union more
  BY GoodRun, Zenon
<1>2. PICK k : (GetPackages(sys, build) \union GetKernelPackages(sys, build)) \intersect Kernels = {k}
  BY GoodRun, PlannedKernel, Zenon DEF sys
<1>3. {"systemd-network", "nvidia-mlnx-tools"} \intersect Kernels = {}
  BY KernelNames
<1>4. installed \intersect Kernels = {k}
  BY <1>1, <1>2, <1>3
<1> QED
  BY <1>4, FS_Singleton

\* The modules need nothing but the plan.
LEMMA ModulesGood ==
    ASSUME TypeOK, PackagesAsPlanned
    PROVE  InitramfsModulesProvided
<1> SUFFICES ASSUME Succeeded, Tested, ~build.trusted, NEW m \in InitramfsModules(sys, installed)
             PROVE  ModuleProvided(sys, installed, m)
  BY Zenon DEF InitramfsModulesProvided
<1> QED
  BY GoodRun, PlannedModules, Zenon DEF sys

\* Nor do the services.
LEMMA ServicesGood ==
    ASSUME TypeOK, PackagesAsPlanned
    PROVE  ServicesProvided
<1> SUFFICES ASSUME Succeeded, Tested, NEW u \in EnabledServices(sys, installed)
             PROVE  ServiceProvided(sys, installed, u)
  BY Zenon DEF ServicesProvided
<1> QED
  BY GoodRun, PlannedServices, Zenon DEF sys

\* A good install of any build the project tests has brought exactly one kernel.
THEOREM OneKernelInstalled == Spec => []OneKernel
<1>1. TypeOK /\ PackagesAsPlanned => OneKernel
  BY OneKernelGood
<1> QED
  BY <1>1, TypeCorrect, InstallsWhatIsPlanned, PTL

\* Every dracut module the initramfs of a tested system is told to add is provided.
THEOREM ModulesProvided == Spec => []InitramfsModulesProvided
<1>1. TypeOK /\ PackagesAsPlanned => InitramfsModulesProvided
  BY ModulesGood
<1> QED
  BY <1>1, TypeCorrect, InstallsWhatIsPlanned, PTL

\* Every service that is enabled on a tested system is provided.
THEOREM AllServicesProvided == Spec => []ServicesProvided
<1>1. TypeOK /\ PackagesAsPlanned => ServicesProvided
  BY ServicesGood
<1> QED
  BY <1>1, TypeCorrect, InstallsWhatIsPlanned, PTL

-----------------------------------------------------------------------------
(* Why a run fails.                                                        *)

\* The system with a bundled kernel that has to go.
Micro == sys.name = "SLE Micro"

\* What FailureIsExplained blames a failure on.
Excused == breaks > 0 \/ (runs > 1 /\ (build.standard \/ build.model \in Orin \/ Micro))

\* The steps of a run up to the link to the OpenCV headers, and to the link kairos.
UpToLink   == {"preRun", "plan", "repositories", "bundledKernel", "basePackages", "l4t", "dgx",
               "opencvLink"}
UpToKairos == UpToLink \union {"uek", "kernel", "endInstall", "kairosBinaries", "installer",
               "providerBinaries", "kairosLink"}

\* A failure that is under way has its excuse.
ErrExcused == err \/ pc = "fail" \/ (pc = "idle" /\ exit = "fail") => Excused

\* The repositories that the packages of the plans come from.
ReposThere ==
    /\ "stock" \in repos
    /\ sys.distro = "OracleLinux" =>
         /\ sys.version[1] = 9 => "uek" \in repos
         /\ pc = "kernel" /\ build.arch = "arm64" => "uek" \in repos \/ Excused
    /\ pc \in {"dgx", "opencvLink", "uek", "kernel"} => JetsonRepos \subseteq repos \/ Excused

\* A link that is there before its step was made in an earlier run.
LinksEarlier ==
    /\ pc # "idle" => runs > 0
    /\ opencv > 0 => runs > 0 /\ (pc \in UpToLink => runs > 1)
    /\ kairos     => runs > 0 /\ (pc \in UpToKairos => runs > 1)

\* The bundled kernel that is gone before its step was removed in an earlier run.
BundledEarlier ==
    Micro /\ "kernel-default" \notin installed =>
      runs > 0 /\ (pc \in {"preRun", "plan", "repositories", "bundledKernel"} => runs > 1)

ExplainedInv == ErrExcused /\ ReposThere /\ LinksEarlier /\ BundledEarlier

\* What the invariant uses of a tested build.
SoundBuild ==
    /\ build.arch \in RequiredArch(build.model)
    /\ ~(build.fips /\ build.arch = "riscv64") /\ ~(build.fips /\ sys.distro = "Ubuntu")
    /\ Full /\ build.skip = {} /\ sys.version # NoVersion
    /\ sys.distro = "OracleLinux" <=> sys.name = "Oracle Linux"
    /\ sys.distro = "OracleLinux" => sys.version[1] \in 9..10
    /\ sys.name = "SLE Micro" => sys.distro = "SLEMicroRancher"
    /\ build.model \in Jetson => {"curl", "gnupg"} \subseteq GetPackages(sys, build)
    /\ \A p \in GetPackages(sys, build) : Source(p) = "stock"
    /\ \A p \in GetKernelPackages(sys, build) :
          \/ Source(p) = "stock"
          \/ Source(p) = "uek" /\ sys.distro = "OracleLinux" /\ build.arch = "arm64"
          \/ Source(p) \in JetsonRepos

\* The assumption on the supported builds gives it.
LEMMA TestedIsSound ==
    ASSUME build \in Builds, Tested
    PROVE  SoundBuild
<1>1. IsBuild(build) /\ SupportedBuild(build)
  BY InstallAssumption DEF Tested
<1>2. /\ Dated(sys) /\ sys.arch = build.arch
      /\ <<sys.distro, sys.family, sys.name>> \in TestedSystems
      /\ build.arch \in RequiredArch(build.model)
      /\ TestedModel(sys, build.model) /\ TestedRelease(sys)
  BY <1>1, SystemOf, Zenon DEF sys
<1>3. /\ build.skip = {} /\ (build.fips => build.arch # "riscv64" /\ sys.distro # "Ubuntu")
  BY <1>1, Zenon DEF SupportedBuild, sys
<1>4. Full
  BY <1>2, <1>3, SystemKinds DEF Full
<1>5. /\ sys.distro = "OracleLinux" <=> sys.name = "Oracle Linux"
      /\ sys.name = "SLE Micro" => sys.distro = "SLEMicroRancher"
  BY <1>2, SystemKinds
<1>6. sys.version # NoVersion /\ (sys.distro = "OracleLinux" => sys.version[1] \in 9..10)
  BY <1>2, Zenon DEF TestedRelease, Dated
<1>7. ASSUME build.model \in Jetson
      PROVE  {"curl", "gnupg"} \subseteq GetPackages(sys, build)
  <2>1. sys.distro = "Ubuntu"
    BY <1>2, <1>7 DEF TestedModel, Jetson, Orin
  <2>2. sys.family = "DebianFamily"
    BY <1>2, <2>1, SystemKinds
  <2> QED
    BY <1>2, <2>2, DebianFamilyHas
<1>8. /\ build.model \in Jetson => "l4t" \in JetsonRepos
      /\ build.model \in Orin => "cuda" \in JetsonRepos
  BY DEF JetsonRepos, Jetson, Orin
<1>9. /\ \A p \in GetPackages(sys, build) : Source(p) = "stock"
      /\ \A p \in GetKernelPackages(sys, build) :
            \/ Source(p) = "stock"
            \/ Source(p) = "uek" /\ sys.distro = "OracleLinux" /\ sys.arch = "arm64"
            \/ Source(p) = "l4t" /\ build.model \in Jetson
            \/ Source(p) = "cuda" /\ build.model \in Orin
  BY <1>1, PlannedSources, Zenon DEF sys
<1> QED
  BY <1>2, <1>3, <1>4, <1>5, <1>6, <1>7, <1>8, <1>9, Zenon DEF SoundBuild

\* Within a run an excuse stays, and what breaks is one.
LEMMA ExcuseStays ==
    ASSUME TypeOK, UNCHANGED <<build, runs>>, Holds \/ Breaks
    PROVE  (Excused => Excused') /\ (Breaks => Excused')
<1>1. breaks \in Nat
  BY InstallAssumption DEF TypeOK
<1>2. Micro' = Micro
  BY Zenon DEF Micro, sys
<1> QED
  BY <1>1, <1>2 DEF Excused, Holds, Breaks

\* A package stage fails for a reason if it finds its repositories.
LEMMA InstallExcused ==
    ASSUME TypeOK, UNCHANGED <<build, runs>>, NEW pkgs, NEW next, Install(pkgs, next),
           (\A p \in pkgs : Source(p) \in repos) \/ Excused, err => Excused
    PROVE  err' => Excused'
<1>1. Holds \/ Breaks
  BY Zenon DEF Install
<1>2. (Excused => Excused') /\ (Breaks => Excused')
  BY <1>1, ExcuseStays
<1>3. err' => err \/ Breaks \/ ~(\A p \in pkgs : Source(p) \in repos)
  BY Zenon DEF Install, Then
<1> QED
  BY <1>2, <1>3

\* The steps of a run that is under way.
InRun == \/ PreRun \/ Plan \/ Repositories \/ RemoveBundledKernel \/ BasePackagesStage
         \/ L4tRepositories \/ DgxSpark \/ OpencvLink \/ UekRepository \/ KernelPackagesStage
         \/ EndInstall \/ KairosBinaries \/ InstallKairosInstaller \/ InstallProviderBinaries
         \/ KairosLink \/ Exit

\* The steps of a run keep its number and its build.
LEMMA InRunKeeps ==
    ASSUME InRun
    PROVE  UNCHANGED <<build, runs>> /\ (Holds \/ Breaks)
<1>1. CASE PreRun \/ Plan \/ OpencvLink \/ EndInstall \/ KairosLink \/ Exit
  BY <1>1, Zenon DEF PreRun, Plan, OpencvLink, EndInstall, KairosLink, Exit, Holds
<1>2. CASE Repositories \/ RemoveBundledKernel \/ L4tRepositories \/ DgxSpark \/ UekRepository
  BY <1>2, Zenon DEF Repositories, RemoveBundledKernel, L4tRepositories, DgxSpark, UekRepository
<1>3. CASE BasePackagesStage \/ KernelPackagesStage
  BY <1>3, Zenon DEF BasePackagesStage, KernelPackagesStage, Install
<1>4. CASE KairosBinaries \/ InstallProviderBinaries
  BY <1>4, Zenon DEF KairosBinaries, InstallProviderBinaries, Write
<1>5. CASE InstallKairosInstaller
  BY <1>5, Zenon DEF InstallKairosInstaller
<1> QED
  BY <1>1, <1>2, <1>3, <1>4, <1>5 DEF InRun

\* A link is made in the last step of its set, and a new run is a later one.
LEMMA LinksStep ==
    ASSUME TypeOK, LinksEarlier, Next
    PROVE  LinksEarlier'
<1> USE DEF UpToLink, UpToKairos
<1>0. runs \in Nat /\ opencv \in 0..2
  BY InstallAssumption DEF TypeOK
<1>1. CASE Run
  <2>1. pc = "idle" /\ pc' = "preRun" /\ runs' = runs + 1 /\ UNCHANGED <<opencv, kairos>>
    BY <1>1 DEF Run, Goto, root, files
  <2> QED
    BY <1>0, <2>1 DEF LinksEarlier
<1>2. CASE PreRun \/ Plan
  <2>1. /\ pc \in {"preRun", "plan"} /\ UNCHANGED <<opencv, kairos, runs>>
        /\ pc' \in {"fail", "plan", "repositories", "uek", "endInstall"}
    BY <1>2, Zenon DEF PreRun, Plan, Goto, root, files
  <2> QED
    BY <2>1 DEF LinksEarlier
<1>3. CASE Repositories \/ RemoveBundledKernel \/ L4tRepositories \/ DgxSpark
  <2>1. /\ pc \in UpToLink /\ UNCHANGED <<opencv, kairos, runs>>
        /\ pc' \in UpToLink
    BY <1>3, Zenon DEF Repositories, RemoveBundledKernel, L4tRepositories, DgxSpark, Then, Goto, files
  <2> QED
    BY <2>1 DEF LinksEarlier
<1>4. CASE BasePackagesStage \/ KernelPackagesStage
  <2>1. UNCHANGED <<opencv, kairos, runs>>
    BY <1>4, Zenon DEF BasePackagesStage, KernelPackagesStage, files
  <2>2. (pc = "basePackages" /\ pc' = "l4t") \/ (pc = "kernel" /\ pc' = "endInstall")
    BY <1>4, InstallBrings DEF BasePackagesStage, KernelPackagesStage
  <2> QED
    BY <2>1, <2>2 DEF LinksEarlier
<1>5. CASE OpencvLink
  <2>1. pc = "opencvLink" /\ pc' = "uek" /\ UNCHANGED <<kairos, runs>>
    BY <1>5, Zenon DEF OpencvLink, Then, Goto, files
  <2> QED
    BY <2>1 DEF LinksEarlier
<1>6. CASE UekRepository \/ EndInstall
  <2>1. /\ pc \in {"uek", "endInstall"} /\ UNCHANGED <<opencv, kairos, runs>>
        /\ pc' \in {"kernel", "endInstall", "fail", "kairosBinaries"}
    BY <1>6, Zenon DEF UekRepository, AfterUek, EndInstall, Then, Goto, root, files
  <2> QED
    BY <2>1 DEF LinksEarlier
<1>7. CASE KairosBinaries \/ InstallKairosInstaller \/ InstallProviderBinaries
  <2>1. /\ pc \in {"kairosBinaries", "installer", "providerBinaries"}
        /\ UNCHANGED <<opencv, kairos, runs>>
        /\ pc' \in {"kairosBinaries", "installer", "providerBinaries", "kairosLink", "ok", "fail"}
    BY <1>7, Zenon DEF KairosBinaries, InstallKairosInstaller, InstallProviderBinaries, Write,
                       Goto, root
  <2> QED
    BY <2>1 DEF LinksEarlier
<1>8. CASE KairosLink
  <2>1. pc = "kairosLink" /\ pc' \in {"ok", "fail"} /\ UNCHANGED <<opencv, runs>>
    BY <1>8, Zenon DEF KairosLink, Goto, root
  <2> QED
    BY <2>1 DEF LinksEarlier
<1>9. CASE Exit
  <2>1. pc \in {"ok", "fail"} /\ pc' = "idle" /\ UNCHANGED <<opencv, kairos, runs>>
    BY <1>9, Zenon DEF Exit, Goto, root, files
  <2> QED
    BY <2>1 DEF LinksEarlier
<1> QED
  BY <1>1, <1>2, <1>3, <1>4, <1>5, <1>6, <1>7, <1>8, <1>9 DEF Next

\* The bundled kernel goes in its step alone, and a new run is a later one.
LEMMA BundledStep ==
    ASSUME TypeOK, LinksEarlier, BundledEarlier, Next
    PROVE  BundledEarlier'
<1> DEFINE UpToBundled == {"preRun", "plan", "repositories", "bundledKernel"}
<1>0. runs \in Nat
  BY InstallAssumption DEF TypeOK
<1>1. Micro' = Micro
  <2>1. UNCHANGED build
    BY Zenon DEF Next, Run, PreRun, Plan, Repositories, RemoveBundledKernel, BasePackagesStage,
                 L4tRepositories, DgxSpark, OpencvLink, UekRepository, KernelPackagesStage,
                 EndInstall, KairosBinaries, InstallKairosInstaller, InstallProviderBinaries,
                 KairosLink, Exit
  <2> QED
    BY <2>1, Zenon DEF Micro, sys
<1>2. CASE Run
  <2>1. runs' = runs + 1 /\ UNCHANGED installed
    BY <1>2 DEF Run, root
  <2> QED
    BY <1>0, <1>1, <2>1 DEF BundledEarlier
<1>3. CASE PreRun \/ Plan \/ Repositories
  <2>1. pc \in UpToBundled /\ UNCHANGED runs
    BY <1>3 DEF PreRun, Plan, Repositories
  <2>2. installed \subseteq installed'
    BY <1>3 DEF PreRun, Plan, Repositories, root
  <2> QED
    BY <1>1, <2>1, <2>2 DEF BundledEarlier
<1>4. CASE RemoveBundledKernel
  <2>1. pc = "bundledKernel" /\ pc' = "basePackages" /\ UNCHANGED runs
    BY <1>4, Zenon DEF RemoveBundledKernel, Then, Goto
  <2> QED
    BY <2>1 DEF BundledEarlier, LinksEarlier
<1>5. CASE BasePackagesStage \/ KernelPackagesStage
  <2>1. installed \subseteq installed' /\ UNCHANGED runs /\ pc' \in {"l4t", "endInstall"}
    BY <1>5, InstallBrings, Zenon DEF BasePackagesStage, KernelPackagesStage
  <2> QED
    BY <1>1, <2>1 DEF BundledEarlier
<1>6. CASE L4tRepositories \/ DgxSpark \/ OpencvLink \/ UekRepository \/ EndInstall
  <2>1. /\ installed' \in {installed, installed \union {"nvidia-mlnx-tools"}} /\ UNCHANGED runs
        /\ pc' \in {"dgx", "opencvLink", "uek", "kernel", "endInstall", "fail", "kairosBinaries"}
    BY <1>6, Zenon DEF L4tRepositories, DgxSpark, OpencvLink, UekRepository, AfterUek, EndInstall,
                       Then, Goto, root
  <2> QED
    BY <1>1, <2>1 DEF BundledEarlier
<1>7. CASE \/ KairosBinaries \/ InstallKairosInstaller \/ InstallProviderBinaries
           \/ KairosLink \/ Exit
  <2>1. /\ UNCHANGED <<installed, runs>>
        /\ pc' \in {"kairosBinaries", "installer", "providerBinaries", "kairosLink", "ok", "fail", "idle"}
    BY <1>7, Zenon DEF KairosBinaries, InstallKairosInstaller, InstallProviderBinaries, KairosLink,
                       Exit, Write, Goto, root
  <2> QED
    BY <1>1, <2>1 DEF BundledEarlier
<1> QED
  BY <1>2, <1>3, <1>4, <1>5, <1>6, <1>7 DEF Next

\* A repository is there when its step is past, unless something broke.
LEMMA ReposStep ==
    ASSUME TypeOK, SoundBuild, PlannedInv, ErrExcused, ReposThere, Next
    PROVE  ReposThere'
<1>1. UNCHANGED build /\ sys' = sys /\ JetsonRepos' = JetsonRepos
  BY Zenon DEF Next, Run, PreRun, Plan, Repositories, RemoveBundledKernel, BasePackagesStage,
               L4tRepositories, DgxSpark, OpencvLink, UekRepository, KernelPackagesStage,
               EndInstall, KairosBinaries, InstallKairosInstaller, InstallProviderBinaries,
               KairosLink, Exit, sys, JetsonRepos
<1>2. CASE \/ Run \/ PreRun \/ Plan \/ Repositories \/ RemoveBundledKernel \/ EndInstall
           \/ KairosBinaries \/ InstallKairosInstaller \/ InstallProviderBinaries \/ KairosLink \/ Exit
  <2>1. UNCHANGED repos
    BY <1>2, Zenon DEF Run, PreRun, Plan, Repositories, RemoveBundledKernel, EndInstall,
                       KairosBinaries, InstallKairosInstaller, InstallProviderBinaries,
                       KairosLink, Exit, root
  <2>2. pc' \notin {"dgx", "opencvLink", "kernel"} /\ pc' # "uek"
    <3>1. CASE Plan
      BY <3>1, Zenon DEF Plan, SoundBuild, Full, ContainsSkipStep, Goto
    <3>2. CASE Run \/ PreRun \/ Repositories \/ RemoveBundledKernel \/ EndInstall
      BY <3>2, Zenon DEF Run, PreRun, Repositories, RemoveBundledKernel, EndInstall, Then, Goto
    <3>3. CASE KairosBinaries \/ InstallKairosInstaller \/ InstallProviderBinaries
      BY <3>3, Zenon DEF KairosBinaries, InstallKairosInstaller, InstallProviderBinaries, Write, Goto
    <3>4. CASE KairosLink \/ Exit
      BY <3>4, Zenon DEF KairosLink, Exit, Goto
    <3> QED
      BY <1>2, <3>1, <3>2, <3>3, <3>4
  <2> QED
    BY <1>1, <2>1, <2>2 DEF ReposThere
<1>3. CASE BasePackagesStage \/ KernelPackagesStage
  <2>1. UNCHANGED repos
    BY <1>3, Zenon DEF BasePackagesStage, KernelPackagesStage
  <2>2. pc' \in {"l4t", "endInstall"}
    BY <1>3, InstallBrings DEF BasePackagesStage, KernelPackagesStage
  <2> QED
    BY <1>1, <2>1, <2>2 DEF ReposThere
<1>4. CASE L4tRepositories
  <2>1. pc = "l4t" /\ pc' = "dgx"
    BY <1>4, Zenon DEF L4tRepositories, Then, Goto
  <2>3. repos \subseteq repos'
    BY <1>4 DEF L4tRepositories
  <2>2. JetsonRepos \subseteq repos' \/ Excused'
    <3>1. CASE Breaks
      BY <1>1, <1>4, <3>1, ExcuseStays, Zenon DEF L4tRepositories
    <3>2. CASE err
      BY <1>4, <3>2, InRunKeeps, ExcuseStays DEF InRun, ErrExcused
    <3>3. CASE build.model \notin Jetson
      BY <3>3 DEF JetsonRepos, Jetson
    <3>4. CASE ~err /\ build.model \in Jetson
      <4>1. GetPackages(sys, build) \subseteq installed
        <5>1. Past(SinceBase)
          BY <2>1 DEF Past, SinceBase
        <5> QED
          BY <3>4, <5>1, Zenon DEF SoundBuild, PlannedInv, Brought
      <4>2. {"curl", "gnupg"} \subseteq installed
        BY <3>4, <4>1 DEF SoundBuild
      <4>3. repos' = repos \union JetsonRepos \/ Breaks
        BY <1>4, <4>2, Zenon DEF L4tRepositories
      <4> QED
        BY <3>1, <4>3
    <3> QED
      BY <3>2, <3>3, <3>4
  <2> QED
    BY <1>1, <2>1, <2>2, <2>3 DEF ReposThere
<1>5. CASE DgxSpark \/ OpencvLink
  <2>1. /\ pc \in {"dgx", "opencvLink"} /\ pc' \in {"opencvLink", "uek"}
        /\ repos' \in {repos, repos \union {"dgx"}}
    BY <1>5, Zenon DEF DgxSpark, OpencvLink, Then, Goto
  <2>2. Excused => Excused'
    BY <1>5, InRunKeeps, ExcuseStays DEF InRun
  <2> QED
    BY <1>1, <2>1, <2>2 DEF ReposThere
<1>6. CASE UekRepository
  <2>1. /\ pc = "uek"
        /\ \/ repos' = IF NeedsUek THEN repos \union {"uek"} ELSE repos
           \/ Breaks /\ UNCHANGED repos
    BY <1>6, Zenon DEF UekRepository
  <2>2. (Excused => Excused') /\ (Breaks => Excused')
    BY <1>6, InRunKeeps, ExcuseStays DEF InRun
  <2>3. repos \subseteq repos'
    BY <2>1, Zenon
  <2>4. sys.distro = "OracleLinux" =>
          /\ sys.version[1] = 9 => "uek" \in repos'
          /\ build.arch = "arm64" => "uek" \in repos' \/ Excused'
    <3>1. sys.distro = "OracleLinux" =>
            sys.name = "Oracle Linux" /\ (sys.version[1] = 9 \/ sys.version[1] = 10)
      <4>1. \A n \in 9..10 : n = 9 \/ n = 10
        OBVIOUS
      <4> QED
        BY <4>1, Zenon DEF SoundBuild
    <3>2. sys.distro = "OracleLinux" /\ sys.version[1] = 9 => "uek" \in repos
      BY Zenon DEF ReposThere
    <3>3. sys.name = "Oracle Linux" /\ sys.version[1] = 10 /\ build.arch = "arm64" => NeedsUek
      BY Zenon DEF NeedsUek, SoundBuild, ContainsSkipStep
    <3>4. NeedsUek => "uek" \in repos' \/ Excused'
      BY <2>1, <2>2
    <3> QED
      BY <2>3, <3>1, <3>2, <3>3, <3>4, Zenon
  <2>5. JetsonRepos \subseteq repos' \/ Excused'
    <3>1. JetsonRepos \subseteq repos \/ Excused
      BY <2>1 DEF ReposThere
    <3> QED
      BY <2>2, <2>3, <3>1
  <2>6. "stock" \in repos'
    BY <2>3 DEF ReposThere
  <2> QED
    BY <1>1, <2>4, <2>5, <2>6, Zenon DEF ReposThere
<1> QED
  BY <1>2, <1>3, <1>4, <1>5, <1>6 DEF Next

\* A step of a run fails only when something breaks or a link is there.
LEMMA ErrStep ==
    ASSUME TypeInv, SoundBuild, ErrExcused, ReposThere, LinksEarlier, BundledEarlier, InRun
    PROVE  ErrExcused'
<1>0. TypeOK
  BY DEF TypeInv
<1>e. err => Excused
  BY DEF ErrExcused
<1>k. UNCHANGED <<build, runs>>
  BY InRunKeeps
<1>1. (Excused => Excused') /\ (Breaks => Excused')
  BY <1>0, InRunKeeps, ExcuseStays
<1>2. CASE PreRun \/ Plan
  <2>1. err' = err /\ pc' \in {"plan", "repositories"}
    BY <1>2, Zenon DEF PreRun, Plan, SoundBuild, Full, ContainsSkipStep, Goto
  <2> QED
    BY <1>1, <2>1 DEF ErrExcused
<1>3. CASE Repositories \/ L4tRepositories \/ DgxSpark \/ UekRepository
  <2>1. /\ pc' \in {"bundledKernel", "dgx", "opencvLink", "kernel", "endInstall"}
        /\ err' = (err \/ FALSE) \/ Breaks
    BY <1>3, Zenon DEF Repositories, L4tRepositories, DgxSpark, UekRepository, AfterUek, Then, Goto
  <2> QED
    BY <1>1, <2>1 DEF ErrExcused
<1>4. CASE RemoveBundledKernel
  <2>1. /\ pc = "bundledKernel" /\ pc' = "basePackages"
        /\ \/ err' = (err \/ FALSE)
           \/ Breaks
           \/ Micro /\ "kernel-default" \notin installed
    BY <1>4, Zenon DEF RemoveBundledKernel, Then, Goto, Micro
  <2>2. Micro /\ "kernel-default" \notin installed => Excused
    BY <2>1 DEF BundledEarlier, Excused
  <2> QED
    BY <1>1, <2>1, <2>2 DEF ErrExcused
<1>5. CASE BasePackagesStage
  <2>1. \A p \in GetPackages(sys, build) : Source(p) \in repos
    BY Zenon DEF SoundBuild, ReposThere
  <2>2. Install(GetPackages(sys, build), "l4t")
    BY <1>5, Zenon DEF BasePackagesStage
  <2>3. err' => Excused'
    BY <1>0, <1>e, <1>k, <2>1, <2>2, InstallExcused, Zenon
  <2>4. pc' = "l4t"
    BY <2>2, InstallBrings
  <2> QED
    BY <2>3, <2>4 DEF ErrExcused
<1>6. CASE KernelPackagesStage
  <2>1. pc = "kernel" /\ Install(GetKernelPackages(sys, build), "endInstall")
    BY <1>6, Zenon DEF KernelPackagesStage
  <2>5. pc' = "endInstall"
    BY <2>1, InstallBrings
  <2>2. JetsonRepos \subseteq repos \/ Excused
    BY <2>1 DEF ReposThere
  <2>3. CASE JetsonRepos \subseteq repos
    <3>1. sys.distro = "OracleLinux" /\ build.arch = "arm64" => "uek" \in repos \/ Excused
      BY <2>1, Zenon DEF ReposThere
    <3>2. (\A p \in GetKernelPackages(sys, build) : Source(p) \in repos) \/ Excused
      <4>1. ASSUME NEW p \in GetKernelPackages(sys, build)
            PROVE  \/ Source(p) = "stock"
                   \/ Source(p) = "uek" /\ sys.distro = "OracleLinux" /\ build.arch = "arm64"
                   \/ Source(p) \in JetsonRepos
        BY Zenon DEF SoundBuild
      <4>2. "stock" \in repos
        BY Zenon DEF ReposThere
      <4> QED
        BY <2>3, <3>1, <4>1, <4>2
    <3> QED
      <4>1. err' => Excused'
        BY <1>0, <1>e, <1>k, <2>1, <3>2, InstallExcused, Zenon
      <4> QED
        BY <2>5, <4>1 DEF ErrExcused
  <2>4. CASE Excused
    BY <1>1, <2>4, Zenon DEF ErrExcused
  <2> QED
    BY <2>2, <2>3, <2>4
<1>7. CASE OpencvLink
  <2>1. \/ err' = (err \/ FALSE)
        \/ pc = "opencvLink" /\ build.model \in Orin /\ opencv \in 1..2
    BY <1>7 DEF OpencvLink, Then
  <2>2. pc' = "uek"
    BY <1>7, Zenon DEF OpencvLink, Then, Goto
  <2>3. pc = "opencvLink" /\ build.model \in Orin /\ opencv \in 1..2 => Excused
    BY DEF LinksEarlier, UpToLink, Excused
  <2> QED
    BY <1>1, <2>1, <2>2, <2>3 DEF ErrExcused
<1>8. CASE EndInstall
  <2>1. err' = err /\ (pc' = "kairosBinaries" \/ err)
    BY <1>8, Zenon DEF EndInstall, Goto
  <2> QED
    BY <1>1, <2>1, <1>8 DEF ErrExcused, EndInstall, Goto
<1>9. CASE KairosBinaries \/ InstallKairosInstaller \/ InstallProviderBinaries
  <2>1. /\ err' = err /\ pc \in {"kairosBinaries", "installer", "providerBinaries"}
        /\ pc' \in {"kairosBinaries", "installer", "providerBinaries", "kairosLink", "ok"} \/ Breaks
        /\ pc' # "idle"
    BY <1>9, Zenon DEF KairosBinaries, InstallKairosInstaller, InstallProviderBinaries, Write, Goto
  <2> QED
    BY <1>1, <2>1 DEF ErrExcused
<1>10. CASE KairosLink
  <2>1. err' = err /\ pc = "kairosLink" /\ pc' \in {"ok", "fail"} /\ (pc' = "fail" => kairos)
    BY <1>10, Zenon DEF KairosLink, Goto
  <2>2. kairos => Excused
    BY <2>1 DEF LinksEarlier, UpToKairos, Excused, TypeInv
  <2> QED
    BY <1>1, <2>1, <2>2 DEF ErrExcused
<1>11. CASE Exit
  <2>1. err' = err /\ pc' = "idle" /\ exit' = pc
    BY <1>11, Zenon DEF Exit, Goto
  <2> QED
    BY <1>1, <2>1 DEF ErrExcused
<1> QED
  BY <1>2, <1>3, <1>4, <1>5, <1>6, <1>7, <1>8, <1>9, <1>10, <1>11 DEF InRun

\* The invariant is inductive for a tested build.
LEMMA ExplainedStep ==
    ASSUME TypeInv, PlannedInv, Tested => ExplainedInv, [Next]_vars
    PROVE  (Tested => ExplainedInv)'
<1>1. CASE UNCHANGED vars
  <2>1. UNCHANGED <<build, pc, err, exit, runs, breaks, installed, repos, opencv, kairos>>
    BY <1>1 DEF vars, control, root, files
  <2> QED
    BY <2>1 DEF Tested, ExplainedInv, ErrExcused, Excused, ReposThere, LinksEarlier, BundledEarlier,
                Micro, JetsonRepos, sys
<1>2. CASE Next
  <2>0. (Run \/ InRun) /\ UNCHANGED build
    BY <1>2, InRunKeeps DEF Next, InRun, Run
  <2> SUFFICES ASSUME Tested
               PROVE  ExplainedInv'
    BY <2>0 DEF Tested
  <2>1. TypeOK /\ SoundBuild /\ ExplainedInv
    BY TestedIsSound, Zenon DEF TypeInv, TypeOK
  <2>2. ReposThere' /\ LinksEarlier' /\ BundledEarlier'
    BY <1>2, <2>1, ReposStep, LinksStep, BundledStep, Zenon DEF ExplainedInv
  <2>3. CASE Run
    <3>1. err' = FALSE /\ pc' = "preRun"
      BY <2>3 DEF Run, Goto
    <3> QED
      BY <2>2, <3>1 DEF ExplainedInv, ErrExcused
  <2>4. CASE InRun
    BY <2>1, <2>2, <2>4, ErrStep, Zenon DEF ExplainedInv
  <2> QED
    BY <2>0, <2>3, <2>4
<1> QED
  BY <1>1, <1>2

\* It holds at first.
LEMMA ExplainedInit ==
    ASSUME Init, TypeOK
    PROVE  Tested => ExplainedInv
<1> SUFFICES ASSUME Tested
             PROVE  ExplainedInv
  OBVIOUS
<1>1. SoundBuild
  BY TestedIsSound DEF TypeOK
<1>2. pc = "idle" /\ exit = "none" /\ err = FALSE /\ opencv = 0 /\ kairos = FALSE
  BY DEF Init
<1>3. repos = IF sys.distro = "OracleLinux" /\ sys.version[1] < 10
                THEN {"stock", "uek"} ELSE {"stock"}
  BY Zenon DEF Init
<1>4. ReposThere
  BY <1>2, <1>3 DEF ReposThere
<1>5. BundledEarlier
  <2>1. Micro => "kernel-default" \in installed
    <3>1. sys.name = "SLE Micro" => installed = {"kernel-default"}
      BY <1>1, Zenon DEF SoundBuild, Init
    <3> QED
      BY <3>1, Zenon DEF Micro
  <2> QED
    BY <2>1 DEF BundledEarlier
<1> QED
  BY <1>2, <1>4, <1>5 DEF ExplainedInv, ErrExcused, LinksEarlier

\* On a build the project tests, a run fails only if something broke in it, or if it
\* is not the first and makes a link that is there or removes a kernel that is gone.
THEOREM FailuresExplained == Spec => []FailureIsExplained
<1> DEFINE IInv == TypeInv /\ PlannedInv /\ (Tested => ExplainedInv)
<1>1. Init => IInv
  BY TypeInit, PlannedInit, ExplainedInit DEF TypeInv
<1>2. IInv /\ [Next]_vars => IInv'
  BY TypeStep, PlannedStep, ExplainedStep
<1>3. IInv => FailureIsExplained
  BY Zenon DEF ExplainedInv, ErrExcused, Excused, Micro, FailureIsExplained
<1> QED
  BY <1>1, <1>2, <1>3, PTL DEF Spec
-----------------------------------------------------------------------------
(* The firmware.                                                            *)

\* The steps of the package stages before the kernel's.
PackageSteps == {"repositories", "bundledKernel", "basePackages", "l4t", "dgx", "opencvLink"}

\* The repository of the package is there only on the boards, and when the kernel
\* packages are about to come from it the file is there or the run has failed.
FirmwareInv ==
  /\ "l4t" \in repos => build.model \in Jetson /\ ~ContainsSkipStep("installPackages")
  /\ pc \in PackageSteps => ~ContainsSkipStep("installPackages")
  /\ pc \in {"dgx", "opencvLink", "uek", "kernel"} /\ "l4t" \in repos => sentinel \/ err

\* Installing brings no package whose repository is not configured.
LEMMA InstallSources ==
  ASSUME NEW pkgs, NEW step, Install(pkgs, step)
  PROVE  \A p \in installed' \ installed : p \in pkgs /\ Source(p) \in repos
BY DEF Install

\* Where the package comes from; the base packages do not name it.
LEMMA BootloaderSource ==
  /\ Source("nvidia-l4t-bootloader") = "l4t"
  /\ \A s, b : "nvidia-l4t-bootloader" \notin GetPackages(s, b)
<1>1. "nvidia-l4t-bootloader" \notin Ordinary
  BY Apart DEF Foreign
<1> QED
  BY <1>1, ListedOnly DEF Source

\* The steps that configure and install nothing.
LEMMA FirmwareRest ==
  ASSUME FirmwareInv,
         Run \/ PreRun \/ Plan \/ EndInstall \/ KairosBinaries \/ InstallKairosInstaller
           \/ InstallProviderBinaries \/ KairosLink \/ Exit
  PROVE  FirmwareInv' /\ UNCHANGED installed
<1>1. CASE Plan
  <2>1. pc' \in {"fail", "endInstall", "uek", "repositories"} /\ UNCHANGED <<build, root>>
    BY <1>1, Zenon DEF Plan, Goto
  <2>2. pc' = "repositories" => ~ContainsSkipStep("installPackages")
    BY <1>1, Zenon DEF Plan, Goto
  <2>3. pc' = "uek" => ContainsSkipStep("installPackages")
    BY <1>1, Zenon DEF Plan, Goto
  <2> QED
    BY <2>1, <2>2, <2>3 DEF FirmwareInv, PackageSteps, ContainsSkipStep, root
<1>2. CASE Run \/ PreRun \/ EndInstall \/ KairosBinaries \/ InstallKairosInstaller
             \/ InstallProviderBinaries \/ KairosLink \/ Exit
  <2>1. UNCHANGED <<build, root>>
    BY <1>2, Zenon DEF Run, PreRun, EndInstall, KairosBinaries, InstallKairosInstaller,
           InstallProviderBinaries, KairosLink, Exit
  <2>2. pc' \notin PackageSteps \union {"uek", "kernel"}
    <3>1. CASE Run \/ PreRun \/ EndInstall
      BY <3>1 DEF Run, PreRun, EndInstall, Goto, PackageSteps
    <3>2. CASE KairosBinaries \/ InstallKairosInstaller \/ InstallProviderBinaries
      <4>1. pc' \in {pc, "fail", "installer", "providerBinaries", "ok", "kairosLink"}
              /\ pc \in {"kairosBinaries", "installer", "providerBinaries"}
        BY <3>2, Zenon DEF KairosBinaries, InstallKairosInstaller, InstallProviderBinaries, Write, Goto
      <4> QED
        BY <4>1 DEF PackageSteps
    <3>3. CASE KairosLink \/ Exit
      BY <3>3 DEF KairosLink, Exit, Goto, PackageSteps
    <3> QED
      BY <1>2, <3>1, <3>2, <3>3
  <2> QED
    BY <2>1, <2>2 DEF FirmwareInv, PackageSteps, ContainsSkipStep, root
<1> QED
  BY <1>1, <1>2

\* Each stage keeps the invariant, and brings the package only as the property says.
LEMMA FirmwareStage ==
  ASSUME FirmwareInv,
         Repositories \/ RemoveBundledKernel \/ BasePackagesStage \/ L4tRepositories
           \/ DgxSpark \/ OpencvLink \/ UekRepository \/ KernelPackagesStage
  PROVE  /\ FirmwareInv'
         /\ "nvidia-l4t-bootloader" \in installed' \ installed => sentinel \/ err
<1> DEFINE Bootloader == "nvidia-l4t-bootloader"
<1>1. CASE Repositories
  <2>1. /\ pc = "repositories" /\ pc' = "bundledKernel" /\ UNCHANGED <<build, repos, sentinel>>
        /\ installed' \subseteq installed \union Borrowed
    BY <1>1 DEF Repositories, Then, Goto
  <2>2. Bootloader \notin Borrowed
    BY DEF Borrowed
  <2> QED
    BY <2>1, <2>2 DEF FirmwareInv, PackageSteps, ContainsSkipStep
<1>2. CASE RemoveBundledKernel
  <2>1. /\ pc = "bundledKernel" /\ pc' = "basePackages" /\ UNCHANGED <<build, repos, sentinel>>
        /\ installed' \subseteq installed
    BY <1>2 DEF RemoveBundledKernel, Then, Goto
  <2> QED
    BY <2>1 DEF FirmwareInv, PackageSteps, ContainsSkipStep
<1>3. CASE BasePackagesStage
  <2>1. /\ pc = "basePackages" /\ UNCHANGED <<build, repos, sentinel>>
        /\ Install(GetPackages(sys, build), "l4t")
    BY <1>3, Zenon DEF BasePackagesStage
  <2>2. pc' = "l4t"
    BY <2>1, InstallBrings
  <2>3. Bootloader \notin installed' \ installed
    BY <2>1, InstallSources, BootloaderSource
  <2> QED
    BY <2>1, <2>2, <2>3 DEF FirmwareInv, PackageSteps, ContainsSkipStep
<1>4. CASE L4tRepositories
  <2>1. pc = "l4t" /\ pc' = "dgx" /\ UNCHANGED <<build, installed>>
    BY <1>4, Zenon DEF L4tRepositories, Then, Goto
  <2>2. repos' \subseteq repos \union JetsonRepos
    BY <1>4 DEF L4tRepositories
  <2>3. "l4t" \in JetsonRepos => build.model \in Jetson
    BY DEF JetsonRepos, Jetson
  <2>4. build.model \in Jetson => sentinel' \/ err'
    BY <1>4, Zenon DEF L4tRepositories, Then
  <2>5. ~ContainsSkipStep("installPackages")
    BY <2>1 DEF FirmwareInv, PackageSteps
  <2>6. "l4t" \in repos' => build.model \in Jetson
    BY <2>2, <2>3 DEF FirmwareInv
  <2> QED
    BY <2>1, <2>4, <2>5, <2>6, Zenon DEF FirmwareInv, ContainsSkipStep
<1>5. CASE DgxSpark \/ OpencvLink
  <2>1. /\ pc \in {"dgx", "opencvLink"} /\ pc' \in {"opencvLink", "uek"}
        /\ UNCHANGED <<build, sentinel>> /\ (err => err')
        /\ repos' \in {repos, repos \union {"dgx"}}
        /\ installed' \in {installed, installed \union {"nvidia-mlnx-tools"}}
    BY <1>5, Zenon DEF DgxSpark, OpencvLink, Then, Goto
  <2> QED
    BY <2>1 DEF FirmwareInv, PackageSteps, ContainsSkipStep
<1>6. CASE UekRepository
  <2>1. /\ pc = "uek" /\ pc' \in {"kernel", "endInstall"} /\ UNCHANGED <<build, sentinel, installed>>
        /\ err => err'
        /\ repos' \in {repos, repos \union {"uek"}}
    BY <1>6, Zenon DEF UekRepository, AfterUek, Then, Goto
  <2> QED
    BY <2>1 DEF FirmwareInv, PackageSteps, ContainsSkipStep
<1>7. CASE KernelPackagesStage
  <2>1. /\ pc = "kernel" /\ UNCHANGED <<build, repos, sentinel>>
        /\ Install(GetKernelPackages(sys, build), "endInstall")
    BY <1>7, Zenon DEF KernelPackagesStage
  <2>2. pc' = "endInstall"
    BY <2>1, InstallBrings
  <2>3. Bootloader \in installed' \ installed => "l4t" \in repos
    BY <2>1, InstallSources, BootloaderSource
  <2> QED
    BY <2>1, <2>2, <2>3 DEF FirmwareInv, PackageSteps, ContainsSkipStep
<1> QED
  BY <1>1, <1>2, <1>3, <1>4, <1>5, <1>6, <1>7

\* A Jetson package that would flash the boot firmware of the build machine is
\* installed only when the file that stops it is there or the run has failed
\* already, on any system and after any number of runs in which the touch of the
\* file, the repositories or the downloads failed.
THEOREM FirmwareSafe == Spec => FirmwareKept
<1>1. Init => FirmwareInv
  BY DEF Init, FirmwareInv, PackageSteps
<1>2. FirmwareInv /\ [Next]_vars =>
        FirmwareInv' /\ ("nvidia-l4t-bootloader" \in installed' \ installed => sentinel \/ err)
  <2> SUFFICES ASSUME FirmwareInv, [Next]_vars
               PROVE  /\ FirmwareInv'
                      /\ "nvidia-l4t-bootloader" \in installed' \ installed => sentinel \/ err
    OBVIOUS
  <2>1. CASE UNCHANGED vars
    BY <2>1 DEF vars, control, root, FirmwareInv, ContainsSkipStep
  <2> QED
    BY <2>1, FirmwareRest, FirmwareStage DEF Next
<1>3. QED
  BY <1>1, <1>2, PTL DEF Spec, FirmwareKept
=============================================================================
