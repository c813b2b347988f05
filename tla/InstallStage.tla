---------------------------- MODULE InstallStage ----------------------------
(***************************************************************************)
(* The install stage on a base image, in the detail ImageBuild leaves out: *)
(* main.go's check of the architecture, the yip stages of GetInstallStage  *)
(* and GetInstallKernelStage with the repositories they need, and the      *)
(* binaries that are written or downloaded.  Anything that uses the        *)
(* network or fills the disk can break.  A run that failed can be started  *)
(* again on what it left, with other version overrides.                    *)
(***************************************************************************)
EXTENDS InitNeeds

CONSTANTS Builds,    \* builds to start: records of the set Build
          Supported, \* those the project tests
          MaxRuns,   \* bound on the runs
          MaxBreaks  \* bound on what breaks

AgentBinaries    == {"kairos-agent", "immucore", "kcrypt-discovery-challenger"}
ProviderBinaries == {"agent-provider-kairos", "edgevpn"}
Binaries         == AgentBinaries \union ProviderBinaries \union {"kairos-installer"}
Orin             == {"agx-orin", "orin-nx"}
Jetson           == Orin \union {"thor"}

RequiredArch(model) == IF model = "generic" THEN Arch ELSE {"arm64"}

IsBuild(b) ==
    /\ DOMAIN b = {"os", "arch", "model", "trusted", "fips", "standard", "skip"}
    /\ DOMAIN b.os = {"id", "like", "name", "version"}
    /\ b.arch \in Arch
    /\ b.skip \subseteq {"installPackages", "installKernel", "kairosBinaries", "providerBinaries"}

\* What the project tests, and what of the tables differs from it in version or
\* name only: distribution, family and name of the systems, the Ubuntu releases,
\* the boards of each system, and from where on a system is looked after.
TestedSystems ==
    {<<"Ubuntu", "DebianFamily", "Ubuntu">>, <<"Debian", "DebianFamily", "Debian">>,
     <<"Fedora", "RedHatFamily", "Fedora">>, <<"RedHat", "RedHatFamily", "Red Hat">>,
     <<"RedHat", "RedHatFamily", "CentOS">>, <<"RockyLinux", "RedHatFamily", "Rocky">>,
     <<"AlmaLinux", "RedHatFamily", "AlmaLinux">>,
     <<"OracleLinux", "RedHatFamily", "Oracle Linux">>, <<"SLES", "SUSEFamily", "SLES">>,
     <<"OpenSUSELeap", "SUSEFamily", "openSUSE Leap">>,
     <<"OpenSUSETumbleweed", "SUSEFamily", "openSUSE Tumbleweed">>,
     <<"SLEMicroRancher", "SUSEFamily", "SLE Micro">>, <<"Alpine", "AlpineFamily", "Alpine">>}

UbuntuReleases == {<<20, 4>>, <<22, 4>>, <<24, 4>>, <<24, 10>>, <<25, 4>>, <<25, 10>>, <<26, 4>>}

Dated(s) == s.version # NoVersion /\ Place(s.version) \in Nat /\ Place(s.version) < Never

TestedRelease(s) ==
    /\ Dated(s)
    /\ s.distro = "Ubuntu" => \E v \in UbuntuReleases : Place(s.version) = Place(v)
    /\ s.family = "RedHatFamily" => Check(s.version, From(<<9>>))
    /\ s.distro = "OracleLinux" => s.version[1] \in 9..10
    /\ s.family = "SUSEFamily" /\ s.name # "SLE Micro"
          => Place(s.version) \notin {Place(<<5, 4>>), Place(<<5, 5>>)}

TestedModel(s, model) ==
    \/ model = "generic"
    \/ /\ model \in {"rpi3", "rpi4"}
       /\ s.distro \in {"Ubuntu", "Debian"} \/ s.family \in {"SUSEFamily", "AlpineFamily"}
    \/ model \in Jetson \union {"dgx-spark"} /\ s.distro = "Ubuntu"

SupportedBuild(b) ==
    LET s == DetectSystem(b.os, b.arch)
    IN  /\ <<s.distro, s.family, s.name>> \in TestedSystems
        /\ TestedRelease(s) /\ TestedModel(s, b.model)
        /\ b.skip = {}
        /\ b.arch \in RequiredArch(b.model)
        /\ b.fips => b.arch # "riscv64" /\ s.distro # "Ubuntu"
        /\ b.trusted => b.arch # "riscv64"

ASSUME InstallAssumption == /\ \A b \in Builds : IsBuild(b)
                            /\ Supported \subseteq Builds /\ \A b \in Supported : SupportedBuild(b)
                            /\ MaxRuns \in Nat /\ MaxBreaks \in Nat

VARIABLES build,     \* what is built: image, platform and flags
          online,    \* binaries with a version override, downloaded
          pc,        \* the step about to be taken, "idle" between runs
          todo,      \* binaries of the step still to be written
          err,       \* a stage of the executor run has failed
          exit,      \* how the last run ended
          runs, breaks,
          installed, \* packages
          repos,     \* repositories configured
          sentinel,  \* the file that keeps the Jetson firmware from flashing
          opencv,    \* how many links to the OpenCV headers were made
          disk,      \* each binary: how much of it is there, and its x bit
          cut,       \* history: files whose first write was cut short
          kairos     \* the link /usr/bin/kairos

control == <<build, online, pc, todo, err, exit, runs, breaks>>
root    == <<installed, repos, sentinel, opencv>>
files   == <<disk, cut, kairos>>
vars    == <<control, root, files>>

sys     == DetectSystem(build.os, build.arch)
File    == [content : {"none", "part", "full"}, exec : BOOLEAN]
Missing == [content |-> "none", exec |-> FALSE]
Whole   == [content |-> "full", exec |-> TRUE]

\* SLE Micro and the DGX Spark get a package by a command of their own.
AnyPackage == CommonPackages \union {"systemd-network", "nvidia-mlnx-tools"}
    \union UNION {r.pkgs : r \in BasePackages \union BasePackagesModels \union ImmucorePackages
                                 \union GrubPackages \union SystemdPackages \union KernelPackages
                                 \union KernelPackagesTrustedBoot \union KernelPackagesModels}

Steps == {"idle", "preRun", "plan", "repositories", "bundledKernel", "basePackages",
          "l4t", "dgx", "opencvLink", "uek", "kernel", "endInstall", "kairosBinaries",
          "installer", "providerBinaries", "kairosLink", "ok", "fail"}

TypeOK == /\ build \in Builds
          /\ online \subseteq Binaries
          /\ pc \in Steps
          /\ todo \subseteq Binaries
          /\ err \in BOOLEAN
          /\ exit \in {"none", "ok", "fail"}
          /\ runs \in 0..MaxRuns /\ breaks \in 0..MaxBreaks
          /\ sentinel \in BOOLEAN /\ opencv \in 0..2 /\ kairos \in BOOLEAN
          /\ kairos => build.standard
          /\ installed \subseteq AnyPackage
          /\ repos \subseteq {"stock", "l4t", "cuda", "dgx", "uek"}
          /\ disk \in [Binaries -> File] /\ cut \subseteq Binaries

Init == /\ build \in Builds /\ online = {}
        /\ pc = "idle" /\ todo = {} /\ err = FALSE /\ exit = "none"
        /\ runs = 0 /\ breaks = 0
        /\ installed = IF sys.distro = "SLEMicroRancher" THEN {"kernel-default"} ELSE {}
        /\ repos = IF sys.distro = "OracleLinux" /\ sys.version[1] < 10
                     THEN {"stock", "uek"} ELSE {"stock"}
        /\ sentinel = FALSE /\ opencv = 0
        /\ disk = [b \in Binaries |-> Missing] /\ cut = {} /\ kairos = FALSE

ContainsSkipStep(s) == s \in build.skip

-----------------------------------------------------------------------------
Goto(step) == pc' = step

\* A stage of the executor run: a failure is recorded and the next one runs.
Then(step, failed) == Goto(step) /\ err' = (err \/ failed)

\* Something outside breaks: the network, a mirror, the disk.
Breaks == breaks < MaxBreaks /\ breaks' = breaks + 1
Holds  == UNCHANGED breaks

\* Where a package comes from; the key of a repository is part of it.
Source(p) == CASE p \in {"nvidia-l4t-kernel", "nvidia-l4t-bootloader"} -> "l4t"
               [] p = "cuda"              -> "cuda"
               [] p = "nvidia-mlnx-tools" -> "dgx"
               [] p = "kernel-uek"        -> "uek"
               [] OTHER                   -> "stock"

\* Mutant: an install command that fails for want of a mirror is not noticed.
InstallQuietly(pkgs, next) ==
    \/ /\ Holds /\ installed' = installed \union pkgs
       /\ Then(next, \E p \in pkgs : Source(p) \notin repos)
    \/ Breaks /\ UNCHANGED installed /\ Then(next, FALSE)

\* Packages are installed together or, when the command fails, who knows.
Install(pkgs, next) ==
    \/ /\ Holds /\ \A p \in pkgs : Source(p) \in repos
       /\ installed' = installed \union pkgs
       /\ Then(next, FALSE)
    \/ /\ Holds /\ \E p \in pkgs : Source(p) \notin repos
       /\ UNCHANGED installed
       /\ Then(next, TRUE)
    \/ /\ Breaks
       /\ installed' \in {installed, installed \union {p \in pkgs : Source(p) \in repos}}
       /\ Then(next, TRUE)

-----------------------------------------------------------------------------
\* rootCmd: the version overrides are read when the program starts.
Run == /\ pc = "idle" /\ runs < MaxRuns
       /\ online' \in {{}, Binaries}
       /\ runs' = runs + 1 /\ breaks' = 0
       /\ err' = FALSE /\ exit' = "none"
       /\ Goto("preRun")
       /\ UNCHANGED <<build, todo, root, files>>

\* PreRunE: the model's architecture, and no FIPS on riscv64.
PreRun == /\ pc = "preRun"
          /\ Goto(IF \/ build.arch \notin RequiredArch(build.model)
                     \/ build.fips /\ build.arch = "riscv64"
                  THEN "fail" ELSE "plan")
          /\ UNCHANGED <<build, online, todo, err, exit, runs, breaks, root, files>>

\* The start of GetInstallStage, which refuses FIPS on Ubuntu and a version
\* that does not parse.  The kernel stage, alone, refuses nothing.
Plan == /\ pc = "plan"
        /\ Goto(IF sys.distro = "Hadron" THEN "endInstall"
                ELSE IF ContainsSkipStep("installPackages") THEN "uek"
                ELSE IF \/ sys.distro = "Ubuntu" /\ build.fips
                        \/ sys.version = NoVersion
                  THEN "fail" ELSE "repositories")
        /\ UNCHANGED <<build, online, todo, err, exit, runs, breaks, root, files>>

NeedsRepository == {"AlmaLinux", "Rocky", "CentOS", "Oracle Linux", "Red Hat", "SLE Micro"}

\* What SLE Micro borrows from the openSUSE repository.
Borrowed == IF sys.name = "SLE Micro" THEN {"systemd-network"} ELSE {}

\* EPEL, or the openSUSE repository.  One of its commands may fail alone.
Repositories ==
    /\ pc = "repositories"
    /\ \/ /\ sys.name \in NeedsRepository /\ Breaks
          /\ Then("bundledKernel", TRUE)
          /\ installed' \in {installed, installed \union Borrowed}
       \/ /\ Holds /\ Then("bundledKernel", FALSE)
          /\ installed' = installed \union Borrowed
    /\ UNCHANGED <<build, online, todo, exit, runs, repos, sentinel, opencv, files>>

\* SLE Micro comes with a kernel, which has to go.  The package manager may
\* refuse to remove what a run before has removed.
RemoveBundledKernel ==
    /\ pc = "bundledKernel"
    /\ \/ /\ Holds /\ Then("basePackages", FALSE)
          /\ installed' = IF sys.name = "SLE Micro" THEN installed \ {"kernel-default"} ELSE installed
       \/ /\ sys.name = "SLE Micro"
          /\ Breaks \/ (Holds /\ "kernel-default" \notin installed)
          /\ Then("basePackages", TRUE) /\ UNCHANGED installed
    /\ UNCHANGED <<build, online, todo, exit, runs, repos, sentinel, opencv, files>>

BasePackagesStage ==
    /\ pc = "basePackages"
    /\ Install(GetPackages(sys, build), "l4t")
    /\ UNCHANGED <<build, online, todo, exit, runs, repos, sentinel, opencv, files>>

\* The Linux for Tegra archives of the Orin NX, and the repositories of the
\* Jetson boards.  A repository is there when its key and its line in the list
\* are.  The keys come through a pipe that ends in tee, so a key that does not
\* arrive fails nothing here; without it, or without curl and gpg, apt will
\* refuse the repository.
JetsonRepos == CASE build.model \in Orin   -> {"l4t", "cuda"}
                 [] build.model = "thor"   -> {"l4t"}
                 [] OTHER                  -> {}

\* Mutant: the firmware is kept from flashing on the Orin boards only.
L4tRepositoriesOrin ==
    /\ pc = "l4t" /\ Then("dgx", FALSE) /\ Holds
    /\ sentinel' = (sentinel \/ build.model \in Orin)
    /\ repos' = repos \union JetsonRepos
    /\ UNCHANGED <<build, online, todo, exit, runs, installed, opencv, files>>

\* After a command that failed, be it the touch of the sentinel, a list that
\* cannot be written or the archives, the others of its stage run all the same.
L4tRepositories ==
    /\ pc = "l4t"
    /\ \/ /\ Holds /\ Then("dgx", FALSE)
          /\ sentinel' = (sentinel \/ build.model \in Jetson)
          /\ repos' = IF {"curl", "gnupg"} \subseteq installed
                        THEN repos \union JetsonRepos ELSE repos
       \/ /\ build.model \in Jetson /\ Breaks
          /\ \/ Then("dgx", FALSE) /\ sentinel' = TRUE
             \/ Then("dgx", TRUE) /\ sentinel' \in {sentinel, TRUE}
          /\ \E got \in SUBSET (IF {"curl", "gnupg"} \subseteq installed THEN JetsonRepos ELSE {}) :
                repos' = repos \union got
    /\ UNCHANGED <<build, online, todo, exit, runs, installed, opencv, files>>

\* The DGX Spark: its keys are part of the program.
DgxSpark ==
    /\ pc = "dgx"
    /\ IF build.model = "dgx-spark"
         THEN /\ repos' = repos \union {"dgx"}
              /\ \/ /\ Holds /\ Then("opencvLink", FALSE)
                    /\ installed' = installed \union {"nvidia-mlnx-tools"}
                 \/ /\ Breaks /\ Then("opencvLink", TRUE) /\ UNCHANGED installed
         ELSE Holds /\ Then("opencvLink", FALSE) /\ UNCHANGED <<repos, installed>>
    /\ UNCHANGED <<build, online, todo, exit, runs, sentinel, opencv, files>>

\* ln -s /usr/include/opencv4/opencv2 /usr/include/opencv2: when the link is
\* there and leads to a directory the new one is made inside it, and when it
\* leads nowhere yet, or both are there, ln fails.
OpencvLink ==
    /\ pc = "opencvLink"
    /\ \/ build.model \notin Orin /\ Then("uek", FALSE) /\ UNCHANGED opencv
       \/ /\ build.model \in Orin
          /\ opencv = 0 \/ (opencv = 1 /\ "libopencv-dev" \in installed)
          /\ opencv' = opencv + 1
          /\ Then("uek", FALSE)
       \/ /\ build.model \in Orin
          /\ opencv = 2 \/ (opencv = 1 /\ "libopencv-dev" \notin installed)
          /\ Then("uek", TRUE)
          /\ UNCHANGED opencv
    /\ UNCHANGED <<build, online, todo, exit, runs, breaks, installed, repos, sentinel, files>>

\* Oracle Linux 10 has the repository of its arm64 kernel, but not enabled.
NeedsUek == /\ sys.name = "Oracle Linux" /\ sys.version[1] = 10 /\ build.arch = "arm64"
            /\ ~ContainsSkipStep("installKernel")

AfterUek == IF ContainsSkipStep("installKernel") THEN "endInstall" ELSE "kernel"

\* Mutant: the repository is thought to be enabled on every Oracle Linux.
UekRepositoryEnabled ==
    /\ pc = "uek" /\ Holds /\ Then(AfterUek, FALSE)
    /\ UNCHANGED <<build, online, todo, exit, runs, root, files>>

UekRepository ==
    /\ pc = "uek"
    /\ \/ /\ Holds /\ Then(AfterUek, FALSE)
          /\ repos' = IF NeedsUek THEN repos \union {"uek"} ELSE repos
       \/ NeedsUek /\ Breaks /\ Then(AfterUek, TRUE) /\ UNCHANGED repos
    /\ UNCHANGED <<build, online, todo, exit, runs, installed, sentinel, opencv, files>>

KernelPackagesStage ==
    /\ pc = "kernel"
    /\ Install(GetKernelPackages(sys, build), "endInstall")
    /\ UNCHANGED <<build, online, todo, exit, runs, repos, sentinel, opencv, files>>

\* The executor run reports what failed in it.  Branding and the other files
\* of the stage have no state here.
EndInstall ==
    /\ pc = "endInstall"
    /\ Goto(IF err THEN "fail" ELSE "kairosBinaries")
    /\ todo' = IF ContainsSkipStep("kairosBinaries") THEN {} ELSE AgentBinaries
    /\ UNCHANGED <<build, online, err, exit, runs, breaks, root, files>>

-----------------------------------------------------------------------------
(* Binaries.                                                               *)

\* The binaries of the provider step.
ProviderTodo == IF ContainsSkipStep("providerBinaries") \/ ~build.standard
                  THEN {} ELSE ProviderBinaries

\* A write that is cut short.  os.Create and os.WriteFile truncate a file that
\* is there and keep its mode.  A file that DownloadAndExtract creates gets
\* its x bit at the end, one that WriteFile creates at once.
Truncate(b) ==
    /\ disk' = [disk EXCEPT ![b] = [content |-> "part",
                    exec |-> IF @.content = "none" THEN b \notin online ELSE @.exec]]
    /\ cut' = IF disk[b].content = "none" THEN cut \union {b} ELSE cut

\* Mutant: an io.Copy that fails is not looked at.
WriteLoose(b) ==
    /\ todo' = todo \ {b} /\ UNCHANGED pc
    /\ \/ Holds /\ disk' = [disk EXCEPT ![b] = Whole] /\ UNCHANGED cut
       \/ Breaks /\ Truncate(b)

\* DownloadAndExtract or os.WriteFile.  WriteFile gives its mode only to a
\* file it creates; a download that fails may not have touched the file.
Write(b) ==
    \/ /\ Holds
       /\ disk' = [disk EXCEPT ![b] = [content |-> "full",
                       exec |-> b \in online \/ @.content = "none" \/ @.exec]]
       /\ todo' = todo \ {b} /\ UNCHANGED <<pc, cut>>
    \/ /\ Breaks /\ Goto("fail")
       /\ Truncate(b) \/ UNCHANGED <<disk, cut>>
       /\ UNCHANGED todo

\* The loop over a Go map: in any order.
KairosBinaries ==
    /\ pc = "kairosBinaries"
    /\ \/ \E b \in todo : Write(b)
       \/ /\ todo = {} /\ Holds
          /\ IF ContainsSkipStep("kairosBinaries")
               THEN Goto("providerBinaries") /\ todo' = ProviderTodo
               ELSE Goto("installer") /\ UNCHANGED todo
          /\ UNCHANGED <<disk, cut>>
    /\ UNCHANGED <<build, online, err, exit, runs, root, kairos>>

\* An installer that is there already, whatever it holds, is kept.
InstallKairosInstaller ==
    /\ pc = "installer"
    /\ \/ /\ Holds /\ Goto("providerBinaries") /\ todo' = ProviderTodo
          /\ disk' = IF disk["kairos-installer"] # Missing THEN disk
                     ELSE [disk EXCEPT !["kairos-installer"] = Whole]
          /\ UNCHANGED cut
       \/ /\ disk["kairos-installer"] = Missing /\ Breaks /\ Goto("fail")
          /\ disk' = [disk EXCEPT !["kairos-installer"] = [content |-> "part", exec |-> TRUE]]
          /\ cut' = cut \union {"kairos-installer"}
          /\ UNCHANGED todo
    /\ UNCHANGED <<build, online, err, exit, runs, root, kairos>>

\* Mutant: the link is made for the core variant too.
InstallProviderBinariesLinked ==
    /\ pc = "providerBinaries"
    /\ \/ \E b \in todo : Write(b)
       \/ todo = {} /\ Holds /\ Goto("kairosLink") /\ UNCHANGED <<todo, disk, cut>>
    /\ UNCHANGED <<build, online, err, exit, runs, root, kairos>>

InstallProviderBinaries ==
    /\ pc = "providerBinaries"
    /\ \/ \E b \in todo : Write(b)
       \/ /\ todo = {} /\ Holds
          /\ Goto(IF ContainsSkipStep("providerBinaries") \/ ~build.standard
                    THEN "ok" ELSE "kairosLink")
          /\ UNCHANGED <<todo, disk, cut>>
    /\ UNCHANGED <<build, online, err, exit, runs, root, kairos>>

\* os.Symlink refuses a link that is there.
KairosLink ==
    /\ pc = "kairosLink"
    /\ Goto(IF kairos THEN "fail" ELSE "ok")
    /\ kairos' = TRUE
    /\ UNCHANGED <<build, online, todo, err, exit, runs, breaks, root, disk, cut>>

Exit == /\ pc \in {"ok", "fail"}
        /\ exit' = pc
        /\ Goto("idle")
        /\ todo' = {}
        /\ UNCHANGED <<build, online, err, runs, breaks, root, files>>

Next == \/ Run \/ PreRun \/ Plan \/ Repositories \/ RemoveBundledKernel
        \/ BasePackagesStage \/ L4tRepositories \/ DgxSpark \/ OpencvLink
        \/ UekRepository \/ KernelPackagesStage \/ EndInstall \/ KairosBinaries
        \/ InstallKairosInstaller \/ InstallProviderBinaries \/ KairosLink \/ Exit

Spec == Init /\ [][Next]_vars
-----------------------------------------------------------------------------
(* Properties.                                                             *)

Succeeded == pc = "idle" /\ exit = "ok"
Tested    == build \in Supported

\* The packages the plans name, those with a command of their own, and a kernel
\* of the base image that no stage removes.
AsPlanned == GetPackages(sys, build) \union GetKernelPackages(sys, build)
    \union (IF sys.name = "SLE Micro" THEN {"systemd-network"} ELSE {})
    \union (IF build.model = "dgx-spark" THEN {"nvidia-mlnx-tools"} ELSE {})
    \union (IF sys.distro = "SLEMicroRancher" /\ sys.name # "SLE Micro"
              THEN {"kernel-default"} ELSE {})

\* A run that ends well has installed exactly what the plans name, on any system,
\* whatever earlier runs left half done: each stage runs after a failed one, so
\* the failure must have been kept until the end of the executor run.
PackagesAsPlanned ==
    Succeeded /\ sys.distro # "Hadron" /\ {"installPackages", "installKernel"} \intersect build.skip = {}
      => installed = AsPlanned

\* On every system the project tests, a good install has brought exactly one
\* kernel: no distribution falls between the constraints of the tables, none
\* gets its family's kernel beside its own, and SLE Micro has lost the kernel
\* it came with.
OneKernel == Succeeded /\ Tested => Cardinality(installed \intersect Kernels) = 1

\* The initramfs step adds only dracut modules that the packages of the
\* install stage provide: its version constraints and those of the tables,
\* written apart, agree on every tested system.
InitramfsModulesProvided ==
    Succeeded /\ Tested /\ ~build.trusted
      => \A m \in InitramfsModules(sys, installed) : ModuleProvided(sys, installed, m)

\* The services step enables only services whose package is installed; it goes
\* by the name in os-release, the tables go by ID and ID_LIKE.
ServicesProvided ==
    Succeeded /\ Tested
      => \A u \in EnabledServices(sys, installed) : ServiceProvided(sys, installed, u)

\* The Jetson package whose installation would flash the boot firmware of the
\* machine the image is built on is installed only when the file that stops it
\* is there, or in a run in which a command has failed already and which is
\* therefore going to fail: the run that goes on after a touch that failed is
\* not to end well, and the next one has the file first.
FirmwareKept ==
    [][ "nvidia-l4t-bootloader" \in installed' \ installed => sentinel \/ err ]_vars

\* The files the run had to bring.
Wanted == (IF ContainsSkipStep("kairosBinaries") THEN {} ELSE AgentBinaries \union {"kairos-installer"})
          \union ProviderTodo

\* After a good run every binary is there to the last byte and executable,
\* whatever earlier runs left, but for two cases: the installer, which is kept
\* as it is found, when it was cut short; and a file that a failed download
\* created and the embedded binary now replaces, which stays without x bit.
SuccessMeansWhole ==
    Succeeded => \A b \in Wanted :
        /\ disk[b].content = "full" \/ (b = "kairos-installer" /\ b \in cut)
        /\ disk[b].exec \/ (b \notin online /\ b \in cut)

\* On a tested system nothing fails unless something broke in this very run,
\* whatever broke in an earlier one; a standard image and the Orin boards are
\* the exceptions, whose links cannot be made again, and SLE Micro, whose
\* kernel cannot be removed again.
FailureIsExplained ==
    pc = "idle" /\ exit = "fail" /\ Tested
      => \/ breaks > 0
         \/ runs > 1 /\ (build.standard \/ build.model \in Orin \/ sys.name = "SLE Micro")
=============================================================================
