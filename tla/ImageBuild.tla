----------------------------- MODULE ImageBuild -----------------------------
(***************************************************************************)
(* kairos-init building an image: main.go runs the install stage, the init *)
(* stage or both (pkg/stages/stages.go), each made of a plan computed from *)
(* the file system as it is and of steps executed afterwards.  Between two *)
(* runs the author of the image adds layers of their own.  A failed run    *)
(* keeps what it did: nothing undoes it, and kairos-init may be run again. *)
(*                                                                         *)
(* A yip executor run takes every stage of its list, whether an earlier    *)
(* one failed or not, and reports an error at the end if any did; err is   *)
(* that error, and the last action of each executor run looks at it.       *)
(***************************************************************************)
EXTENDS BootLinks

CONSTANTS Commands,   \* the command lines: records of the set Command
          Released,   \* the kernels that packages can bring
          Platforms,  \* the base images: records of the set Platform
          Split,      \* kernels whose nvdimm modules are a package of their own
          Faults,     \* sets of commands that fail together in the kernel step
          MaxRuns,    \* bound on the number of runs of kairos-init
          MaxLayers   \* bound on the changes the author or extensions make

Steps == {"install", "init", "installPackages", "installKernel", "cloudconfigs",
          "kairosBinaries", "providerBinaries", "buildProvider", "kairosRelease",
          "kernel", "initramfsConfigs", "initrd", "services", "workarounds",
          "cleanup"}

\* The flags that matter to the pipeline: --stage, --skip-step, --trusted,
\* --provider (which makes the variant standard), --stage-extensions, and
\* whether --model is rpi3 or rpi4.
Command == [stage : {"all", "install", "init"}, skip : SUBSET Steps,
            trusted : BOOLEAN, standard : BOOLEAN, extensions : BOOLEAN,
            rpi : BOOLEAN]

\* A base image: its host, how its kernel packages ship a kernel, and whether it
\* comes with its services masked, as container images of the RHEL family do.
Platform == [host : Host, masked : BOOLEAN,
             packaging : {"linked", "debug", "vmlinux", "lib", "hmac", "suse",
                          "lts", "rpi", "orin", "hadron"}]

ASSUME BuildAssumption == /\ Commands \subseteq Command
                          /\ Platforms \subseteq Platform
                          /\ Released \subseteq Name
                          /\ Split \subseteq Name
                          /\ Faults \subseteq SUBSET Fault
                          /\ MaxRuns \in Nat
                          /\ MaxLayers \in Nat

\* A kernel that stays in /usr/lib/modules is one of the RHEL family, without grub2.
ASSUME PackagingAssumption == \A p \in Platforms : p.packaging = "lib" => p.host.rhel

VARIABLES platform,  \* the base image
          pc,        \* the step about to be taken, "idle" between runs
          cmd,       \* the command line of the current or the last run
          plan,      \* the kernel the init plan names
          err,       \* a command of the current executor run has failed
          exit,      \* how the last run ended
          runs, layers,
          modules,   \* directories of /lib/modules
          lib,       \* kernels with a /usr/lib/modules/<k>/vmlinuz
          boot,      \* /boot
          initrd,    \* /boot/initrd: NoInitrd, or its kernel and whether it
                     \* holds immucore and the agent
          nvdimm,    \* kernels the nvdimm modules were fetched for
          lists,     \* the package index is on disk
          hostKeys,  \* /etc/ssh holds host keys
          files,     \* which parts of Kairos are on disk
          release    \* what /etc/kairos-release says

control == <<pc, cmd, plan, err, exit, runs, layers>>
kernels == <<modules, lib, boot>>
image   == <<modules, lib, boot, initrd, nvdimm, lists, hostKeys, files, release>>
vars    == <<platform, control, image>>

NoInitrd  == [kernel |-> NoKernel, kairos |-> FALSE]
Initrd    == [kernel : Name \union {NoKernel}, kairos : BOOLEAN]
Parts     == {"packages", "oem", "binaries", "provider", "initramfs", "services"}
NoRelease == [present |-> FALSE, trusted |-> FALSE, standard |-> FALSE]
Release   == [present : BOOLEAN, trusted : BOOLEAN, standard : BOOLEAN]

InstallPc == {"planInstall", "beforeInstall", "installPackages", "installKernel",
              "installFiles", "endInstall", "afterInstall", "cloudconfigs",
              "kairosBinaries", "providerBinaries", "buildProvider"}
InitPc    == {"planInit", "beforeInit", "kairosRelease", "kernel",
              "initramfsConfigs", "initrd", "services", "sshHardening",
              "workarounds", "cleanup", "endInit", "afterInit"}

TypeOK == /\ platform \in Platform
          /\ pc \in InstallPc \union InitPc \union {"idle", "failed", "report"}
          /\ cmd \in Command
          /\ plan \in Name \union {NoKernel}
          /\ err \in BOOLEAN
          /\ exit \in {"none", "ok", "fail"}
          /\ runs \in 0..MaxRuns /\ layers \in 0..MaxLayers
          /\ modules \subseteq Name /\ lib \subseteq Name
          /\ boot \in BootDir
          /\ initrd \in Initrd
          /\ nvdimm \subseteq Name
          /\ lists \in BOOLEAN /\ hostKeys \in BOOLEAN
          /\ files \subseteq Parts
          /\ release \in Release

ContainsSkipStep(s) == s \in cmd.skip

-----------------------------------------------------------------------------
(* Kernel packages, as the tests and comments of GetKernelStage describe   *)
(* what each distribution puts in /boot.                                   *)

Payload(n) ==
    CASE platform.packaging = "linked"   -> {<<"vmlinuz", n>>}
      [] platform.packaging = "debug"    -> {<<"vmlinuz", n>>, <<"vmlinux", n>>}
      [] platform.packaging = "hmac"     -> {<<"vmlinuz", n>>, <<"hmac", n>>}
      [] platform.packaging = "vmlinux"  -> {<<"vmlinux", n>>}
      [] platform.packaging = "suse"     -> {<<"Image", n>>}
      [] platform.packaging = "lts"      -> {<<"vmlinuz-lts">>}
      [] platform.packaging = "rpi"      -> {<<"vmlinuz-rpi">>}
      [] platform.packaging = "orin"     -> {<<"Image">>}
      [] OTHER                           -> {}

Prebuilt == platform.packaging = "hadron"   \* comes with packages and kernel

\* Ubuntu's packages also point /boot/vmlinuz at the kernel they bring and
\* keep the link they find as /boot/vmlinuz.old.
Relink(b, n) ==
    IF platform.packaging # "linked" THEN b
    ELSE [b EXCEPT ![<<"vmlinuz">>] = <<"vmlinuz", n>>,
                   ![<<"vmlinuz.old">>] = IF b[<<"vmlinuz">>] = Absent THEN @ ELSE b[<<"vmlinuz">>]]

AddKernel(n) ==
    /\ modules' = modules \union {n}
    /\ lib' = IF platform.packaging = "lib" THEN lib \union {n} ELSE lib
    /\ boot' = Relink([p \in Path |-> IF p \in Payload(n) THEN Regular ELSE boot[p]], n)

\* A purge may leave the modules directory behind, with generated files in it.
PurgeKernel(n) ==
    /\ n \in modules
    /\ modules' \in {modules, modules \ {n}}
    /\ lib' = lib \ {n}
    /\ boot' = [p \in Path |-> IF p \in Payload(n) THEN Absent ELSE boot[p]]

\* What a layer of the author or a stage extension may do to the kernels.
TouchKernels == /\ layers < MaxLayers
                /\ layers' = layers + 1
                /\ \E n \in Released : AddKernel(n) \/ PurgeKernel(n)

Init == /\ platform \in Platforms
        /\ pc = "idle" /\ cmd \in Commands
        /\ plan = NoKernel /\ err = FALSE /\ exit = "none"
        /\ runs = 0 /\ layers = 0
        /\ modules \in IF Prebuilt THEN {{n} : n \in Released} ELSE {{}}
        /\ lib = {}
        /\ boot = [p \in Path |-> IF Prebuilt /\ p = <<"vmlinuz">>
                                    THEN Regular ELSE Absent]
        /\ initrd = NoInitrd /\ nvdimm = {} /\ lists = FALSE
        /\ hostKeys = FALSE /\ files = {} /\ release = NoRelease

-----------------------------------------------------------------------------
(* Moving from one step to the next.                                       *)

Goto(step) == pc' = step

\* The steps of an executor run record a failure and go on.
Then(step, failed) == /\ err' = (err \/ failed)
                      /\ Goto(step)

\* The end of an executor run, and of a step that returns its error at once.
Finish(step, failed) == /\ err' = FALSE
                        /\ Goto(IF failed THEN "failed" ELSE step)

\* A step of the plan at pc "here": nothing is executed when it is skipped.
Skip(here, next) == /\ pc = here /\ ContainsSkipStep(here)
                    /\ Goto(next)
                    /\ UNCHANGED <<cmd, plan, err, exit, runs, layers, image>>

At(here) == /\ pc = here /\ ~ContainsSkipStep(here)
            /\ UNCHANGED <<cmd, plan, exit, runs>>

\* The stages extensions add run where GetStageExtensions is called.  They do
\* nothing, fail, or change the kernels.
Extensions(here, next) ==
    /\ pc = here
    /\ \/ /\ Finish(next, err)
          /\ UNCHANGED <<layers, kernels>>
       \/ /\ cmd.extensions
          /\ Finish(next, TRUE)
          /\ UNCHANGED <<layers, kernels>>
       \/ /\ cmd.extensions
          /\ Finish(next, err)
          /\ TouchKernels
    /\ UNCHANGED <<cmd, plan, exit, runs, initrd, nvdimm, lists, hostKeys, files, release>>
-----------------------------------------------------------------------------
(* The author of the image, and the command line.                          *)

\* A layer of the author's own between two runs: a kernel package, or the
\* package index fetched or thrown away.
Layer == /\ pc = "idle" /\ runs < MaxRuns
         /\ \/ TouchKernels /\ UNCHANGED lists
            \/ /\ layers < MaxLayers /\ layers' = layers + 1
               /\ lists' \in BOOLEAN
               /\ UNCHANGED kernels
         /\ UNCHANGED <<pc, cmd, plan, err, exit, runs, initrd, nvdimm, hostKeys, files, release>>

\* rootCmd.RunE: --stage chooses where the run starts.
Run == /\ pc = "idle" /\ runs < MaxRuns
       /\ \E c \in Commands : /\ cmd' = c
                              /\ Goto(IF c.stage = "init" THEN "planInit" ELSE "planInstall")
       /\ runs' = runs + 1
       /\ plan' = NoKernel /\ err' = FALSE /\ exit' = "none"
       /\ UNCHANGED <<layers, image>>

\* Mutant: the name of the stage is taken for the step to go to.
StageAsStep == cmd.stage

\* The end of the install stage: RunAllStages goes on with the init stage.
AfterInstallStage == IF cmd.stage = "all" THEN "planInit" ELSE "report"

-----------------------------------------------------------------------------
(* RunInstallStage.                                                        *)

\* The package steps can refuse the system (FIPS on Ubuntu, a version that
\* does not parse): the stage then ends before anything is executed.
PlanInstall ==
    /\ pc = "planInstall"
    /\ \/ /\ ContainsSkipStep("install") /\ Goto(AfterInstallStage)
       \/ /\ ~ContainsSkipStep("install") /\ Goto("beforeInstall")
       \/ /\ ~ContainsSkipStep("install")
          /\ ~({"installPackages", "installKernel"} \subseteq cmd.skip)
          /\ Goto("failed")
    /\ UNCHANGED <<cmd, plan, err, exit, runs, layers, image>>

BeforeInstall == Extensions("beforeInstall", "installPackages")

\* Mutant: the package index is thrown away where the packages are installed.
InstallPackagesTidy ==
    \/ Skip("installPackages", "installKernel")
    \/ /\ At("installPackages") /\ Then("installKernel", FALSE)
       /\ lists' = FALSE /\ hostKeys' = TRUE /\ files' = files \union {"packages"}
       /\ UNCHANGED <<layers, kernels, initrd, nvdimm, release>>

\* Hadron comes with its packages and its kernel.
InstallPackages ==
    \/ Skip("installPackages", "installKernel")
    \/ /\ At("installPackages")
       /\ \E failed \in (IF Prebuilt THEN {FALSE} ELSE BOOLEAN) :
             /\ Then("installKernel", failed)
             /\ IF Prebuilt THEN UNCHANGED <<lists, hostKeys, files>>
                ELSE IF failed THEN /\ lists' \in {lists, TRUE}
                                    /\ hostKeys' \in {hostKeys, TRUE}
                                    /\ UNCHANGED files
                ELSE lists' = TRUE /\ hostKeys' = TRUE /\ files' = files \union {"packages"}
       /\ UNCHANGED <<layers, kernels, initrd, nvdimm, release>>

InstallKernel ==
    \/ Skip("installKernel", "installFiles")
    \/ /\ At("installKernel")
       /\ \/ /\ ~Prebuilt /\ Then("installFiles", FALSE)
             /\ \E n \in Released : AddKernel(n)
          \/ /\ Then("installFiles", ~Prebuilt)
             /\ UNCHANGED kernels
       /\ UNCHANGED <<layers, initrd, nvdimm, lists, hostKeys, files, release>>

\* Branding, grub and miscellaneous files: text nothing here depends on.
InstallFiles ==
    /\ pc = "installFiles"
    /\ \E failed \in BOOLEAN : Then("endInstall", failed)
    /\ UNCHANGED <<cmd, plan, exit, runs, layers, image>>

EndInstall   == Extensions("endInstall", "afterInstall")
AfterInstall == Extensions("afterInstall", "cloudconfigs")

\* A file that cannot be written is logged and left out: no error is returned.
CloudConfigs ==
    \/ Skip("cloudconfigs", "kairosBinaries")
    \/ /\ At("cloudconfigs")
       /\ files' \in {files, files \union {"oem"}}
       /\ Finish("kairosBinaries", FALSE)
       /\ UNCHANGED <<layers, kernels, initrd, nvdimm, lists, hostKeys, release>>

\* Mutant: a binary that cannot be written is logged and left out.
KairosBinariesBestEffort ==
    \/ Skip("kairosBinaries", "providerBinaries")
    \/ /\ At("kairosBinaries")
       /\ Finish("providerBinaries", FALSE)
       /\ files' \in {files, files \union {"binaries"}}
       /\ UNCHANGED <<layers, kernels, initrd, nvdimm, lists, hostKeys, release>>

KairosBinaries ==
    \/ Skip("kairosBinaries", "providerBinaries")
    \/ /\ At("kairosBinaries")
       /\ \E failed \in BOOLEAN :
             /\ Finish("providerBinaries", failed)
             /\ files' = IF failed THEN files ELSE files \union {"binaries"}
       /\ UNCHANGED <<layers, kernels, initrd, nvdimm, lists, hostKeys, release>>

\* The last thing it does is os.Symlink to /usr/bin/kairos, which fails when
\* an earlier run has made the link.
ProviderBinaries ==
    \/ Skip("providerBinaries", "buildProvider")
    \/ /\ At("providerBinaries")
       /\ \/ ~cmd.standard /\ Finish("buildProvider", FALSE) /\ UNCHANGED files
          \/ /\ cmd.standard /\ "provider" \notin files
             /\ Finish("buildProvider", FALSE)
             /\ files' = files \union {"provider"}
          \/ cmd.standard /\ Finish("buildProvider", TRUE) /\ UNCHANGED files
       /\ UNCHANGED <<layers, kernels, initrd, nvdimm, lists, hostKeys, release>>

\* What the provider plugins answer; ProviderBus models how they are asked.
BuildProvider ==
    \/ Skip("buildProvider", AfterInstallStage)
    \/ /\ At("buildProvider")
       /\ \E failed \in (IF cmd.standard THEN BOOLEAN ELSE {FALSE}) :
             Finish(AfterInstallStage, failed)
       /\ UNCHANGED <<layers, image>>

InstallStage == \/ PlanInstall \/ BeforeInstall \/ InstallPackages \/ InstallKernel
                \/ InstallFiles \/ EndInstall \/ AfterInstall \/ CloudConfigs
                \/ KairosBinaries \/ ProviderBinaries \/ BuildProvider

-----------------------------------------------------------------------------
(* RunInitStage.                                                           *)

\* The kernel is chosen here, for every step that needs one, before the
\* before-init extensions run.
PlanInit ==
    /\ pc = "planInit"
    /\ \/ /\ ContainsSkipStep("init")
          /\ Goto("report")
          /\ UNCHANGED plan
       \/ /\ ~ContainsSkipStep("init")
          /\ \E k \in GetLatest(modules, {}, cmd.rpi) :
                /\ plan' = k
                /\ Goto(IF /\ k = NoKernel
                           /\ \/ ~ContainsSkipStep("kernel")
                              \/ ~ContainsSkipStep("initrd") /\ ~cmd.trusted
                          THEN "failed" ELSE "beforeInit")
       \/ /\ ~ContainsSkipStep("init")   \* a version that does not parse
          /\ ~ContainsSkipStep("initramfsConfigs") /\ ~cmd.trusted
          /\ Goto("failed")
          /\ UNCHANGED plan
    /\ UNCHANGED <<cmd, err, exit, runs, layers, image>>

BeforeInit == Extensions("beforeInit", "kairosRelease")

\* Mutant: a kairos-release that is there already is not written again.
KairosReleaseOnce ==
    \/ Skip("kairosRelease", "kernel")
    \/ /\ At("kairosRelease")
       /\ Then("kernel", FALSE)
       /\ release' = IF release.present THEN release
                     ELSE [present |-> TRUE, trusted |-> cmd.trusted,
                           standard |-> cmd.standard]
       /\ UNCHANGED <<layers, kernels, initrd, nvdimm, lists, hostKeys, files>>

KairosRelease ==
    \/ Skip("kairosRelease", "kernel")
    \/ /\ At("kairosRelease")
       /\ \E failed \in BOOLEAN :
             /\ Then("kernel", failed)
             /\ release' = IF failed THEN release
                           ELSE [present |-> TRUE, trusted |-> cmd.trusted,
                                 standard |-> cmd.standard]
       /\ UNCHANGED <<layers, kernels, initrd, nvdimm, lists, hostKeys, files>>

Kernel ==
    \/ Skip("kernel", "initramfsConfigs")
    \/ /\ At("kernel")
       /\ \E broken \in Faults :
             LET st == KernelStage([boot |-> boot, err |-> err, broken |-> broken],
                                   plan, lib, platform.host)
             IN  boot' = st.boot /\ Then("initramfsConfigs", st.err)
       /\ UNCHANGED <<layers, modules, lib, initrd, nvdimm, lists, hostKeys, files, release>>

\* Mutant: the test for Trusted Boot is the wrong way round.
InitramfsConfigsTrusted ==
    \/ Skip("initramfsConfigs", "initrd")
    \/ /\ At("initramfsConfigs") /\ Then("initrd", FALSE)
       /\ files' = IF cmd.trusted THEN files \union {"initramfs"} ELSE files
       /\ UNCHANGED <<layers, kernels, initrd, nvdimm, lists, hostKeys, release>>

InitramfsConfigs ==
    \/ Skip("initramfsConfigs", "initrd")
    \/ /\ At("initramfsConfigs")
       /\ \/ cmd.trusted /\ Then("initrd", FALSE) /\ UNCHANGED files
          \/ ~cmd.trusted /\ Then("initrd", FALSE) /\ files' = files \union {"initramfs"}
          \/ ~cmd.trusted /\ Then("initrd", TRUE) /\ UNCHANGED files
       /\ UNCHANGED <<layers, kernels, initrd, nvdimm, lists, hostKeys, release>>

\* Remove every initrd, then build one for the planned kernel, which needs
\* its modules directory.
Rebuilt == [kernel |-> plan, kairos |-> {"binaries", "initramfs"} \subseteq files]

\* Mutant: the kernel is looked up when the initrd is built, not in the plan.
InitrdOfNewest ==
    \/ Skip("initrd", "services")
    \/ /\ At("initrd") /\ Then("services", FALSE)
       /\ \E k \in GetLatest(modules, {}, cmd.rpi) :
             initrd' = IF cmd.trusted THEN NoInitrd ELSE [Rebuilt EXCEPT !.kernel = k]
       /\ UNCHANGED <<layers, kernels, nvdimm, lists, hostKeys, files, release>>

\* Mutant: nothing is done for Trusted Boot, not even the removal.
InitrdKeptForTrusted ==
    \/ Skip("initrd", "services")
    \/ /\ At("initrd")
       /\ Then("services", FALSE)
       /\ initrd' = IF cmd.trusted THEN initrd ELSE Rebuilt
       /\ UNCHANGED <<layers, kernels, nvdimm, lists, hostKeys, files, release>>

\* The stages go on after one that failed: the removal, the display driver's
\* configuration, depmod or dracut.
GenerateInitrd ==
    \/ Skip("initrd", "services")
    \/ /\ At("initrd")
       /\ \/ /\ cmd.trusted \/ plan \in modules
             /\ \E failed \in BOOLEAN : Then("services", failed)
             /\ initrd' = IF cmd.trusted THEN NoInitrd ELSE Rebuilt
          \/ /\ Then("services", TRUE)
             /\ initrd' \in {initrd, NoInitrd}
       /\ UNCHANGED <<layers, kernels, nvdimm, lists, hostKeys, files, release>>

Services ==
    \/ Skip("services", "sshHardening")
    \/ /\ At("services")
       /\ \E failed \in BOOLEAN :
             /\ Then("sshHardening", failed)
             /\ files' = IF failed THEN files ELSE files \union {"services"}
       /\ UNCHANGED <<layers, kernels, initrd, nvdimm, lists, hostKeys, release>>

SshHardening ==
    /\ pc = "sshHardening"
    /\ \E failed \in BOOLEAN : Then("workarounds", failed)
    /\ UNCHANGED <<cmd, plan, exit, runs, layers, image>>

\* For Trusted Boot, fetch the nvdimm modules when the index knows a package
\* for the planned kernel.  mkdir -p leaves the kernel's directory there.
Workarounds ==
    \/ Skip("workarounds", "cleanup")
    \/ /\ At("workarounds")
       /\ LET fetch == cmd.trusted /\ plan \in Split /\ lists
              fetched == IF fetch THEN nvdimm \union {plan} ELSE nvdimm
          IN  /\ modules' = IF fetch THEN modules \union {plan} ELSE modules
              /\ \/ Then("cleanup", FALSE) /\ nvdimm' = fetched
                 \/ Then("cleanup", TRUE) /\ nvdimm' \in {nvdimm, fetched}
       /\ UNCHANGED <<layers, lib, boot, initrd, lists, hostKeys, files, release>>

\* Mutant: only the package index is cleaned.
CleanupIndex ==
    \/ Skip("cleanup", "endInit")
    \/ /\ At("cleanup") /\ Then("endInit", FALSE)
       /\ lists' = FALSE
       /\ UNCHANGED <<layers, kernels, initrd, nvdimm, hostKeys, files, release>>

Cleanup ==
    \/ Skip("cleanup", "endInit")
    \/ /\ At("cleanup")
       /\ \/ Then("endInit", FALSE) /\ lists' = FALSE /\ hostKeys' = FALSE
          \/ Then("endInit", TRUE) /\ lists' \in {lists, FALSE} /\ hostKeys' \in {hostKeys, FALSE}
       /\ UNCHANGED <<layers, kernels, initrd, nvdimm, files, release>>

EndInit   == Extensions("endInit", "afterInit")
AfterInit == Extensions("afterInit", "report")

InitStage == \/ PlanInit \/ BeforeInit \/ KairosRelease \/ Kernel \/ InitramfsConfigs
             \/ GenerateInitrd \/ Services \/ SshHardening \/ Workarounds \/ Cleanup
             \/ EndInit \/ AfterInit

\* The exit status of the process.
Exit == /\ pc \in {"report", "failed"}
        /\ exit' = IF pc = "report" THEN "ok" ELSE "fail"
        /\ Goto("idle")
        /\ UNCHANGED <<cmd, plan, err, runs, layers, image>>

Next == /\ Layer \/ Run \/ InstallStage \/ InitStage \/ Exit
        /\ UNCHANGED platform

Spec == Init /\ [][Next]_vars
-----------------------------------------------------------------------------
(* Properties.                                                             *)

\* The init steps have been executed, none has failed, and the stages of the
\* init extensions come next.
Built == pc = "endInit" /\ ~err

\* When kernel and initrd are both made in a run that goes well, /boot/vmlinuz
\* and /boot/initrd are of the same kernel, the one the plan chose, even if an
\* extension brought or purged kernels after the plan was made.
InitrdOfLinkedKernel ==
    Built /\ ~cmd.trusted /\ {"kernel", "initrd"} \intersect cmd.skip = {}
      => /\ initrd.kernel = plan
         /\ boot[<<"vmlinuz">>] \in Versioned => boot[<<"vmlinuz">>][2] = plan

\* The kernel step never leaves a dangling /boot/vmlinuz behind: a link to a
\* purged kernel is removed before the links are made.
VmlinuzResolves ==
    Built /\ ~ContainsSkipStep("kernel") /\ IsLink(boot, <<"vmlinuz">>)
      => IsFile(boot, <<"vmlinuz">>)

\* Running the kernel step again on what a good run of it left changes nothing
\* and does not fail, even when a run before was a failed one that left half of
\* the links: layers may run the init stage over and over.
KernelStageRepeatable ==
    \A k \in modules :
       LET once == KernelStage([boot |-> boot, err |-> FALSE, broken |-> {}],
                               k, lib, platform.host)
       IN  ~once.err => KernelStage(once, k, lib, platform.host) = once

\* RunAllStages starts the init stage only on an install stage that worked:
\* what the install stage had to bring is there in every step of init.
InitAfterInstall ==
    pc \in InitPc /\ cmd.stage = "all" /\ ~ContainsSkipStep("install")
      => /\ ContainsSkipStep("kairosBinaries") \/ "binaries" \in files
         /\ ContainsSkipStep("providerBinaries") \/ ~cmd.standard \/ "provider" \in files
         /\ ContainsSkipStep("installPackages") \/ Prebuilt \/ "packages" \in files

\* The initrd of a complete build holds immucore and the agent, the two
\* binaries "kairos-init validate" looks for in it: both the binaries and the
\* dracut or mkinitfs configuration were in place when it was made.
InitrdHasKairos ==
    Built /\ cmd.stage = "all" /\ cmd.skip = {} /\ ~cmd.trusted => initrd.kairos

\* A Trusted Boot image ships no initrd, whatever earlier runs left in /boot.
TrustedHasNoInitrd ==
    Built /\ cmd.trusted /\ ~ContainsSkipStep("initrd") => initrd = NoInitrd

\* No SSH host key that packages generated survives the cleanup step.
NoHostKeys == Built /\ ~ContainsSkipStep("cleanup") => ~hostKeys

\* /etc/kairos-release describes the run that built the image, not an earlier
\* one with other flags, and in a complete build a standard variant has its
\* provider.
ReleaseDescribesBuild ==
    Built /\ ~ContainsSkipStep("kairosRelease")
      => /\ release = [present |-> TRUE, trusted |-> cmd.trusted, standard |-> cmd.standard]
         /\ cmd.stage = "all" /\ cmd.skip = {} /\ release.standard => "provider" \in files

\* A whole Trusted Boot build has the nvdimm modules of the planned kernel: the
\* package index that the install stage of the run brought is still there when
\* the workarounds step of the init stage asks it, whatever ran in between.
\* Without the index that step finds no package and does nothing.
NvdimmShipped ==
    Built /\ cmd.stage = "all" /\ cmd.skip = {} /\ cmd.trusted /\ ~Prebuilt /\ plan \in Split
      => plan \in nvdimm

\* All that a package of kernel n puts on disk is there.
Bootable(n) == /\ n \in modules
               /\ n \in lib \/ Payload(n) # {}
               /\ \A p \in Payload(n) : boot[p] = Regular

\* GetKernelStage: "all things kairos look for the /boot/vmlinuz file to be
\* there. So this creates a link to the actual kernel, no matter the version":
\* with a kernel installed, a run that goes well makes the link.
KernelLinkMade ==
    Built /\ ~ContainsSkipStep("kernel") /\ ~cmd.extensions /\ (\E n \in modules : Bootable(n))
      => IsFile(boot, <<"vmlinuz">>)
=============================================================================
