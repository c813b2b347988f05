# kairos-init in TLA+

kairos-init turns the root file system of a distribution's container image into a
Kairos image: it installs packages, a kernel and the Kairos binaries, writes
configuration, links the kernel, generates an initrd and cleans up. It runs inside a
`docker build`, often more than once, between layers the author of the image adds. This
directory models the parts of it that decide something, checks them with TLC and proves
the most important results with TLAPS.

## Inventory

| part | source | state it keeps | operations |
|---|---|---|---|
| Image build pipeline | `main.go`, `pkg/stages/stages.go`, `steps_install.go`, `steps_init.go`, `extensions.go`, `steps_ssh_hardening.go`, `pkg/config` | the global configuration; everything else is the file system: `/lib/modules`, `/boot`, `/boot/initrd`, the package index, host keys, binaries, `/etc/kairos-release` | `RunAllStages`, `RunInstallStage`, `RunInitStage` and the steps they are made of |
| Kernel step | `steps_init.go`, `GetKernelStage` | `/boot` | fifteen shell stages that clean and make links |
| Kernel chooser | `pkg/kernel/kernel.go` | none; reads `/lib/modules` | `GetLatest`, `GetLatestFromPath` |
| Provider bus | `ProviderBuildInstallEvent`, `getProviderInfo` | a channel, a `WaitGroup`, a shared answer | publish an event per provider, handle answers in goroutines, collect |
| Binary installation | `DownloadAndExtract`, `GetInstallKairosBinaries`, `GetInstallProviderBinaries` | executables under `/usr/bin` and `/system` | write an embedded binary, download one |
| Package maps | `pkg/values` | none | merge tables by distribution, family, architecture, version; templates |
| System detection | `pkg/system` | none | map os-release to a distribution and a family |
| Validator | `pkg/validation` | none; reads the image | `Validate`, a list of checks |
| Jetson QSPI capsule script | `pkg/bundled/jetson_qspi.go` | the mounted ESP, the staged capsule, `OsIndications` | one shell script run before a reboot |
| Boot scripts and cloud configs | `pkg/bundled/bundled.go`, `cloudconfigs/` | the machine's image slots, the GRUB environment, the hook file, the upgrade job | upgrade script, boot menu and arguments, boot assessment, automatic reset |
| Alpine initramfs, embedded binaries and build files | `pkg/bundled/alpineInit`, `Dockerfile`, `Makefile` | none | third-party script, packaging |

How they interact. `main.go` fills the global configuration and calls a stage. A stage
first makes a *plan*, a list of yip stages computed from the file system as it is at that
moment (the kernel chooser and the package tables are asked here), then hands the plan to
the yip executor, which changes the file system. Extensions found on disk are part of the
plan, but what they do happens only during execution. The install stage goes on with direct
Go functions (cloud configs, binaries, providers), each of which returns its error at once.
Provider plugins are processes that the bus starts and whose answers come back in
goroutines. `kairos-init validate` is a separate command that reads the finished image.

Some of what the image is given runs later, on the machines installed from it. The upgrade
job of the system upgrade controller, GRUB, the booted system and `kairos-agent` share three
image slots (active, passive, recovery), the hook file that GRUB sources and the environment
block `boot_assessment`; none of them waits for another, and the power may go between any two
writes.

What is hard. No step is undone: a failed run leaves what it did, and the next run finds
it. A failing command inside an executor run does not stop the run. The plan goes stale
while it is executed. Later steps depend on earlier ones through the file system only
(the initrd on the binaries and on the dracut modules of the packages, the services on the
packages, the nvdimm workaround on the package index that cleanup deletes), and both sides
have version constraints of their own. The provider event has real concurrency, a bounded
channel and a counter that panics below zero. An upgraded image that does not come up has to
be found out by a menu that knows two words from before the power went. The list of hazards
with their lines is in `PROJECT.json`.

## Modules

| module | models | role |
|---|---|---|
| `KernelChooser` | `pkg/kernel/kernel.go` | operators; `GetLatest` is the set of results a call may have |
| `KernelListing` | the listings of `/lib/modules` a call may see | state machine around `KernelChooser` |
| `BootLinks` | `GetKernelStage` | operators on a symbolic `/boot`; `KernelStage` is the whole step |
| `ImageBuild` | the pipeline | state machine; extends `BootLinks` |
| `ImageValidation` | `pkg/validation/validate.go` on the images of the pipeline | operators; extends `ImageBuild` |
| `ServiceUnits` | the service check of the validator, `systemctl mask`, the services step | state machine |
| `Packages` | `pkg/system/system.go`, `pkg/values/packagemaps.go` | operators: detection, tables as sets of rows, merge and filter |
| `InitNeeds` | what `GetKairosInitramfsFilesStage` and `GetServicesStage` ask of the packages | operators; extends `Packages` |
| `InstallStage` | the install stage in detail: checks, repositories, packages, kernel, binaries | state machine; extends `InitNeeds` |
| `ProviderBus` | `ProviderBuildInstallEvent` | state machine with fairness |
| `QspiUpdate` | `pkg/bundled/jetson_qspi.go` | state machine; one step is one command of the script |
| `BootAssessment` | the comment at the head of `cloudconfigs/08_grub.yaml` | abstract specification |
| `UpgradeBoot` | the upgrade script, GRUB's configuration, `08_grub.yaml`, `51_reset.yaml` | state machine with fairness; implements `BootAssessment` |
| `BootLinksProofs`, `ImageBuildProofs`, `InitStageProofs`, `InstallStageProofs`, `KernelListingProofs`, `ProviderBusProofs`, `QspiUpdateProofs`, `UpgradeBootProofs` | | the proofs; the first three build on each other |
| `MC...` | | instances for TLC |

**KernelChooser.** A directory name is a number, its place in the lexical order
`os.ReadDir` returns. What the chooser reads off a name is given by constants: `Raspi`
(the suffix), `Semver` (its place among the versions, 0 when go-version does not parse it)
and `Canon` (what `Version.String()` prints for it). `sort.Sort` is not stable, so
`GetLatest` returns a set.

**ImageBuild.** `pc` names the step about to be taken. `Goto`, `Then` and `Finish` are the
three ways a step ends: nothing failed; a stage of an executor run failed and the run goes
on (`err`); the end of an executor run, or a Go function that returns its error. Each step
is one action: `Skip` when `--skip-step` names it, otherwise its effect. A step with
several commands that may fail half-way has one outcome per state it can leave. `Layer` is
what the author does between runs. `Extensions` is `GetStageExtensions` at the four places
where what it returns is executed. `plan` is the kernel chosen by `PlanInit`; the chooser
is asked three times while the plan is made and nothing changes in between, so one
variable stands for the three answers.

A *base image* (`Platform`) says how its kernel packages ship a kernel: a versioned
`vmlinuz` with Ubuntu's own links, a debug `vmlinux` beside it, only `vmlinux` (Debian on
riscv64), only `/usr/lib/modules/<k>/vmlinuz` (RHEL without grub), a `.hmac` beside it
(FIPS), `Image-<k>` (SUSE on arm64), `vmlinuz-lts` and `vmlinuz-rpi` (Alpine), a plain
`Image` (Jetson Orin), or a kernel that comes with the base image (Hadron). These are read
off the tests and comments of `GetKernelStage` and are marked external in the map. `masked`
says whether a service that `validate` looks at is masked or absent in the base image.

**BootLinks.** Paths under `/boot` are tuples: a plain name, or a name with a kernel
version. A path holds nothing, a regular file or a link to a path. The stages of the step
are applied in order to a record of `/boot`, of the executor's error and of `broken`, the
commands that fail: each `rm`, `cp` and `ln` at each path may, a copy either before it has made
the file or after it has cut one short. A failing command sets the error and the stages after
it go on, since a yip stage asks nothing of the ones before it. Which commands fail is chosen
when the pipeline takes the step (`Faults`).

**ImageValidation** puts the validator's checks on the variables of `ImageBuild`.
`GoodBuildValidates` relates the two commands: a build that ends well makes an image that
`validate` passes, if no extension of the run changed the kernels and something of the planned
kernel is still there (`KernelLeft`: a step that links nothing would otherwise end well, which
is finding 1). Both service checks are there, the one of getty on every system with systemd and
the one of the RHEL services: the init stage unmasks what it enables on the RHEL family alone,
so that elsewhere the base image must not come with a masked getty, which is a hypothesis of the
property.

**Packages, InitNeeds, InstallStage.** A version is the sequence of its numbers, a constraint
a set of intervals. A list of the Go tables is abstracted to the packages that something else
depends on: a kernel, what the initrd is made with, what the services step enables, the tools
that set a repository up. `InstallStage` is the install stage that `ImageBuild` has in one
action per step: which packages, from which repository, and which binaries are there and how
much of each. Where a package comes from, and which package brings a dracut module or a
service, is external and read off the comments of the tables and of the initramfs step.
`online` are the binaries with a version override, which are downloaded; the others are
embedded. The two ways of writing a file differ in when the x bit is set. `Supported` are the
builds the project tests; `SupportedBuild` says what all of them have in common (system, release,
board, architecture, FIPS and Trusted Boot), is assumed of the constant and evaluated by TLC on
the test matrix.

**ProviderBus.** The main goroutine publishes one event per provider and waits in
`Publish` for the handlers it started (this is what go-pluggable's manager does; external).
Each plugin and its handler are one process: it answers, sends to the channel, and calls
`wg.Done()`; the last two are separate steps.

**BootAssessment and UpgradeBoot.** The abstract module has a *trial* (idle, upgraded,
trying), the stage the machine is in and the menu entry. The detailed one has the slots, the
two sentinels of `boot_assessment` as the set `env`, whether `grubcustom` sources the hook
file, `next_entry`, the phase of the boot with the two commands that remove the sentinels as
two steps, and the next command of the upgrade job. An image is *good*, *broken* (its kernel
panics), *late* (comes up and then crashes) or *unloadable* (GRUB cannot load it).
`PowerLoss`, `JobFails` and `HookFails` are the faults, `Pick`, `SetNextEntry`, `Restart` and
`NewPlan` what people do. `Trial` and `Stage` are the refinement mapping; `proven`,
`assessed`, `wrote`, `again` and `tries` are history variables that no action's guard reads.
`kairos-agent` (backing up the running image, replacing active, running hooks, reset) and the
controller (running a job again until it exits 0) are external and modelled from how the
scripts use them.

## Runs

| run | bounds | what it shows |
|---|---|---|
| `chooser` | six names: two spellings of one version, a raspi kernel, a newer generic one, two names without a version, one of them raspi | with a directory in the listing the chooser answers, with an empty listing it fails; a Pi image boots a raspi kernel if there is one; otherwise the newest version wins; `validate` and the build agree on whether there is a kernel |
| `build_onego` | `--stage all`, two runs, one change by an extension or a layer | init starts only after a good install; the initrd has immucore and the agent; kairos-release is of this run; a whole Trusted Boot build ships the nvdimm modules, so nothing between the two stages deletes the index; each command of the kernel step fails by itself |
| `build_layers` | install and init apart, three runs, one change, ten base images, two of the RHEL family, one of them with its services unmasked; a build for a Raspberry Pi; all removals, all copies or all links of a kernel step failing | kernel and initrd match; `/boot/vmlinuz` never dangles; the kernel step can be repeated; Trusted Boot images have no initrd, no image has host keys; a good build validates |
| `install` | every system and board of `.github/workflows/test.yml` and twelve builds beside them, two runs, one break in each | a good run has installed what the plans name and nothing else; exactly one kernel; every dracut module and service that init asks for has its package; the Jetson firmware package is not installed without the file that keeps it from flashing, but in a run that has failed already; a good run leaves whole binaries; nothing fails without a reason |
| `bus` | one plugin, six providers | the event ends, loses no error, asks for every provider; the `WaitGroup` never goes below zero |
| `qspi` | two images, ten boards, three runs, a signal, a reboot | success without a signal means that the update is staged; a mount left behind is reported; the capsule is flushed before the firmware is told |
| `upgrade` | five images (installed, good, broken, late, unloadable), two upgrades, one fault, one choice by hand | the fallback has come up before; a new image stays under assessment until it comes up and gets one try; a fallback is reported; the machine recovers; the job completes; `BootAssessment` is implemented |
| `build_no_link` | two runs, two changes | an image without `/boot/vmlinuz` although a kernel is installed |
| `bus_two_plugins` | two plugins, two providers | the deadlock |
| `qspi_silent` | one run, one signal | a signal turns into exit status 0 |
| `upgrade_untried` | two upgrades, no fault, no choice by hand | the second upgrade is never tried |
| `validate_masked` | three services, two layers | a masked service passes `validate` |

Bounds. Two released kernels are enough for every comparison the pipeline makes (the
planned one and another one); the spellings of a name are the chooser's, whose run has them.
In `build_onego` no command of the kernel step fails, or any one, or all of a kind; in
`build_layers`, with its ten base images, none or all of a kind; its install runs skip the cloud
configs, which may each be missing and which none of its properties reads. Three
runs let a good run, a failed one and a repetition follow each other in any order; one
change falls in any of the gaps, during a plan's execution included. The chooser's
properties compare at most two entries of a listing and each kind of name is there. The
boards of `qspi` have firmware below the floor, equal to each image's or between them, and
newer than both, on either chip; three runs are a run before and one after a reboot and a
repetition. In `install` one break in a run is enough because the first failure decides how
the run ends, and the break of the run before is what it finds; a version override may differ
between the two. In `upgrade` every kind of image can be the first upgrade and the second, so
a machine can be left on the fallback by the first and go on from there; a single fault
between any two commands reaches every half-written state the scripts can leave, and
`plan.force` lets the same image be written twice.

Fairness. In `ProviderBus` the Go scheduler runs every goroutine that can go on, and a
plugin's process ends, since `Publish` has no timeout and the code relies on it. In
`UpgradeBoot` the menu ends by itself (`timeout=10`), a boot goes on or is back at the menu
(`panic=5`, `rd.emergency=reboot`, `systemd.crash_reboot=yes`), a reboot that was asked for
comes, and the controller runs the job as long as it has not exited 0. Each of these is weak
fairness of one group of actions; what people do and what breaks has none. `BootAssessment`
asks only that the menu comes up. The pipeline, the install stage and the capsule script have
no fairness: whoever runs them may stop anywhere.

`NodeRecovers` and `JobCompletes` name their exceptions (`Hopeless`, `Hindered`): a machine
whose chosen images all fail, and an upgrade that was forced, failing, disturbed or followed
by a fallback.

## Findings

1. `build_no_link`: a leftover modules directory of a purged kernel wins the choice, all
   links are skipped and the run ends well.
2. `bus_two_plugins`: two plugins and any `--provider` hang the build.
3. `qspi_silent`: cleanup takes `$?` for the script's status, which is 0 when a signal comes
   after a command that ended well; the hook then succeeds with nothing staged.
4. `upgrade_untried`: the sentinel of a failed trial is still set when the next upgrade sets
   the other one; the menu takes the fallback at once and the new image is never tried.
5. `validate_masked`: the lookup finds the unit file in `/usr/lib` and stops before the mask
   in `/etc`, which is where `systemctl mask` puts it.

Read off the source and not checked by a run:

- `steps-info` lists `services` and `initramfsConfigs` under the install stage
  (`pkg/values/values.go:155`), while `RunInitStage` runs them.
- `GetLatestFromPath` says "The highest semver directory is returned" (`pkg/kernel/kernel.go:25`)
  and returns the canonical spelling of a version, which need not be a directory
  (`pkg/kernel/kernel.go:94`).
- It says "If no directories exist at all, an error is returned" (`pkg/kernel/kernel.go:28`) and
  returns the first entry of the listing, which may be a file (`pkg/kernel/kernel.go:86-87`). In
  `KernelListing` a listing with a stray file alone has that file as its answer, so the comment's
  statement is false of the model; `FailsOnlyWhenEmpty` says nothing of this case.
- A copy of a kernel that is cut short leaves a file. The step fails, and when it is run again
  `test -f` takes the file for a kernel (`pkg/stages/steps_init.go:720`).
- In the capsule script the flag of a mount is set after the mount
  (`pkg/bundled/jetson_qspi.go:274`): a signal in between leaves the partition mounted.
- The capsule of a run that was cut short stays on the partition and is offered with the next
  one, which has another name (`pkg/bundled/jetson_qspi.go:301`).

## Proofs

TLC checks the instances above; the theorems hold for every value of the constants that the
assumptions allow. The assumptions are: names of kernels are naturals with the error value
apart (`NameAssumption`), versions are naturals (`VersionAssumption`), the platforms and
commands are records of the declared shape (`BuildAssumption`), the plugins are finitely many
(`PluginsAssumption`), the number of providers is a natural (`ProvidersAssumption`),
versions of L4T have components below 256 (`ImagesAssumption`, `FirmwareAssumption`), an
image is of one of four kinds, the installed one good (`HealthAssumption`), only platforms of
the RHEL family have packages that leave the kernel under `/usr/lib/modules`
(`PackagingAssumption`), and the builds are
records of the declared shape, the supported ones as `SupportedBuild` says
(`InstallAssumption`). `FirmwareSafe`, `WholeBinaries` and `InstallsWhatIsPlanned` use none of
these. The bounds on runs, layers, breaks, signals, boots and
faults are constants of which no theorem uses more than that they are naturals.

| module | theorem | what makes it hold |
|---|---|---|
| `BootLinksProofs` | `KernelStageType` | each stage of the kernel step maps a typed `/boot` to a typed `/boot`, on every host and whichever of its commands fail |
| | `KernelStageAgain`, `KernelStageMakes` | `KernelStageEffect` gives what the fifteen stages leave, path by path: all but three paths are as the removals left them (`Settled`), and the three links are what the link stages make of it one after another. Doing it again finds every link where it would put it; each kind of kernel file has a stage that takes the link if nothing before it did. That is of a step in which no command fails; `KernelStageFollows` carries it over: a command that fails leaves the error set, so a step that ends well did what the same step without failing commands does (`KernelStageWhole`). What a failed step leaves is still in order for the next one (`KernelStageTidy`) |
| `ImageBuildProofs` | `TypeCorrect` | `TypeOK` alone is not inductive: the kernel step applies `KernelStage` to the planned kernel, which must not be the error. `PlanInv` says that a plan with a kernel step names a kernel, from the plan up to that step |
| | `InitOnCompleteInstall` | `InstallInv` follows the parts of an installation step by step: behind each step what it brings is there or the run has an error, and `FilesGrow` shows that no step takes a part away |
| | `TrustedWithoutInitrd` | `TrustedInv`: between the initrd step and the end of init there is none as long as nothing has failed |
| | `NoKeysAfterCleanup` | `CleanInv`: nothing after cleanup generates keys |
| `InitStageProofs` | `KernelMatchesInitrd` | `LinkInv`: after its first stage the kernel step makes links to no kernel but the planned one (`KernelStageLinks`), and nothing touches `/boot` until the executor run ends; `InitrdInv` says the same of the initrd. Both need that `err`, once set, stays set through every step, the kernel step included (`KernelStageFails`) |
| | `NoDanglingLink` | only three names in `/boot` are ever links (`Solid`, in every state), so what the kernel step links to is a file; all removals that could hit a target come before the links are made (`KernelStageResolves`) |
| | `InitrdComplete`, `ReleaseOfThisRun` | `InitrdInv` and `ReleaseInv` along the steps, with `InstallInv` for what the install stage brought |
| | `KernelStepRepeatable` | the links in `/boot` are as `KernelStageAgain` needs them in every state (`LinksInv`): their targets are never links themselves, `vmlinuz.old` is a link only with Ubuntu's packaging, and `/usr/lib/modules` holds a kernel only with the RHEL family's. Layers, extensions and failed runs keep it so |
| | `GoodBuildIsValid` | `ValidInv` says along the steps which of the parts that `validate` looks for the run has brought and that no later step takes one away; `BaseInv` and `KernelStageMakes` give `/boot/vmlinuz`. It needs that something of the planned kernel is left, that getty is not masked from the start outside the RHEL family, and that a kernel left in `/usr/lib/modules` alone is one of a host for which the kernel step looks there (`PackagingAssumption`) |
| | `NvdimmOfPlan` | `IndexInv`: from the package step of the install stage to the workarounds step of the init stage, the release, kernel, initrd and extension steps and the start of init included, the package index is there unless the run has failed; the workarounds step then takes the modules from it |
| `InstallStageProofs` | `FirmwareSafe` | `FirmwareInv`: the repository is configured only by the stage that also makes the file. `mkdir` and `touch` may fail and the stage configures the repository all the same, but then the run has failed (`err`) until its kernel packages are installed; in a later run the file is made before anything is installed, or that run fails too |
| | `WholeBinaries` | `FilesInv`: a file without x bit was created by a write that was cut short, and the installer is as its one write left it. `WrittenInv` says along the steps which files this run has written |
| | `TypeCorrect` | `TypeInv`: only a standard build comes to the step that makes the link |
| | `InstallsWhatIsPlanned` | `PlannedInv`: what is installed is planned or a bundled kernel that has yet to go, and, as long as no stage has failed, a run past a stage has what the stage brings. Nothing is asked of the system, its version or the tables |
| | `OneKernelInstalled` | for every build that is as `SupportedBuild` says: `PlannedKernel` goes through the tables row by row. A distribution has either a list of its own or its family's (`OwnKernel`, `FamilyKernel`), the releases of Ubuntu satisfy one constraint each (`CheckRelease`), a board has one row, and no other table names a kernel (`Apart`) |
| | `ModulesProvided`, `AllServicesProvided` | `PlannedModules` and `PlannedServices`: for each family, what the rows without or with a constraint bring (`DebianFamilyHas`, ...) is what the modules and services chosen by the constraints of the init stage need |
| | `FailuresExplained` | `ExplainedInv`: an error under way is excused; the repositories that `PlannedSources` finds for the packages of the plans are there when they are installed, or something broke; a bundled kernel is removed where it is installed; a link found before its step was made in an earlier run |
| `KernelListingProofs` | `FailsOnlyWhenEmptyHolds`, `PiBootsRaspiHolds`, `NewestWinsHolds`, `ValidateAgreesHolds` | the listing only holds names, of any number; a finite set of versions has a greatest one |
| `ProviderBusProofs` | `TypeCorrect`, `WaitGroupSafe`, `OutcomeComplete`, `SuccessComplete` | `CountInv`: the counter is the providers less the outcomes in the channel, plus the handlers that have sent and not counted down; the channel holds at most one outcome per provider, so the counter cannot go below zero, for any number of plugins (the run checks one). `ErrorInv` says where an error is that has not been collected, `CauseInv` that an error on its way is one that a plugin answered with: the call returns an error if and only if a plugin did or an event was not published |
| `QspiUpdateProofs` | `TypeCorrect` | |
| | `SuccessStaged` | `ProgressInv`: past its decision the script runs on older firmware only, the capsule is dirty before `sync` and whole before OsIndications. `SuccessInv`: a status 0 without a signal means that the work is done, through all of cleanup |
| | `LeftMountReported` | `MountInv`: what is mounted is flagged, or its umount has failed and the status is 1 |
| | `AdvertisedFlushed` | `ProgressInv`, and that no step but `SetOsIndications` sets the bit |
| | `EncodeOrder` | linear arithmetic |
| `UpgradeBootProofs` | `TypeCorrect`, `RollbackProven`, `SuspectStaysGuarded`, `SuspectTriedOnce`, `FallbackReported` | one inductive invariant `IInv`: the running image has come up once its boot is past the kernel, and it is the one in its slot until active is replaced; an unproven image in active whose hooks ran has its sentinel and the hook file; a try that was made is recorded in the second sentinel, which only active's boot removes |
| | `Refinement` | `Simulation`: under the mapping every initial state is one of `BootAssessment` and every step one of its steps or a stutter |

Every safety property of a passing run is a theorem. Only model-checked: `Returns`,
`NodeRecovers`, `JobCompletes` and the fairness in `Implements`, since liveness is out of the
prover's reach; the properties of `validate_masked` and of the other runs that expect a
violation are refuted by TLC's traces. `ServiceUnits` has no theorem: its only property is one
of those.

## Not modelled

- `kairos-agent` and the system upgrade controller are other programs. What the scripts rely
  on is in `UpgradeBoot`, marked external.
- Machines that boot UKIs (`rd.immucore.uki`) have no GRUB; the hooks of `08_grub.yaml` leave
  them alone. The settings by which an operator overrides the menu (`saved_entry`,
  `default_fallback`, `enable_boot_assessment_always`) are off by default and are left so.
- `getProviderInfo` lets the goroutines of several plugins write one structure. The outcome of
  that race is any mixture of their answers, and the code promises nothing of it.
- Of the validator, `/var/lock` and the keys of kairos-release one by one. Its checks of the
  standard variant never run: the command has only the flag `--trusted` (`main.go:246`).
- Names in the package lists that nothing here depends on, templates in them, branding, grub
  files, ssh hardening and the other cloud configs: data without state.
- Alpine's initramfs script is third-party code. Embedding and building are packaging.

## Plan

1. `ImageBuild`, `BootLinks`, `KernelChooser`, `ProviderBus`, `QspiUpdate`: done.
2. Upgrades and boot assessment with the abstract protocol and its refinement: done
   (`UpgradeBoot`, `BootAssessment`).
3. Binaries over repeated runs, package maps and detection, repositories: done
   (`InstallStage`, `Packages`, `InitNeeds`).
4. The validator on the images of the pipeline and on units: done (`ImageValidation`,
   `ServiceUnits`).
5. Proofs of the safety properties of every run: done.
6. Left: abstract specifications of the provider event (every answer collected once) and of
   the capsule script (staged or not, atomically), with refinements.
