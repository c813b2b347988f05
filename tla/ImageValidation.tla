-------------------------- MODULE ImageValidation --------------------------
(***************************************************************************)
(* "kairos-init validate" (pkg/validation/validate.go) on the images that  *)
(* ImageBuild makes.  The command shares one flag with the build,          *)
(* --trusted: variant and model are left at their defaults, so that what   *)
(* it checks of a standard image never runs, and it chooses a kernel as    *)
(* for a generic machine.  Every check is made and every failure reported. *)
(***************************************************************************)
EXTENDS ImageBuild

\* Binaries of Kairos; and sudo, less and, but for Hadron, mount.nfs.  The
\* provider's are asked for only under KAIROS_SOFTWARE_VERSION = k3s or k0s,
\* which is where the build writes a version.
BinariesFound == "binaries" \in files /\ (Prebuilt \/ "packages" \in files)

\* os.Lstat finds /boot/vmlinuz, and EvalSymlinks follows a link to its end.
VmlinuzFound == /\ boot[<<"vmlinuz">>] # Absent
                /\ IsLink(boot, <<"vmlinuz">>) => IsFile(boot, <<"vmlinuz">>)

\* /boot/initrd, and, where dracut's lsinitrd is, immucore and the agent in it.
InitrdFound == initrd # NoInitrd
HasLsinitrd == platform.packaging \notin {"lts", "rpi", "hadron"}
InitrdWhole == HasLsinitrd => initrd.kairos

\* ValidateKernel: some kernel, the same way the init plan chooses it.
KernelFound == GetLatest(modules, {}, FALSE) # {NoKernel}

\* The units the validator looks up come with the packages, and a base image may
\* come with them masked: the services step unmasks on the RHEL family only.  The
\* lookup may overlook a mask (module ServiceUnits); this is its strictest answer.
UnitsFound    == Prebuilt \/ "packages" \in files
UnitsUnmasked == ~platform.masked \/ (platform.host.rhel /\ "services" \in files)

\* systemd-udevd and systemd-logind, of the RHEL family.
ValidateRHELServices == platform.host.rhel => UnitsFound /\ UnitsUnmasked

\* getty.target, wherever systemd is: not on Alpine.
ValidateGettyServices ==
    platform.packaging \notin {"lts", "rpi"} => UnitsFound /\ UnitsUnmasked

Validate(trusted) ==
    /\ BinariesFound
    /\ VmlinuzFound
    /\ trusted \/ (InitrdFound /\ InitrdWhole)
    /\ release.present
    /\ ~hostKeys
    /\ ValidateRHELServices /\ ValidateGettyServices
    /\ KernelFound

\* The image is whole: install stage and init stage have brought their parts,
\* and the init stage, which skipped no step the validator looks at, was the
\* last to run.
Complete == /\ pc = "report" /\ cmd.stage # "install"
            /\ {"init", "kairosRelease", "kernel", "initramfsConfigs", "initrd",
                "services", "cleanup"} \intersect cmd.skip = {}
            /\ "binaries" \in files /\ (Prebuilt \/ "packages" \in files)

\* A file of the planned kernel is left, beside its checksum: a directory of
\* /lib/modules may outlive the purge of its package.
KernelLeft(n) == \/ Prebuilt \/ n \in lib
                 \/ \E p \in Payload(n) \ {<<"hmac", n>>} : boot[p] = Regular

\* An init stage that ends well on an image with packages and binaries makes
\* an image that the validator passes, whatever the author's layers did
\* before and however often a stage ran or failed: each check is answered by a
\* step that is not undone by a later one.  The kernel the plan named must be
\* there, no extension of this run may have changed the kernels, and only an
\* image of the RHEL family may come with masked services.
GoodBuildValidates ==
    Complete /\ ~cmd.extensions /\ KernelLeft(plan) /\ (platform.masked => platform.host.rhel)
      => Validate(cmd.trusted)
=============================================================================
