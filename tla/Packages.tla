------------------------------ MODULE Packages ------------------------------
(***************************************************************************)
(* Which packages an image gets: pkg/system/system.go detects the system   *)
(* from os-release, and pkg/values/packagemaps.go merges tables keyed by   *)
(* distribution or family, architecture, model and version constraint.     *)
(*                                                                         *)
(* A table is a set of rows, one for each list of the Go map.  A list is   *)
(* abstracted to the packages that something else depends on: a kernel,    *)
(* what the initrd is made with, what the services step enables, and the   *)
(* tools that set repositories up; "base" and "grub" stand for the rest.   *)
(* A version is the sequence of its numbers, empty when VERSION_ID is      *)
(* missing or go-version cannot parse it.                                  *)
(***************************************************************************)
EXTENDS Naturals, Sequences, FiniteSets, TLC

Arch      == {"amd64", "arm64", "riscv64"}
NoVersion == <<>>

-----------------------------------------------------------------------------
(* pkg/system: the distribution and the family of an os-release.           *)

KnownIDs ==
    {<<"debian", "Debian", "DebianFamily">>, <<"ubuntu", "Ubuntu", "DebianFamily">>,
     <<"fedora", "Fedora", "RedHatFamily">>, <<"rocky", "RockyLinux", "RedHatFamily">>,
     <<"almalinux", "AlmaLinux", "RedHatFamily">>, <<"ol", "OracleLinux", "RedHatFamily">>,
     <<"rhel", "RedHat", "RedHatFamily">>, <<"arch", "Arch", "ArchFamily">>,
     <<"alpine", "Alpine", "AlpineFamily">>, <<"sles", "SLES", "SUSEFamily">>,
     <<"opensuse-leap", "OpenSUSELeap", "SUSEFamily">>,
     <<"opensuse-tumbleweed", "OpenSUSETumbleweed", "SUSEFamily">>,
     <<"sle-micro-rancher", "SLEMicroRancher", "SUSEFamily">>,
     <<"hadron", "Hadron", "HadronFamily">>}

\* Names that are no distribution but tell the family.
Markers == {<<"redhat", "Fedora", "RedHatFamily">>, <<"suse", "OpenSUSELeap", "SUSEFamily">>}

Unknown == <<"", "Unknown", "UnknownFamily">>

DetectFromIDLike(tokens) ==
    LET hits == {i \in DOMAIN tokens : \E r \in KnownIDs \union Markers : r[1] = tokens[i]}
    IN  IF hits = {} THEN Unknown
        ELSE LET first == CHOOSE i \in hits : \A j \in hits : i <= j
             IN  CHOOSE r \in KnownIDs \union Markers : r[1] = tokens[first]

DetectFromReleaseIDs(id, tokens) ==
    IF \E r \in KnownIDs : r[1] = id
      THEN CHOOSE r \in KnownIDs : r[1] = id
      ELSE DetectFromIDLike(tokens)

\* Alpine keeps major and minor of a version with three numbers.
DetectSystem(os, arch) ==
    LET r == DetectFromReleaseIDs(os.id, os.like)
    IN  [distro |-> r[2], family |-> r[3], name |-> os.name, arch |-> arch,
         version |-> IF r[2] = "Alpine" /\ Len(os.version) = 3
                       THEN SubSeq(os.version, 1, 2) ELSE os.version]

-----------------------------------------------------------------------------
(* Version constraints: a constraint is a set of intervals [from, below),  *)
(* "||" is their union.                                                    *)

\* The place of a version: 22.04 is 220400.
Place(v) == LET at(i) == IF i <= Len(v) THEN v[i] ELSE 0
            IN  10000 * at(1) + 100 * at(2) + at(3)

Never        == 2000000000                             \* after every version
Always       == {<<0, Never>>}                         \* the key Common
From(v)      == {<<Place(v), Never>>}                  \* ">=v"
Below(v)     == {<<0, Place(v)>>}                      \* "<v"
OneOf(vs)    == {<<Place(v), Place(v) + 1>> : v \in vs}  \* "v || w"
Check(v, constraint) == \E i \in constraint : i[1] <= Place(v) /\ Place(v) < i[2]

-----------------------------------------------------------------------------
(* The tables.                                                             *)

ModelRow(key, arch, model, when, pkgs) ==
    [key |-> key, arch |-> arch, model |-> model, when |-> when, pkgs |-> pkgs]

Row(key, arch, when, pkgs) == ModelRow(key, arch, "generic", when, pkgs)

CommonPackages == {"base", "sudo", "less"}

\* The template linux-image-generic-hwe-{{.version}}, filled in for the releases it
\* is used for, and Debian's names.
Hwe(v) == CASE v = <<20, 4>> -> "linux-image-generic-hwe-20.04"
            [] v = <<22, 4>> -> "linux-image-generic-hwe-22.04"
            [] v = <<24, 4>> -> "linux-image-generic-hwe-24.04"
            [] v = <<28, 4>> -> "linux-image-generic-hwe-28.04"
            [] OTHER         -> ""
DebianImage == [amd64 |-> "linux-image-amd64", arm64 |-> "linux-image-arm64",
                riscv64 |-> "linux-image-riscv64"]
Lts    == {<<20, 4>>, <<22, 4>>, <<24, 4>>, <<28, 4>>}

BaseDebianFamily ==
    {Row("DebianFamily", "common", Always,
         {"base", "curl", "gnupg", "nfs-common", "systemd", "fail2ban",
          "openssh-server", "systemd-timesyncd"})}

BaseSUSE ==
    {Row("SUSEFamily", "common", Always,
         {"base", "curl", "nfs-client", "systemd", "fail2ban", "openssh", "multipath-tools"}),
     Row("SUSEFamily", "common", {<<0, 50400>>, <<50401, 50500>>, <<50501, Never>>},
         {"systemd-networkd", "systemd-resolved"}),
     Row("SUSEFamily", "amd64", Always, {"base"}),
     Row("SUSEFamily", "arm64", Always, {"base"}),
     Row("OpenSUSELeap", "common", Always, {"base"}),
     Row("SLES", "common", Always, {"base"})}

BaseAlpine ==
    {Row("AlpineFamily", "common", Always,
         {"base", "curl", "nfs-utils", "fail2ban", "openssh-server", "connman",
          "openrc", "busybox-openrc", "eudev", "multipath-tools"})}

BaseRedHat ==
    {Row("RedHatFamily", "common", Always,
         {"base", "nfs-utils", "systemd", "chrony", "NetworkManager", "openssh-server",
          "device-mapper-multipath"}),
     Row("RedHatFamily", "common", From(<<9>>), {"systemd-resolved"}),
     Row("Fedora", "common", Always, {"fail2ban"})}

\* Mutant: systemd-resolved is thought to be a package of its own from 25.10 on.
BaseDebianUbuntuLateResolved ==
    {Row("Debian", "common", Always, {"systemd-resolved", "multipath-tools"}),
     Row("Ubuntu", "common", Always, {"base"}),
     Row("Ubuntu", "common", From(<<22, 4>>), {"multipath-tools"}),
     Row("Ubuntu", "common", From(<<25, 10>>), {"systemd-resolved"})}

BaseDebianUbuntu ==
    {Row("Debian", "common", Always, {"systemd-resolved", "multipath-tools"}),
     Row("Debian", "common", From(<<13>>), {"systemd-cryptsetup"}),
     Row("Ubuntu", "common", Always, {"base"}),
     Row("Ubuntu", "common", Below(<<26, 4>>), {"packagekit-tools"}),
     Row("Ubuntu", "common", From(<<26, 4>>), {"packagekit"}),
     Row("Ubuntu", "common", From(<<22, 4>>), {"multipath-tools"}),
     Row("Ubuntu", "common", From(<<24, 4>>), {"systemd-resolved"}),
     Row("Ubuntu", "common", From(<<25, 10>>), {"systemd-cryptsetup"})}

BasePackages == BaseDebianFamily \union BaseSUSE \union BaseAlpine
                \union BaseRedHat \union BaseDebianUbuntu

BasePackagesModels ==
    {ModelRow("Ubuntu", "arm64", "agx-orin", Always, {"base"}),
     ModelRow("Ubuntu", "arm64", "orin-nx", Always,
              {"base", "curl", "gnupg", "dracut", "dracut-live", "dracut-network",
               "libopencv-dev", "systemd", "systemd-timesyncd", "grub"}),
     ModelRow("Ubuntu", "arm64", "thor", Always, {"base"}),
     ModelRow("Ubuntu", "arm64", "dgx-spark", Always, {"base", "linux-image-nvidia-hwe-24.04"})}

ImmucorePackages ==
    {Row("DebianFamily", "common", Always, {"dracut", "dracut-network", "isc-dhcp-client"}),
     Row("Ubuntu", "common", From(<<22, 4>>), {"dracut-live"}),
     Row("Debian", "common", Always, {"dracut-live"}),
     Row("RedHatFamily", "common", Always, {"dracut", "dracut-live", "dracut-network"}),
     Row("RedHatFamily", "common", Below(<<10>>), {"dhcp-client"}),
     Row("SUSEFamily", "common", Always, {"dracut", "dhcp-client"})}

GrubPackages ==
    {Row("DebianFamily", "common", Always, {"base"}),
     Row("RedHatFamily", "common", Always, {"grub"}),
     Row("AlpineFamily", "common", Always, {"grub"}),
     Row("AlpineFamily", "amd64", Always, {"grub"}),
     Row("SUSEFamily", "common", Always, {"base"}),
     Row("Ubuntu", "common", Always, {"base"})}
    \union {Row(f, a, Always, {"grub"}) : f \in {"DebianFamily", "RedHatFamily", "SUSEFamily"},
                                          a \in Arch}

SystemdPackages ==
    {Row("Ubuntu", "amd64", From(<<24, 4>>), {"base"}),
     Row("Ubuntu", "common", Always, {"systemd"}),
     Row("Ubuntu", "common", From(<<24, 4>>), {"base", "systemd-boot"})}

\* What both kernel tables say of the families and of Oracle Linux.
FamilyKernels ==
    {Row("OracleLinux", "amd64", Always, {"kernel"}),
     Row("OracleLinux", "arm64", Always, {"kernel-uek"}),
     Row("RedHatFamily", "common", Always, {"kernel"}),
     Row("AlpineFamily", "common", Always, {"linux-lts"}),
     Row("SUSEFamily", "common", Always, {"kernel-default"})}

DebianKernels(archs) == {Row("Debian", a, Always, {DebianImage[a]}) : a \in archs}

UbuntuKernels(arch) ==
    {Row("Ubuntu", arch, OneOf({v}), {Hwe(v)}) : v \in Lts}
    \union {Row("Ubuntu", arch, OneOf({<<24, 10>>, <<25, 4>>, <<25, 10>>}), {Hwe(<<24, 4>>)}),
            Row("Ubuntu", arch, OneOf({<<26, 4>>}), {"linux-image-generic"})}

KernelPackages ==
    FamilyKernels \union DebianKernels(Arch)
    \union UbuntuKernels("amd64") \union UbuntuKernels("arm64")
    \union {Row("Ubuntu", "riscv64", Always, {"linux-image-generic"})}

KernelPackagesTrustedBoot ==
    FamilyKernels \union DebianKernels({"amd64", "arm64"})
    \union {Row("Ubuntu", "common", Always, {Hwe(<<24, 4>>)})}

PiKernels(model) ==
    {ModelRow(k[1], "arm64", model, Always, {k[2]}) :
        k \in {<<"Debian", "linux-image-arm64">>, <<"Arch", "linux-rpi">>,
               <<"Ubuntu", "linux-raspi">>, <<"SUSEFamily", "kernel-default">>,
               <<"AlpineFamily", "linux-rpi">>}}

JetsonKernels ==
    {ModelRow("Ubuntu", "arm64", m, Always,
              {"nvidia-l4t-kernel", "nvidia-l4t-bootloader", "cuda", "libopencv-dev"}) :
         m \in {"agx-orin", "orin-nx"}}
    \union {ModelRow("Ubuntu", "arm64", "thor", Always,
                     {"nvidia-l4t-kernel", "nvidia-l4t-bootloader"})}

KernelPackagesModels == PiKernels("rpi3") \union PiKernels("rpi4") \union JetsonKernels

-----------------------------------------------------------------------------
(* Reading the tables.                                                     *)

\* The lists of a table for a system and a model: distribution and family,
\* any architecture and this one.
Lists(table, s, model) == {r \in table : /\ r.key \in {s.distro, s.family}
                                         /\ r.arch \in {"common", s.arch}
                                         /\ r.model = model}

\* A version that does not parse leaves nothing of the lists.
FilterPackagesOnConstraint(s, rows) ==
    UNION {r.pkgs : r \in {q \in rows : s.version # NoVersion /\ Check(s.version, q.when)}}

GetPackages(s, cmd) ==
    CommonPackages \union
    FilterPackagesOnConstraint(s,
        Lists(BasePackages, s, "generic")
        \union (IF cmd.model = "generic" THEN {} ELSE Lists(BasePackagesModels, s, cmd.model))
        \union (IF cmd.trusted THEN Lists(SystemdPackages, s, "generic")
                ELSE Lists(GrubPackages, s, "generic") \union Lists(ImmucorePackages, s, "generic")))

\* Mutant: what the distribution says is added to what its family says.
GetKernelPackagesMerged(s, cmd) ==
    LET table == IF cmd.trusted THEN KernelPackagesTrustedBoot ELSE KernelPackages
    IN  FilterPackagesOnConstraint(s,
            IF cmd.model # "generic" THEN Lists(KernelPackagesModels, s, cmd.model)
            ELSE Lists(table, s, "generic"))

\* A distribution with a kernel list of its own does not take its family's.
GetKernelPackages(s, cmd) ==
    LET table == IF cmd.trusted THEN KernelPackagesTrustedBoot ELSE KernelPackages
        all   == Lists(table, s, "generic")
        own   == {r \in all : r.key = s.distro}
    IN  FilterPackagesOnConstraint(s,
            IF cmd.model # "generic" THEN Lists(KernelPackagesModels, s, cmd.model)
            ELSE IF own # {} THEN own ELSE all)

Kernels == {"linux-image-generic", "kernel", "kernel-uek", "linux-lts", "kernel-default",
            "linux-rpi", "linux-raspi", "nvidia-l4t-kernel", "linux-image-nvidia-hwe-24.04"}
           \union {Hwe(v) : v \in Lts} \union {DebianImage[a] : a \in Arch}
=============================================================================
