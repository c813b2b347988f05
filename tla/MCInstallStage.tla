--------------------------- MODULE MCInstallStage ---------------------------
(***************************************************************************)
(* The builds of InstallStage that TLC explores: the matrix of             *)
(* .github/workflows/test.yml, Hadron apart (which installs no package),   *)
(* and the boards newer than it; and builds that the program turns down or *)
(* that fall beside the tables.                                            *)
(***************************************************************************)
EXTENDS InstallStage

OS(id, like, name, version) == [id |-> id, like |-> like, name |-> name, version |-> version]

Ubuntu(v)  == OS("ubuntu", <<"debian">>, "Ubuntu", v)
Debian(v)  == OS("debian", <<>>, "Debian", v)
Fedora(v)  == OS("fedora", <<>>, "Fedora", v)
Rocky(v)   == OS("rocky", <<"rhel", "centos", "fedora">>, "Rocky", v)
Alma(v)    == OS("almalinux", <<"rhel", "centos", "fedora">>, "AlmaLinux", v)
Oracle(v)  == OS("ol", <<"fedora">>, "Oracle Linux", v)
CentOS(v)  == OS("centos", <<"rhel", "fedora">>, "CentOS", v)
Alpine(v)  == OS("alpine", <<>>, "Alpine", v)
Leap(v)    == OS("opensuse-leap", <<"suse", "opensuse">>, "openSUSE Leap", v)
Tumbleweed == OS("opensuse-tumbleweed", <<"opensuse", "suse">>, "openSUSE Tumbleweed", <<9999>>)
SLEMicro   == OS("sle-micro-rancher", <<"suse">>, "SLE Micro", <<5, 4>>)

BuildOf(os, arch, model, trusted, fips, standard, skip) ==
    [os |-> os, arch |-> arch, model |-> model, trusted |-> trusted, fips |-> fips,
     standard |-> standard, skip |-> skip]

Plain(os, arch) == BuildOf(os, arch, "generic", FALSE, FALSE, FALSE, {})

MCSupported ==
    {Plain(os, arch) :
        os \in {Ubuntu(<<20, 4>>), Ubuntu(<<24, 4>>), Ubuntu(<<25, 10>>), Ubuntu(<<26, 4>>),
                Debian(<<12>>), Debian(<<13>>), Fedora(<<42>>), Fedora(<<43>>),
                Alpine(<<3, 21, 3>>), Alpine(<<3, 23, 0>>), Leap(<<15, 6>>), Leap(<<16, 0>>),
                Tumbleweed, Rocky(<<9, 5>>), Rocky(<<10, 0>>), Alma(<<9, 5>>), Alma(<<10, 0>>),
                Oracle(<<9, 5>>), Oracle(<<10, 0>>), CentOS(<<9>>), CentOS(<<10>>), SLEMicro},
        arch \in {"amd64", "arm64"}}
    \union {Plain(os, "riscv64") : os \in {Ubuntu(<<24, 4>>), Debian(<<13>>), Fedora(<<42>>)}}
    \union {BuildOf(Ubuntu(v), "amd64", "generic", TRUE, FALSE, FALSE, {}) :
                v \in {<<24, 4>>, <<25, 10>>, <<26, 4>>}}
    \union {BuildOf(Ubuntu(<<22, 4>>), "arm64", m, FALSE, FALSE, FALSE, {}) :
                m \in {"agx-orin", "orin-nx", "rpi4"}}
    \union {BuildOf(Ubuntu(<<24, 4>>), "arm64", m, FALSE, FALSE, FALSE, {}) :
                m \in {"thor", "dgx-spark"}}
    \union {BuildOf(Fedora(<<41>>), "amd64", "generic", FALSE, TRUE, FALSE, {}),
            BuildOf(Fedora(<<41>>), "amd64", "generic", TRUE, FALSE, FALSE, {}),
            BuildOf(Ubuntu(<<22, 4>>), "amd64", "generic", FALSE, FALSE, TRUE, {})}

\* Not supported: no kernel in the tables, a derivative of Ubuntu, no version,
\* a distribution without packages, FIPS and architectures turned down; and
\* supported ones with steps left out.
MCOthers ==
    {Plain(Ubuntu(<<23, 10>>), "amd64"),
     Plain(OS("linuxmint", <<"ubuntu", "debian">>, "Linux Mint", <<21, 3>>), "amd64"),
     Plain(Debian(NoVersion), "amd64"),
     Plain(OS("arch", <<>>, "Arch Linux", NoVersion), "amd64"),
     Plain(OS("hadron", <<>>, "Hadron", <<0, 5, 1>>), "amd64"),
     BuildOf(Ubuntu(<<24, 4>>), "amd64", "generic", FALSE, TRUE, FALSE, {}),
     BuildOf(Fedora(<<42>>), "riscv64", "generic", FALSE, TRUE, FALSE, {}),
     BuildOf(Ubuntu(<<22, 4>>), "amd64", "orin-nx", FALSE, FALSE, FALSE, {}),
     BuildOf(Debian(NoVersion), "amd64", "generic", FALSE, FALSE, FALSE, {"installPackages"}),
     BuildOf(Ubuntu(<<22, 4>>), "arm64", "agx-orin", FALSE, FALSE, FALSE, {"installPackages"}),
     BuildOf(Ubuntu(<<24, 4>>), "amd64", "generic", FALSE, FALSE, TRUE,
             {"installKernel", "kairosBinaries"}),
     BuildOf(Ubuntu(<<24, 4>>), "amd64", "generic", FALSE, FALSE, TRUE, {"providerBinaries"})}

MCBuilds == MCSupported \union MCOthers
=============================================================================
