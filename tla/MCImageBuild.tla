---------------------------- MODULE MCImageBuild ----------------------------
(***************************************************************************)
(* Instances of ImageBuild.  Names 1 and 2 are released kernels, 2 the     *)
(* newer and 1 the one of a Raspberry Pi.                                  *)
(***************************************************************************)
EXTENDS ImageValidation

MCName     == 1..2
MCReleased == {1, 2}
MCRaspi    == {1}
MCSemver   == [n \in MCName |-> n]
MCCanon    == [n \in MCName |-> n]
MCSplit    == {2}

\* In the kernel step nothing fails, one command does, or all of a kind do.
MCKinds  == {{}} \union {{c} \X Path : c \in {"rm", "cp", "cut", "ln"}}
MCFaults == MCKinds \union {{f} : f \in Fault}

Flags(stage, skip, trusted, standard, ext) ==
    [stage |-> stage, skip |-> skip, trusted |-> trusted,
     standard |-> standard, extensions |-> ext, rpi |-> FALSE]

\* A build in one go, for both boot modes and both variants, with extensions.
MCOneGo == {Flags("all", {}, t, s, x) : t, s, x \in BOOLEAN}

On(arch, rhel, packaging) ==
    [host |-> [arch |-> arch, rhel |-> rhel], packaging |-> packaging, masked |-> rhel]

MCUbuntu == {On("amd64", FALSE, "linked")}   \* the usual base image

\* One base image for every way a kernel comes into /boot; one of the two of the
\* RHEL family comes with its services unmasked.
MCPlatforms == MCUbuntu \union
               {On("amd64", FALSE, "debug"), On("riscv64", FALSE, "vmlinux"),
                On("amd64", TRUE, "lib"),
                [On("arm64", TRUE, "hmac") EXCEPT !.masked = FALSE],
                On("arm64", FALSE, "suse"), On("amd64", FALSE, "lts"),
                On("arm64", FALSE, "rpi"), On("arm64", FALSE, "orin"),
                On("amd64", FALSE, "hadron")}

\* A build in layers: install and init apart, in any order and over and over,
\* with extensions, for Trusted Boot, for a Raspberry Pi, and with some steps
\* skipped; that of the cloud configs always is, which no property here reads.
MCLayered == {Flags("install", {"cloudconfigs"}, FALSE, FALSE, FALSE),
              Flags("init", {}, FALSE, FALSE, FALSE),
              Flags("init", {}, FALSE, FALSE, TRUE),
              Flags("init", {}, TRUE, FALSE, FALSE),
              [Flags("init", {}, FALSE, FALSE, FALSE) EXCEPT !.rpi = TRUE],
              Flags("init", {"initrd", "cleanup"}, FALSE, FALSE, FALSE)}
=============================================================================
