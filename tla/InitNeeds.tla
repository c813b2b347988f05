----------------------------- MODULE InitNeeds -----------------------------
(***************************************************************************)
(* What the init stage asks of the packages the install stage brought: the *)
(* dracut modules that GetKairosInitramfsFilesStage adds, and the services *)
(* that GetServicesStage enables.  Both go by the distribution, its name   *)
(* and its version, with constraints of their own beside those of the      *)
(* package tables.                                                         *)
(***************************************************************************)
EXTENDS Packages

\* A name is PRETTY_NAME less its version; "SLES" and "SLE Micro" stand for the
\* names that begin with SUSE Linux Enterprise Server and ... Micro for Rancher.
RHELNames     == {"Fedora", "CentOS", "Red Hat", "Rocky", "AlmaLinux", "Oracle Linux"}
OpenSUSENames == {"openSUSE Leap", "openSUSE Tumbleweed"}
DracutNames   == {"Ubuntu", "Debian", "SLES", "SLE Micro", "Hadron"}
                 \union RHELNames \union OpenSUSENames

\* Which package brings NetworkManager, systemd-networkd and systemd-resolved.
NetworkManager(pk) == "NetworkManager" \in pk

Networkd(s, pk) ==
    CASE s.family = "DebianFamily" -> "systemd" \in pk
      [] s.family = "SUSEFamily"   -> {"systemd-networkd", "systemd-network"} \intersect pk # {}
      [] OTHER                     -> "systemd-networkd" \in pk

Resolved(s, pk) ==
    \/ {"systemd-resolved", "systemd-network"} \intersect pk # {}
    \/ s.distro = "Ubuntu" /\ "systemd" \in pk /\ Check(s.version, Below(<<22, 10>>))

-----------------------------------------------------------------------------
UbuntuNetwork(v) ==
    IF Check(v, Below(<<20, 4, 1>>))  THEN {"network"}
    ELSE IF Check(v, From(<<26, 4>>)) THEN {"systemd-networkd", "systemd-resolved"}
    ELSE IF Check(v, From(<<24, 4>>)) THEN {"systemd-networkd", "network-legacy", "systemd-resolved"}
    ELSE {"systemd-networkd", "network-legacy"}

\* It depends on what the install stage left on disk.
RedHatNetwork(s, pk) ==
    CASE NetworkManager(pk) -> {"network-manager"}
      [] ~NetworkManager(pk) /\ s.distro = "Fedora" /\ Networkd(s, pk) ->
            {"systemd-networkd"} \union (IF Resolved(s, pk) THEN {"systemd-resolved"} ELSE {})
      [] OTHER -> IF Check(s.version, Below(<<10>>)) THEN {"network-legacy"} ELSE {"network"}

NetworkModule(s, pk) ==
    CASE s.distro = "Ubuntu"       -> UbuntuNetwork(s.version)
      [] s.family = "RedHatFamily" -> RedHatNetwork(s, pk)
      [] s.distro = "Hadron"       -> {"systemd-networkd", "systemd-resolved"}
      [] OTHER                     -> {"systemd-networkd", "network-legacy"}

SysextModule(s) ==
    CASE s.distro = "Ubuntu"       -> Check(s.version, From(<<22, 4, 1>>))
      [] s.family = "RedHatFamily" -> Check(s.version, From(<<9>>))
      [] OTHER                     -> TRUE

\* The expression UbuntuSupportedMultipathVersions: 21 and above.
Multipath(s) == s.name # "Ubuntu" \/ Check(s.version, From(<<21>>))

\* The modules dracut is told to add; none when it does not make the initrd.
InitramfsModules(s, pk) ==
    IF s.name \notin DracutNames THEN {}
    ELSE {"livenet", "dmsquash-live", "immucore", "network"}
         \union NetworkModule(s, pk)
         \union (IF SysextModule(s) THEN {"systemd-sysext"} ELSE {})
         \union (IF Multipath(s) THEN {"multipath"} ELSE {})

\* Which packages a module needs, as the comments of the package tables and of
\* the initramfs step tell it.  Elsewhere than on Debian, Ubuntu and the RHEL
\* family, dracut is one package; Ubuntu split dracut-live off with 22.04.
ModuleProvided(s, pk, m) ==
    LET whole == s.family = "SUSEFamily" /\ "dracut" \in pk
        live  == \/ "dracut-live" \in pk
                 \/ s.distro = "Ubuntu" /\ Check(s.version, Below(<<22, 4>>)) /\ "dracut" \in pk
        net   == whole \/ "dracut-network" \in pk
    IN  CASE m \in {"livenet", "dmsquash-live"} -> whole \/ live
          [] m = "network"          -> net
          [] m = "network-manager"  -> net /\ NetworkManager(pk)
          [] m = "network-legacy"   -> /\ net
                                       /\ s.distro = "Ubuntu" => Check(s.version, Below(<<26, 4>>))
                                       /\ s.family = "RedHatFamily" => Check(s.version, Below(<<10>>))
          [] m = "systemd-networkd" -> Networkd(s, pk)
          [] m = "systemd-resolved" -> Resolved(s, pk)
          [] m = "multipath"        -> {"multipath-tools", "device-mapper-multipath"} \intersect pk # {}
          [] m = "systemd-sysext"   -> "systemd" \in pk
          [] OTHER                  -> m = "immucore"

-----------------------------------------------------------------------------
\* Mutant: on the RHEL family nothing is looked for before it is enabled.
EnabledServicesUnlooked(s, pk) ==
    CASE s.name \in {"Ubuntu", "Debian"} ->
            {"ssh", "fail2ban", "systemd-timesyncd", "systemd-networkd"}
      [] s.name \in RHELNames -> {"sshd", "chronyd", "systemd-resolved", "NetworkManager", "fail2ban"}
      [] OTHER -> {}

\* The units of the packages that the services step enables.
EnabledServices(s, pk) ==
    CASE s.name \in {"Ubuntu", "Debian"} ->
            {"ssh", "fail2ban", "systemd-timesyncd", "systemd-networkd"}
      [] s.name \in OpenSUSENames ->
            {"sshd", "fail2ban", "systemd-timesyncd", "systemd-networkd", "systemd-resolved"}
      [] s.name \in {"SLES", "SLE Micro"} -> {"sshd", "systemd-networkd", "systemd-resolved"}
      [] s.name = "Hadron" ->
            {"sshd", "systemd-timesyncd", "systemd-networkd", "systemd-resolved"}
      [] s.name \in RHELNames ->
            {"sshd", "chronyd", "systemd-resolved"}
            \union (IF s.name = "Fedora" \/ "fail2ban" \in pk THEN {"fail2ban"} ELSE {})
            \union (IF Networkd(s, pk) THEN {"systemd-networkd"} ELSE {})
            \union (IF NetworkManager(pk) THEN {"NetworkManager"} ELSE {})
      [] s.name = "Alpine" ->
            {"sshd", "fail2ban", "connman", "acpid", "hwclock", "udev"}
      [] OTHER -> {}

\* Where a unit comes from; the services Alpine enables and that are not of a
\* package of their own come with busybox and openrc.
ServiceProvided(s, pk, u) ==
    CASE u \in {"ssh", "sshd"}      -> {"openssh", "openssh-server"} \intersect pk # {}
      [] u = "chronyd"              -> "chrony" \in pk
      [] u = "systemd-timesyncd"    -> IF s.family = "DebianFamily"
                                         THEN "systemd-timesyncd" \in pk ELSE "systemd" \in pk
      [] u = "systemd-networkd"     -> Networkd(s, pk)
      [] u = "systemd-resolved"     -> Resolved(s, pk)
      [] u = "NetworkManager"       -> NetworkManager(pk)
      [] u = "acpid"                -> "busybox-openrc" \in pk
      [] u = "hwclock"              -> "openrc" \in pk
      [] u = "udev"                 -> "eudev" \in pk
      [] OTHER                      -> u \in pk
=============================================================================
