---------------------------- MODULE ServiceUnits ----------------------------
(***************************************************************************)
(* How the services validator looks for units, and how they get masked.    *)
(* systemd packages put units in /usr/lib/systemd/system, "systemctl mask" *)
(* links /dev/null in /etc/systemd/system, as the container images of the  *)
(* RHEL family come and as a layer of the author may do, and the services  *)
(* step unmasks.  A unit's files are those of the four directories of      *)
(* defaultSystemdSearchPaths.                                              *)
(***************************************************************************)
EXTENDS Naturals, Sequences

CONSTANTS Services,  \* those the validator checks: udevd, logind, getty.target
          MaxLayers  \* bound on what layers, of the base image or of the author, mask

Dirs == {"/usr/lib", "/lib", "/etc", "/run"}

\* defaultSystemdSearchPaths, and where systemd itself looks first.
defaultSystemdSearchPaths == <<"/usr/lib", "/lib", "/etc", "/run">>
systemdSearchPaths        == <<"/etc", "/run", "/usr/lib", "/lib">>

VARIABLES unit,   \* each service and directory: "none", "file", or "null", a
                  \* link to /dev/null
          layers
vars == <<unit, layers>>

Units  == [Services -> [Dirs -> {"none", "file", "null"}]]
TypeOK == unit \in Units /\ layers \in 0..MaxLayers

\* As the packages bring them, in a merged /usr.
Packaged == [d \in Dirs |-> IF d \in {"/usr/lib", "/lib"} THEN "file" ELSE "none"]

Init == /\ unit = [s \in Services |-> Packaged]
        /\ layers = 0

\* systemctl mask, by the maker of the base image or in a layer: only in /etc.
Mask(s) == /\ layers < MaxLayers /\ layers' = layers + 1
           /\ unit[s]["/etc"] # "file"
           /\ unit' = [unit EXCEPT ![s]["/etc"] = "null"]

\* A link to /dev/null in /usr/lib, which is how a package masks.
MaskForAll(s) == /\ layers < MaxLayers /\ layers' = layers + 1
                 /\ unit' = [unit EXCEPT ![s]["/usr/lib"] = "null", ![s]["/lib"] = "null"]

\* GetServicesStage: "systemctl unmask" of each.
GetServicesStage ==
    /\ unit' = [s \in Services |->
                  [d \in Dirs |-> IF d \in {"/etc", "/run"} /\ unit[s][d] = "null"
                                    THEN "none" ELSE unit[s][d]]]
    /\ UNCHANGED layers

Next == GetServicesStage \/ \E s \in Services : Mask(s) \/ MaskForAll(s)

Spec == Init /\ [][Next]_vars

-----------------------------------------------------------------------------
\* lookupSystemdServiceFile: the first directory with the unit; os.Stat goes
\* through the link, and /dev/null is there.
lookupSystemdServiceFile(s, paths) ==
    LET found == {i \in DOMAIN paths : unit[s][paths[i]] # "none"}
    IN  IF found = {} THEN "none"
        ELSE unit[s][paths[CHOOSE i \in found : \A j \in found : i <= j]]

\* ValidateRHELServicesWithPaths and ValidateGettyServicesWithPaths.
ValidateServices == \A s \in Services :
    lookupSystemdServiceFile(s, defaultSystemdSearchPaths) = "file"

\* Masked: what systemd finds first is the link.
Masked(s) == lookupSystemdServiceFile(s, systemdSearchPaths) = "null"

\* ValidateRHELServicesWithPaths "checks that critical systemd services exist
\* and are not masked on RHEL family systems": what it passes is not masked.
ValidationSeesMasks == ValidateServices => \A s \in Services : ~Masked(s)
=============================================================================
