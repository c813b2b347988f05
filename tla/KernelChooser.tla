--------------------------- MODULE KernelChooser ---------------------------
(***************************************************************************)
(* The kernel chooser of pkg/kernel/kernel.go: which entry of /lib/modules *)
(* a build works with.                                                     *)
(*                                                                         *)
(* A directory name is a number, its place in the lexical order in which   *)
(* os.ReadDir lists names.  What the chooser reads off a name is given by  *)
(* constants: whether it ends in "-raspi", where its semantic version      *)
(* stands among the others (0 when go-version cannot parse it), and the    *)
(* name that Version.String() prints for it, which is another name         *)
(* whenever the directory is not written the canonical way ("6.10-rc1" is  *)
(* printed "6.10.0-rc1").                                                  *)
(***************************************************************************)
EXTENDS Naturals, FiniteSets

CONSTANTS Name,      \* the names an entry of /lib/modules can have
          Raspi,     \* the names that end in "-raspi"
          Semver,    \* place of a name in the version order, 0: no version
          Canon,     \* the name Version.String() gives to a parsed name
          NoKernel   \* an error: "no kernel versions found", or ReadDir's

ASSUME NameAssumption == /\ Name \subseteq Nat
                         /\ IsFiniteSet(Name)
                         /\ Raspi \subseteq Name
                         /\ NoKernel \notin Name

ASSUME VersionAssumption == /\ Semver \in [Name -> Nat]
                            /\ Canon \in [Name -> Name]

\* Canonical printing keeps the version and the pre-release suffix.
ASSUME CanonAssumption ==
    \A n \in Name : Semver[n] > 0 => /\ Semver[Canon[n]] = Semver[n]
                                     /\ Canon[n] \in Raspi <=> n \in Raspi

Parsed(S) == {n \in S : Semver[n] > 0}

\* Mutant: the versions are sorted the other way round.
Lowest(S) == {n \in S : \A m \in S : Semver[n] <= Semver[m]}

\* sort.Sort is not stable, so any of several names with the highest
\* version may come last.
Highest(S) == {n \in S : \A m \in S : Semver[m] <= Semver[n]}

LexicalFirst(S) == {n \in S : \A m \in S : n <= m}
LexicalLast(S)  == {n \in S : \A m \in S : m <= n}

\* Mutant: no fallback for raspi directories without a version.
RaspiParsedOnly(dirs) ==
    IF Parsed(dirs) # {} THEN {Canon[n] : n \in Highest(Parsed(dirs))} ELSE {NoKernel}

\* The raspi pass, which only directories take part in.
LatestRaspi(dirs) ==
    IF Parsed(dirs) # {} THEN {Canon[n] : n \in Highest(Parsed(dirs))}
                         ELSE LexicalLast(dirs)

\* Mutant: no fallback for entries without a version.
GeneralParsedOnly(dirs, files) ==
    IF Parsed(dirs) # {} THEN {Canon[n] : n \in Highest(Parsed(dirs))} ELSE {NoKernel}

\* The general pass.  Its fallback takes the first ENTRY, a directory or not.
LatestGeneral(dirs, files) ==
    IF Parsed(dirs) # {} THEN {Canon[n] : n \in Highest(Parsed(dirs))}
    ELSE IF dirs \union files # {} THEN LexicalFirst(dirs \union files)
    ELSE {NoKernel}

\* Mutant: the model is not looked at.
GetLatestAnyModel(dirs, files, rpi) == LatestGeneral(dirs, files)

(***************************************************************************)
(* GetLatestFromPath: the results a call may have when /lib/modules lists  *)
(* dirs and files; rpi says that the model is rpi3 or rpi4.  A directory   *)
(* that cannot be read, or is not there, is an error as an empty one is.   *)
(***************************************************************************)
GetLatest(dirs, files, rpi) ==
    IF rpi /\ dirs \intersect Raspi # {}
      THEN LatestRaspi(dirs \intersect Raspi)
      ELSE LatestGeneral(dirs, files)
=============================================================================
