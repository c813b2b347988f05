--------------------------- MODULE KernelListing ---------------------------
(***************************************************************************)
(* Every /lib/modules the chooser can be asked about: packages unpack      *)
(* module directories and remove them, stray files and links come and go.  *)
(* The properties speak of what a call made at that moment returns, for    *)
(* the model of the build and for "generic", the model that "kairos-init   *)
(* validate", a command without a --model flag, always has.                *)
(***************************************************************************)
EXTENDS KernelChooser

VARIABLES dirs,     \* the directories of /lib/modules
          files,    \* its other entries
          rpi       \* whether the image is built for rpi3 or rpi4

vars == <<dirs, files, rpi>>

Init == dirs = {} /\ files = {} /\ rpi \in BOOLEAN

AddDir(n)  == /\ n \notin dirs \union files
              /\ dirs' = dirs \union {n}
              /\ UNCHANGED <<files, rpi>>

AddFile(n) == /\ n \notin dirs \union files
              /\ files' = files \union {n}
              /\ UNCHANGED <<dirs, rpi>>

Remove(n)  == /\ n \in dirs \union files
              /\ dirs' = dirs \ {n} /\ files' = files \ {n}
              /\ UNCHANGED rpi

Next == \E n \in Name : AddDir(n) \/ AddFile(n) \/ Remove(n)

Spec == Init /\ [][Next]_vars

-----------------------------------------------------------------------------
Chosen == GetLatest(dirs, files, rpi)      \* getLatestKernel of the build

\* ValidateKernelWithPath, as Validate calls it: whether it can find no kernel.
ValidateFails == NoKernel \in GetLatest(dirs, files, FALSE)

\* GetLatestFromPath answers whenever there is a directory, never with the
\* error, whatever the names of the directories and of the stray entries among
\* them look like; and an empty listing gives nothing but the error.  What a
\* listing of stray entries alone gives is left open: its comment promises an
\* error, and the code answers with the first of them.
FailsOnlyWhenEmpty ==
    /\ dirs # {} => Chosen # {} /\ NoKernel \notin Chosen
    /\ dirs \union files = {} => Chosen = {NoKernel}

\* A Raspberry Pi image boots a raspi kernel whenever one is installed, no
\* matter how much newer the generic kernel is (kairos-io/kairos#4222).
PiBootsRaspi == rpi /\ dirs \intersect Raspi # {} => Chosen \subseteq Raspi

\* Other models, and Pi images with no raspi kernel, get the newest version
\* there is, and a directory without a version never wins over one with it.
NewestWins ==
    ~rpi \/ dirs \intersect Raspi = {}
      => \A k \in Chosen, n \in Parsed(dirs) : Semver[n] <= Semver[k]

\* The build and "kairos-init validate" agree on whether there is a kernel at
\* all, although validate does not know the model.
ValidateAgrees == ValidateFails <=> NoKernel \in Chosen
=============================================================================
