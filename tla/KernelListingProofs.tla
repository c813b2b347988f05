------------------------ MODULE KernelListingProofs ------------------------
(***************************************************************************)
(* What getLatestKernel answers, for every set of names a /lib/modules can *)
(* hold and every way go-version can order them.                           *)
(***************************************************************************)
EXTENDS KernelListing, FiniteSetTheorems, TLAPS

\* A listing only holds names.
Listing == dirs \subseteq Name /\ files \subseteq Name /\ rpi \in BOOLEAN

\* The directories and files the chooser sees are names it has constants for.
THEOREM ListingInvariant == Spec => []Listing
<1>1. Init => Listing
  BY DEF Init, Listing
<1>2. Listing /\ [Next]_vars => Listing'
  <2> SUFFICES ASSUME Listing, [Next]_vars PROVE Listing'
    OBVIOUS
  <2>1. ASSUME NEW n \in Name, AddDir(n) PROVE Listing'
    BY <2>1 DEF AddDir, Listing
  <2>2. ASSUME NEW n \in Name, AddFile(n) PROVE Listing'
    BY <2>2 DEF AddFile, Listing
  <2>3. ASSUME NEW n \in Name, Remove(n) PROVE Listing'
    BY <2>3 DEF Remove, Listing
  <2>4. CASE UNCHANGED vars
    BY <2>4 DEF vars, Listing
  <2> QED
    BY <2>1, <2>2, <2>3, <2>4 DEF Next
<1> QED
  BY <1>1, <1>2, PTL DEF Spec

-----------------------------------------------------------------------------
\* A finite, nonempty set whose members are ranked by numbers has one of the
\* highest rank: what the last place of a sorted slice stands for.
LEMMA FiniteMaximum ==
    ASSUME NEW S, IsFiniteSet(S), S # {}, NEW f, \A x \in S : f[x] \in Nat
    PROVE  \E x \in S : \A y \in S : f[y] <= f[x]
<1> DEFINE HasMaximum(T) == \E x \in T : \A y \in T : f[y] <= f[x]
           Without == {T \in SUBSET S : T # {} /\ ~HasMaximum(T)}
<1> SUFFICES ASSUME Without # {} PROVE FALSE
  BY Zenon
<1>1. IsWellFoundedOn(StrictSubsetOrdering(S), SUBSET S)
  BY FS_StrictSubsetOrderingWellFounded, FS_FiniteSubsetsOfFinite
<1>2. PICK T \in Without : \A U \in Without : <<U, T>> \notin StrictSubsetOrdering(S)
  <2>1. Without \subseteq SUBSET S
    OBVIOUS
  <2> HIDE DEF Without
  <2> QED
    BY <1>1, <2>1, WFMin
<1>3. PICK x \in T : TRUE
  BY <1>2
<1>4. PICK y \in T : f[y] > f[x]
  BY <1>2, <1>3
<1> DEFINE Rest == T \ {x}
<1>5. Rest \in SUBSET S /\ Rest # {} /\ Rest \subseteq T /\ Rest # T
  BY <1>2, <1>3, <1>4
<1>6. <<Rest, T>> \in StrictSubsetOrdering(S)
  BY <1>2, <1>5 DEF StrictSubsetOrdering
<1>7. PICK m \in Rest : \A z \in Rest : f[z] <= f[m]
  BY <1>2, <1>5, <1>6
<1>8. y \in Rest /\ T \subseteq S
  BY <1>2, <1>3, <1>4
<1>9. \A z \in T : f[z] <= f[m]
  <2> SUFFICES ASSUME NEW z \in T PROVE f[z] <= f[m]
    OBVIOUS
  <2>1. CASE z = x
    BY <2>1, <1>3, <1>4, <1>7, <1>8
  <2>2. CASE z # x
    BY <2>2, <1>7
  <2> QED
    BY <2>1, <2>2
<1> QED
  BY <1>2, <1>7, <1>9

\* So sort.Sort leaves some name last when it sorts the parsed names.
LEMMA HighestExists ==
    ASSUME NEW S, S \subseteq Name, S # {}
    PROVE  Highest(S) # {}
<1>1. IsFiniteSet(S)
  BY NameAssumption, FS_Subset
<1>2. \A n \in S : Semver[n] \in Nat
  BY VersionAssumption
<1>3. \E n \in S : \A m \in S : Semver[m] <= Semver[n]
  BY <1>1, <1>2, FiniteMaximum
<1> QED
  BY <1>3 DEF Highest

\* The fallbacks of the two passes find a name too.
LEMMA LexicalExists ==
    ASSUME NEW S, S \subseteq Name, S # {}
    PROVE  LexicalLast(S) # {} /\ LexicalFirst(S) # {}
<1>1. IsFiniteSet(S) /\ S \subseteq Nat
  BY NameAssumption, FS_Subset
<1>2. LexicalLast(S) # {}
  <2> DEFINE f == [n \in S |-> n]
  <2>1. \A n \in S : f[n] \in Nat
    BY <1>1
  <2>2. \E n \in S : \A m \in S : f[m] <= f[n]
    <3> HIDE DEF f
    <3> QED
      BY <1>1, <2>1, FiniteMaximum
  <2> QED
    BY <2>2 DEF LexicalLast
<1>3. LexicalFirst(S) # {}
  <2>1. PICK top \in S : \A n \in S : n <= top
    BY <1>2 DEF LexicalLast
  <2> DEFINE f == [n \in S |-> top - n]
  <2>2. \A n \in S : f[n] \in Nat
    BY <1>1, <2>1
  <2>3. \E n \in S : \A m \in S : f[m] <= f[n]
    <3> HIDE DEF f
    <3> QED
      BY <1>1, <2>2, FiniteMaximum
  <2> QED
    BY <1>1, <2>1, <2>3 DEF LexicalFirst
<1> QED
  BY <1>2, <1>3

-----------------------------------------------------------------------------
\* The name a version prints is a name, with its version and its suffix.
LEMMA CanonKeeps ==
    ASSUME NEW n \in Name, Semver[n] > 0
    PROVE  /\ Canon[n] \in Name /\ Canon[n] # NoKernel
           /\ Semver[Canon[n]] = Semver[n]
           /\ Canon[n] \in Raspi <=> n \in Raspi
BY NameAssumption, VersionAssumption, CanonAssumption

\* The raspi pass answers a raspi kernel, whatever directories it is given.
LEMMA RaspiPass ==
    ASSUME NEW S, S \subseteq Name, S \subseteq Raspi, S # {}
    PROVE  LatestRaspi(S) # {} /\ LatestRaspi(S) \subseteq Raspi
<1>1. CASE Parsed(S) # {}
  <2>1. Parsed(S) \subseteq Name /\ Highest(Parsed(S)) \subseteq Parsed(S)
    BY DEF Parsed, Highest
  <2>2. Highest(Parsed(S)) # {}
    BY <1>1, <2>1, HighestExists
  <2>3. \A n \in Highest(Parsed(S)) : Canon[n] \in Raspi
    BY <2>1, CanonKeeps DEF Parsed
  <2> QED
    BY <1>1, <2>2, <2>3 DEF LatestRaspi
<1>2. CASE Parsed(S) = {}
  BY <1>2, LexicalExists DEF LatestRaspi, LexicalLast
<1> QED
  BY <1>1, <1>2

\* The general pass answers a name of the newest version, some entry when no
\* directory has a version, and the error when there is no entry.
LEMMA GeneralPass ==
    ASSUME NEW D, NEW F, D \subseteq Name, F \subseteq Name
    PROVE  /\ LatestGeneral(D, F) # {}
           /\ \A k \in LatestGeneral(D, F) :
                 /\ k = NoKernel <=> D \union F = {}
                 /\ \A n \in Parsed(D) : Semver[n] <= Semver[k]
<1>1. CASE Parsed(D) # {}
  <2>1. Parsed(D) \subseteq Name /\ Highest(Parsed(D)) \subseteq Parsed(D)
    BY DEF Parsed, Highest
  <2>2. Highest(Parsed(D)) # {}
    BY <1>1, <2>1, HighestExists
  <2>3. ASSUME NEW h \in Highest(Parsed(D))
        PROVE  /\ Canon[h] # NoKernel
               /\ \A n \in Parsed(D) : Semver[n] <= Semver[Canon[h]]
    BY <2>1, CanonKeeps DEF Parsed, Highest
  <2>4. D \union F # {}
    BY <1>1 DEF Parsed
  <2> QED
    BY <1>1, <2>2, <2>3, <2>4 DEF LatestGeneral
<1>2. CASE Parsed(D) = {} /\ D \union F # {}
  BY <1>2, LexicalExists, NameAssumption DEF LatestGeneral, LexicalFirst
<1>3. CASE Parsed(D) = {} /\ D \union F = {}
  BY <1>3 DEF LatestGeneral
<1> QED
  BY <1>1, <1>2, <1>3

\* What a call may return in a listing, pass by pass.
LEMMA Passes ==
    ASSUME Listing
    PROVE  /\ rpi /\ dirs \intersect Raspi # {} =>
                 Chosen # {} /\ Chosen \subseteq Raspi
           /\ ~(rpi /\ dirs \intersect Raspi # {}) => Chosen = LatestGeneral(dirs, files)
BY RaspiPass DEF Listing, Chosen, GetLatest

-----------------------------------------------------------------------------
\* The chooser answers whenever there is a directory, and fails on an empty listing.
THEOREM FailsOnlyWhenEmptyHolds == Spec => []FailsOnlyWhenEmpty
<1>1. Listing => FailsOnlyWhenEmpty
  <2> SUFFICES ASSUME Listing PROVE FailsOnlyWhenEmpty
    OBVIOUS
  <2>1. CASE rpi /\ dirs \intersect Raspi # {}
    BY <2>1, Passes, NameAssumption DEF FailsOnlyWhenEmpty
  <2>2. CASE ~(rpi /\ dirs \intersect Raspi # {})
    BY <2>2, Passes, GeneralPass DEF FailsOnlyWhenEmpty, Listing
  <2> QED
    BY <2>1, <2>2
<1> QED
  BY <1>1, ListingInvariant, PTL

\* A Pi image with a raspi kernel boots one.
THEOREM PiBootsRaspiHolds == Spec => []PiBootsRaspi
<1>1. Listing => PiBootsRaspi
  BY Passes DEF PiBootsRaspi
<1> QED
  BY <1>1, ListingInvariant, PTL

\* Everything else boots the newest version.
THEOREM NewestWinsHolds == Spec => []NewestWins
<1>1. Listing => NewestWins
  <2> SUFFICES ASSUME Listing, ~rpi \/ dirs \intersect Raspi = {},
                      NEW k \in Chosen, NEW n \in Parsed(dirs)
               PROVE  Semver[n] <= Semver[k]
    BY DEF NewestWins
  <2> QED
    BY Passes, GeneralPass DEF Listing
<1> QED
  BY <1>1, ListingInvariant, PTL

\* Validation, which does not know the model, finds a kernel exactly when
\* the build does.
THEOREM ValidateAgreesHolds == Spec => []ValidateAgrees
<1>1. Listing => ValidateAgrees
  <2> SUFFICES ASSUME Listing PROVE ValidateAgrees
    OBVIOUS
  <2>1. GetLatest(dirs, files, FALSE) = LatestGeneral(dirs, files)
    BY DEF GetLatest
  <2> DEFINE G == LatestGeneral(dirs, files)
  <2>2. G # {} /\ \A k \in G : k = NoKernel <=> dirs \union files = {}
    BY GeneralPass DEF Listing
  <2>3. ValidateFails <=> dirs \union files = {}
    <3> HIDE DEF G
    <3>1. ValidateFails <=> NoKernel \in G
      BY <2>1 DEF ValidateFails, G
    <3> QED
      BY <2>2, <3>1
  <2>4. CASE rpi /\ dirs \intersect Raspi # {}
    BY <2>3, <2>4, Passes, NameAssumption DEF ValidateAgrees
  <2>5. CASE ~(rpi /\ dirs \intersect Raspi # {})
    BY <2>1, <2>5, Passes DEF ValidateAgrees, ValidateFails
  <2> QED
    BY <2>4, <2>5
<1> QED
  BY <1>1, ListingInvariant, PTL
=============================================================================
