-------------------------- MODULE MCKernelListing --------------------------
(***************************************************************************)
(* Six names in lexical order: 1 is "5.10" and 2 its canonical form        *)
(* "5.10.0"; 3 is a raspi kernel and 4 a newer generic one; 5 and 6 have   *)
(* no version go-version can parse, and 5 ends in -raspi.                  *)
(***************************************************************************)
EXTENDS KernelListing

MCName   == 1..6
MCRaspi  == {3, 5}
MCSemver == <<1, 1, 2, 3, 0, 0>>
MCCanon  == <<2, 2, 3, 4, 5, 6>>
=============================================================================
