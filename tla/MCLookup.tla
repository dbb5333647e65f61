------------------------------ MODULE MCLookup ------------------------------
(***************************************************************************)
(* Small instances of Lookup for TLC: three of the four providers, one of  *)
(* which lacks an ISBN the others have, and an ISBN nobody has.            *)
(***************************************************************************)
EXTENDS Lookup, TLC

CONSTANTS i1, i2, i3

SharedCatalogue == <<{i1}, {i1, i2}, {i2}>>

Symmetry == Permutations(Resolvers)
=============================================================================
