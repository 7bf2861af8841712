--------------------------- MODULE MCHiddenPoolV2 ---------------------------
(* HiddenPoolV2 for TLC: the .cfg gives the constants their values.  The      *)
(* properties are invariants and action properties, which do not tell one     *)
(* randomness from another.                                                   *)
EXTENDS HiddenPoolV2, TLC

RhoSymmetry == Permutations(Rhos)
=============================================================================
