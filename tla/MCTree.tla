------------------------------- MODULE MCTree -------------------------------
(***************************************************************************)
(* Tree on every list of data over three or four identifiers.              *)
(***************************************************************************)
EXTENDS Tree, TLC

CONSTANTS a, b, c, d

MCIds == {a, b, c, d}

MCSymmetry == Permutations(MCIds)
=============================================================================
