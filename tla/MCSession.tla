----------------------------- MODULE MCSession -----------------------------
(***************************************************************************)
(* Session with two callers, a second of two ticks and an access timeout of *)
(* a second and a half.                                                     *)
(***************************************************************************)
EXTENDS Session, TLC

CONSTANTS p, q, n1, n2, u1, u2, u3

MCCallers == {p, q}

MCUsernames == {n1}

MCUids == {u1, u2, u3}

MCSymmetry == Permutations(MCUids) \cup Permutations(MCCallers)
=============================================================================
