---------------------------- MODULE MCConnection ----------------------------
(***************************************************************************)
(* Connection with two users, so that openings may overlap.                *)
(***************************************************************************)
EXTENDS Connection

CONSTANTS u1, u2

MCUsers == {u1, u2}
=============================================================================
