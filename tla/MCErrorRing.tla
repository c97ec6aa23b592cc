----------------------------- MODULE MCErrorRing -----------------------------
(***************************************************************************)
(* A small instance of ErrorRing for TLC: three slots, two codes.          *)
(***************************************************************************)
EXTENDS ErrorRing

CONSTANTS e1, comm
=============================================================================
