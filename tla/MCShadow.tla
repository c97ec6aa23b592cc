------------------------------ MODULE MCShadow ------------------------------
(* A small instance of Shadow: two values, room for two requests at a time,   *)
(* and a queue that the three commands of the start fill.                     *)
EXTENDS Shadow

CONSTANTS v1, v2

MCValue == {v1, v2}
=============================================================================
