--------------------------- MODULE MCSettingsStore ---------------------------
(***************************************************************************)
(* Three images, two of which have the same version of the settings.       *)
(***************************************************************************)
EXTENDS SettingsStore

CONSTANTS a, b, c

MCVersion == [m \in Image |-> IF m = c THEN 2 ELSE 1]
=============================================================================
