---------------------------- MODULE MCDeviceSetup ----------------------------
(***************************************************************************)
(* Small instances of DeviceSetup for TLC.                                 *)
(***************************************************************************)
EXTENDS DeviceSetup

CONSTANTS s1, s2, p1

\* One protected network and one open one, so that every network can be named
\* with credentials that work and with credentials that do not.
MCRouter == [s \in Ssid |-> IF s = s1 THEN p1 ELSE NoPwd]
=============================================================================
