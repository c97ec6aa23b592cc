---------------------------- MODULE MCSsidManager ----------------------------
(***************************************************************************)
(* Four networks for a list of three; in station mode the routers of two   *)
(* of them are in range, or none.                                          *)
(***************************************************************************)
EXTENDS SsidManager

CONSTANTS n1, n2, n3, n4, pwd

FourNetworks == [ssid : {n1, n2, n3, n4}, pwd : {pwd}]
NoneOrTwo    == {{}, {n1, n2}}
=============================================================================
