------------------------------ MODULE BootPath ------------------------------
(***************************************************************************)
(* What sys_boot (app/sys/sys.c) decides from the settings it finds in     *)
(* flash: which way the device comes up and which Wi-Fi mode it records    *)
(* for the boot after this one.  The modules that model a device over its  *)
(* restarts share these operators.                                         *)
(***************************************************************************)

\* dev.qr_code_flag (sys_devcfg.h)
QrFlag == {"NOT_SET", "SET", "SET_SUCCESS"}

\* sys_wifi_mode_t (sys_wifi.h)
WifiMode == {"STA", "AP"}

\* The four ways through sys_boot: the web page on a soft-AP, a station that
\* is provisioned, a station still at the factory, and BluFi.
Branch == {"softap", "station", "factory", "blufi"}

\* qr:         the QR-code flag loaded from NVS
\* mode:       the Wi-Fi mode the previous boot recorded
\* hasCreds:   both wifi.uiid and wifi.pwd are non-empty
\* configured: sys_wifi_is_configured(), the Wi-Fi driver's own stored SSID
BootBranch(qr, mode, hasCreds, configured) ==
  CASE qr = "SET_SUCCESS" /\ (mode = "STA" \/ ~hasCreds)  -> "softap"
    [] qr = "SET_SUCCESS" /\ ~(mode = "STA" \/ ~hasCreds) -> "station"
    [] qr # "SET_SUCCESS" /\ configured                   -> "factory"
    [] qr # "SET_SUCCESS" /\ ~configured                  -> "blufi"

\* Mutation: the soft-AP boot does not record that it ran.
ModeAfter_SoftApForgets(branch, mode) ==
  CASE branch \in {"softap", "blufi"} -> mode
    [] branch = "factory"             -> "AP"
    [] branch = "station"             -> "STA"

\* The mode each way through sys_boot stores; BluFi leaves it alone.
ModeAfter(branch, mode) ==
  CASE branch \in {"softap", "factory"} -> "AP"
    [] branch = "station"               -> "STA"
    [] branch = "blufi"                 -> mode
=============================================================================
