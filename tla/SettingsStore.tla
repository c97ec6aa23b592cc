---------------------------- MODULE SettingsStore ----------------------------
(***************************************************************************)
(* The settings in NVS (sys_nvs.c) from the power-on of a device: opening  *)
(* the store, the version check that erases it, the row of commits that    *)
(* fills it again, and the callers that store one setting at a time: BluFi *)
(* (sys_devcfg.c), provisioning, the tare command and the forms of the     *)
(* soft-AP's web page.  Every NVS operation may fail, power may fail       *)
(* between any two, and an update or its rollback may bring a firmware     *)
(* with another NVS_DATA_VERSION.                                          *)
(* Four of the nine settings are modelled; the others are kept in the same *)
(* way, by the same operations (DeviceSetup, OtaUpdate and ErrorRing say   *)
(* what they hold).                                                        *)
(***************************************************************************)
EXTENDS Naturals, Sequences

CONSTANTS
  Image,     \* firmware images
  Version    \* Version[i]: NVS_DATA_VERSION of image i

ASSUME StoreAssumption == Version \in [Image -> Nat \ {0}]

\* nvs_data_list, in its order
Table == <<"dev", "mac_device_addr", "soft_ap", "properties">>

Setting == {Table[i] : i \in 1..Len(Table)}

\* What a setting holds, as far as the code and the driver tell it apart: "zero"
\* is RAM never written; a soft-AP name or password may be too short for the
\* form or the name too long for the driver, and a QR code, set or with the
\* device provisioned, may be too long to be part of a name.
Value == {"zero", "default", "changed", "short", "long",
          "set", "set_long", "done", "done_long"}

\* qr_code_flag is FLAG_QRCODE_SET_SUCCESS
Provisioned == {"done", "done_long"}
LongCode    == {"set_long", "done_long"}

\* g_nvs_setting_data when main starts: qr_code_flag is FLAG_QRCODE_NOT_SET,
\* the strings are empty.
Zero == [k \in Setting |-> "zero"]

\* sys_nvs_reset_data: dev and mac_device_addr are left as they are.
ResetData(r) == [r EXCEPT !.soft_ap = "default", !.properties = "default"]

\* What a key of the store holds: a value, or the key is not there.
Absent == "absent"
NoData == [k \in Setting |-> Absent]

-----------------------------------------------------------------------------
VARIABLES
  flash,    \* the keys of Table in the NVS name space
  vers,     \* the key "VERS", 0 when it is not there
  image,    \* the image that runs
  ram,      \* g_nvs_setting_data
  pc,       \* where the boot is
  i,        \* index of sys_nvs_store_all
  open,     \* m_nvs_handle is that of an open store
  err,      \* bsp_error_add was called in this boot
  \* history
  suspect,  \* the version was misread, a write of an initialisation failed, or
            \* the image was exchanged over an incomplete store
  saved     \* what callers stored in boots without an error

boot == <<image, i, open>>
hist == <<suspect, saved>>
vars == <<flash, vers, image, ram, pc, i, open, err, hist>>

Pc == {"off", "open", "version", "erase", "store", "set_version", "load",
       "setup", "blufi", "station", "softap"}

TypeOK ==
  /\ flash \in [Setting -> Value \cup {Absent}]
  /\ vers \in {0} \cup {Version[m] : m \in Image}
  /\ image \in Image
  /\ ram \in [Setting -> Value]
  /\ pc \in Pc
  /\ i \in 1..Len(Table)
  /\ open \in BOOLEAN /\ err \in BOOLEAN /\ suspect \in BOOLEAN
  /\ saved \in [Setting -> Value \cup {Absent}]

\* A device that was only flashed
Init ==
  /\ flash = NoData /\ vers = 0
  /\ image \in Image
  /\ ram = Zero /\ pc = "off" /\ i = 1
  /\ open = FALSE /\ err = FALSE
  /\ suspect = FALSE /\ saved = NoData

Complete == \A k \in Setting : flash[k] # Absent

-----------------------------------------------------------------------------
(* Power and images.                                                       *)

PowerOn ==
  /\ pc = "off"
  /\ pc' = "open"
  /\ ram' = Zero /\ open' = FALSE /\ err' = FALSE /\ i' = 1
  /\ UNCHANGED <<flash, vers, image, hist>>

\* A power failure, esp_restart or an abort
PowerOff ==
  /\ pc' = "off"
  /\ ram' = Zero /\ open' = FALSE /\ err' = FALSE /\ i' = 1
  /\ UNCHANGED <<flash, vers, image, hist>>

PowerLoss == pc # "off" /\ PowerOff

\* An update, or the bootloader taking it back
Exchange(m) ==
  /\ pc = "off"
  /\ image' = m
  /\ suspect' = (suspect \/ ~Complete)
  /\ saved' = IF Version[m] = Version[image] THEN saved ELSE NoData
  /\ UNCHANGED <<flash, vers, ram, pc, i, open, err>>

-----------------------------------------------------------------------------
(* sys_nvs_init.                                                           *)

\* nvs_flash_init and nvs_open.  A partition that is truncated or of another
\* NVS format is erased whole.
OpenOk ==
  /\ pc = "open"
  /\ open' = TRUE
  /\ pc' = "version"
  /\ \/ UNCHANGED <<flash, vers, saved>>
     \/ flash' = NoData /\ vers' = 0 /\ saved' = NoData
  /\ UNCHANGED <<image, ram, i, err, suspect>>

\* "NVS storage init faild": the boot goes on with what RAM holds.
OpenFails ==
  /\ pc = "open"
  /\ err' = TRUE
  /\ pc' = "setup"
  /\ UNCHANGED <<flash, vers, boot, ram, hist>>

\* nvs_get_u32 into a variable without a value, the result unread: when the key
\* is not there, or the read fails, the variable may be anything.
ReadVersion ==
  /\ pc = "version"
  /\ \E same \in BOOLEAN :
       LET misread == same # (vers = Version[image])
       IN  /\ pc' = IF same THEN "load" ELSE "erase"
           /\ suspect' = (suspect \/ misread)
           /\ saved' = IF misread THEN NoData ELSE saved
  /\ UNCHANGED <<flash, vers, boot, ram, err>>

\* sys_nvs_factory_reset: one entry after the other, in no order that counts
Erase ==
  /\ pc = "erase"
  /\ \/ vers' = 0 /\ UNCHANGED flash
     \/ \E k \in Setting : flash' = [flash EXCEPT ![k] = Absent] /\ UNCHANGED vers
  /\ <<flash, vers>>' # <<flash, vers>>
  /\ UNCHANGED <<boot, ram, pc, err, hist>>

\* It ends, or fails on the way; the defaults follow in both cases.
EraseEnds ==
  /\ pc = "erase"
  /\ \/ flash = NoData /\ vers = 0 /\ UNCHANGED err
     \/ err' = TRUE
  /\ ram' = ResetData(ram)
  /\ pc' = "store" /\ i' = 1
  /\ UNCHANGED <<flash, vers, image, open, hist>>

\* Mutation: the version is committed with the first setting.
StoreAll_VersionFirst ==
  /\ pc = "store"
  /\ flash' = [flash EXCEPT ![Table[i]] = ram[Table[i]]]
  /\ vers' = Version[image]
  /\ IF i < Len(Table) THEN i' = i + 1 /\ UNCHANGED pc
                       ELSE pc' = "set_version" /\ UNCHANGED i
  /\ UNCHANGED <<image, open, ram, err, hist>>

\* sys_nvs_store_all: the next setting is set and committed ...
StoreAll ==
  /\ pc = "store"
  /\ flash' = [flash EXCEPT ![Table[i]] = ram[Table[i]]]
  /\ IF i < Len(Table) THEN i' = i + 1 /\ UNCHANGED pc
                       ELSE pc' = "set_version" /\ UNCHANGED i
  /\ UNCHANGED <<vers, image, open, ram, err, hist>>

\* ... or not, and the rest is left out.  A failed commit may have been made.
StoreAllFails ==
  /\ pc = "store"
  /\ flash' \in {flash, [flash EXCEPT ![Table[i]] = ram[Table[i]]]}
  /\ err' = TRUE /\ suspect' = TRUE
  /\ pc' = "set_version"
  /\ UNCHANGED <<vers, boot, ram, saved>>

\* Mutation: the version is set in RAM only.
SetVersion_NotCommitted ==
  /\ pc = "set_version"
  /\ pc' = "setup"
  /\ suspect' = (suspect /\ err)
  /\ UNCHANGED <<flash, vers, boot, ram, err, saved>>

\* The version is written, whatever became of the settings.
SetVersion ==
  /\ pc = "set_version"
  /\ vers' = Version[image]
  /\ pc' = "setup"
  /\ suspect' = (suspect /\ err)
  /\ UNCHANGED <<flash, boot, ram, err, saved>>

SetVersionFails ==
  /\ pc = "set_version"
  /\ vers' \in {vers, Version[image]}
  /\ err' = TRUE
  /\ pc' = "setup"
  /\ UNCHANGED <<flash, boot, ram, hist>>

\* Mutation: a setting that is not there is passed over.
LoadAll_Silent ==
  /\ pc = "load"
  /\ ram' = [k \in Setting |-> IF flash[k] = Absent THEN ram[k] ELSE flash[k]]
  /\ pc' = "setup"
  /\ UNCHANGED <<flash, vers, boot, err, hist>>

\* sys_nvs_load_all: each setting that cannot be read is an error and stays
\* what it was.
LoadAll ==
  /\ pc = "load"
  /\ \E failed \in SUBSET Setting :
       /\ \A k \in Setting : flash[k] = Absent => k \in failed
       /\ ram' = [k \in Setting |-> IF k \in failed THEN ram[k] ELSE flash[k]]
       /\ err' = (err \/ failed # {})
  /\ pc' = "setup"
  /\ UNCHANGED <<flash, vers, boot, hist>>

-----------------------------------------------------------------------------
(* SYS_NVS_STORE and SYS_NVS_LOAD.                                         *)

\* RAM gets the value and sys_nvs_store commits it; without an open store it
\* fails and nothing is written.
Store(k, v) ==
  /\ ram' = [ram EXCEPT ![k] = v]
  /\ \/ /\ open
        /\ flash' = [flash EXCEPT ![k] = v]
        /\ saved' = [saved EXCEPT ![k] = IF err \/ suspect THEN Absent ELSE v]
        /\ UNCHANGED err
     \/ /\ flash' \in {flash} \cup (IF open THEN {[flash EXCEPT ![k] = v]} ELSE {})
        /\ saved' = [saved EXCEPT ![k] = Absent]
        /\ err' = TRUE
  /\ UNCHANGED <<vers, boot, suspect>>

\* sys_nvs_load: what RAM holds afterwards, and whether it failed
Loaded(k) ==
  {[val |-> ram[k], failed |-> TRUE]} \cup
  (IF open /\ flash[k] # Absent THEN {[val |-> flash[k], failed |-> FALSE]} ELSE {})

-----------------------------------------------------------------------------
(* The branch of sys_boot and the callers.  Which of soft-AP and station   *)
(* mode a provisioned device takes is DeviceSetup's; it is open here.      *)

\* sys_devcfg_init: the MAC address is stored at every BluFi boot.
DevcfgInit ==
  /\ pc = "setup" /\ ram["dev"] \notin Provisioned
  /\ pc' = "blufi"
  /\ Store("mac_device_addr", "set")

\* A factory device whose driver is configured, or a provisioned one
StationBoot ==
  /\ pc = "setup"
  /\ pc' = "station"
  /\ UNCHANGED <<flash, vers, boot, ram, err, hist>>

\* What the driver accepts: a name of at most 32 bytes, for
\* WIFI_AUTH_WPA_WPA2_PSK with a password of at least 8.  Unless the form
\* changed it the name is printed from "LOX_SCALE" and the QR code; one of 32
\* bytes ends in the first byte of the password.
Accepted(r) == \/ r["soft_ap"] = "default" /\ r["dev"] \notin LongCode
               \/ r["soft_ap"] = "changed"

\* sys_wifi_softap_init: a configuration the driver refuses ends in
\* ESP_ERROR_CHECK.
SoftApInit ==
  /\ pc = "setup" /\ ram["dev"] \in Provisioned
  /\ IF Accepted(ram)
     THEN pc' = "softap" /\ UNCHANGED <<flash, vers, boot, ram, err, hist>>
     ELSE PowerOff

\* ESP_BLUFI_EVENT_INIT_FINISH
InitFinish ==
  /\ pc = "blufi"
  /\ \E l \in Loaded("dev") : /\ ram' = [ram EXCEPT !["dev"] = l.val]
                              /\ err' = (err \/ l.failed)
  /\ UNCHANGED <<flash, vers, boot, pc, hist>>

\* ESP_BLUFI_EVENT_RECV_CUSTOM_DATA, a QR code of any length: what flash holds
\* decides.
RecvCustomData ==
  /\ pc = "blufi"
  /\ \E l \in Loaded("dev") :
       IF l.val \in Provisioned
       THEN /\ ram' = [ram EXCEPT !["dev"] = l.val]
            /\ err' = (err \/ l.failed)
            /\ UNCHANGED <<flash, vers, boot, saved, suspect>>
       ELSE \E v \in {"set", "set_long"} : Store("dev", v)
  /\ UNCHANGED pc

\* m_sys_aws_provision_success_callback, as far as it concerns dev
ProvisionSuccess ==
  /\ pc = "station" /\ ram["dev"] \in {"set", "set_long"}
  /\ Store("dev", IF ram["dev"] \in LongCode THEN "done_long" ELSE "done")
  /\ UNCHANGED pc

\* m_shadow_scale_tare_callback
ScaleTare ==
  /\ pc = "station" /\ ram["dev"] \in Provisioned
  /\ Store("properties", "changed")
  /\ UNCHANGED pc

\* Mutation: the form is stored as it comes.
WebSystem_Unchecked(v) == Store("soft_ap", v)

\* Operation "system" of sys_http_server_handle_data: RAM takes the name and
\* the password, flash only if they are long enough.  How long they may be
\* nobody asks.
WebSystem(v) ==
  IF v # "short"
  THEN Store("soft_ap", v)
  ELSE /\ ram' = [ram EXCEPT !["soft_ap"] = v]
       /\ UNCHANGED <<flash, vers, boot, err, hist>>

\* Operation "properties_apply"
WebProperties == Store("properties", "changed")

\* web_button_config_handler: each part of the body is received at the start
\* of buf, over the one before.  What is left of a body in two parts is no JSON
\* text; json_scanf finds no operation, and strcmp reads through NULL.
WebBody ==
  /\ pc = "softap"
  /\ \/ /\ (\E v \in {"changed", "short", "long"} : WebSystem(v)) \/ WebProperties
        /\ UNCHANGED pc
     \/ PowerOff

-----------------------------------------------------------------------------
Next ==
  \/ PowerOn \/ PowerLoss \/ (\E m \in Image : Exchange(m))
  \/ OpenOk \/ OpenFails \/ ReadVersion \/ Erase \/ EraseEnds
  \/ StoreAll \/ StoreAllFails \/ SetVersion \/ SetVersionFails \/ LoadAll
  \/ DevcfgInit \/ StationBoot \/ SoftApInit \/ InitFinish \/ RecvCustomData
  \/ ProvisionSuccess \/ ScaleTare \/ WebBody

Spec == Init /\ [][Next]_vars

-----------------------------------------------------------------------------
(* Safety.                                                                 *)

\* The version is the commit record of the initialisation (sys_nvs_init writes
\* it last): wherever power failed, the version of the running image in flash
\* means that every setting is there.  It does not once a version was misread,
\* a write failed (sys_nvs_init goes on to the version all the same), or an
\* update was taken back half way through the erasure of the old settings.
VersionVouches == vers = Version[image] /\ ~suspect => Complete

\* What a caller stored in a boot without errors is what flash holds, over any
\* number of restarts, until the partition is erased or a firmware with another
\* version comes.
StoredStays == \A k \in Setting : saved[k] # Absent => flash[k] = saved[k]

\* sys_wifi.c:179, ESP_ERROR_CHECK: the driver accepts the soft-AP's
\* configuration, on a device whose QR code leaves room in the default name.  It
\* does not once the form has stored a name that is too long for it: every
\* soft-AP boot from then on aborts.
SoftApOpens == pc = "setup" /\ ~err /\ ram["dev"] = "done" => Accepted(ram)

\* A name or a password the form turned down is in RAM at once, but gone with
\* the restart: no later store, failed or not, has put it into flash for the
\* soft-AP of another boot.
TurnedDownIsGone ==
  pc = "setup" /\ ~err => ram["soft_ap"] \in {"default", "changed", "long"}

\* sys_nvs.h:124: a boot that records no error leaves sys_nvs_init with the
\* same settings in RAM and in NVS.
RamIsFlash == [][pc # "setup" /\ pc' = "setup" /\ ~err' => ram' = flash']_vars
=============================================================================
