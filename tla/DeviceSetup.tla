----------------------------- MODULE DeviceSetup -----------------------------
(***************************************************************************)
(* The set-up life of the device over any number of restarts: BluFi at the *)
(* factory, fleet provisioning with AWS, the soft-AP web page, and the     *)
(* station mode in which the AWS task runs.  What survives a restart is in *)
(* flash (NVS, the Wi-Fi driver's configuration, the SSID list, the        *)
(* certificate files); everything else is RAM.  Power can fail between any *)
(* two writes to flash.  A firmware update is never pending here           *)
(* (ota.enable is false); OtaUpdate is the module about updates.           *)
(***************************************************************************)
EXTENDS Naturals, FiniteSets, BootPath

CONSTANTS
  Ssid,      \* names of networks
  Pwd,       \* non-empty passwords
  NoSsid,    \* the empty SSID
  NoPwd,     \* the empty password
  Router,    \* Router[s]: the password network s asks for (NoPwd: open)
  MaxIssue   \* bound on the certificates AWS issues to the device

ASSUME SetupAssumption ==
  /\ NoSsid \notin Ssid
  /\ NoPwd \notin Pwd
  /\ Router \in [Ssid -> Pwd \cup {NoPwd}]
  /\ MaxIssue \in Nat

-----------------------------------------------------------------------------
VARIABLES
  \* flash
  nvs,       \* members of nvs_data_t as stored: dev, provision_status, ...
  espCfg,    \* station configuration the Wi-Fi driver stores by itself
  saved,     \* networks in the list of wifi_ssid_manager
  cert,      \* issue number of the certificate file, 0 for none
  key,       \* issue number of the private-key file, 0 for none
  \* RAM
  ram,       \* g_nvs_setting_data
  run,       \* the way sys_boot came up, "off" between two boots
  radio,     \* what the station interface is doing
  link,      \* the network the station is associated with
  isConn,    \* m_wifi.is_connected
  stations,  \* station_cnt of the soft-AP
  sta,       \* sta_ssid and sta_password of the web server
  mgr,       \* m_mgr of sys_devcfg.c, whether a disconnection it has not
             \* heard of is on its way (drop), and whether the event task is
             \* between its two writes of a network (saving)
  awsInit,   \* g_sys_aws.initialized
  awsTasks,  \* calls of sys_aws_start in this boot (evt_queue exists if > 0)
  prov,      \* where the provisioning task is
  \* AWS
  issued,    \* certificates issued to this device so far
  active     \* certificates AWS has activated for the thing

flash == <<nvs, espCfg, saved, cert, key>>
wifi  == <<radio, link, isConn>>
web   == <<stations, sta>>
aws   == <<awsInit, awsTasks, prov>>
cloud == <<issued, active>>
vars  == <<flash, ram, run, wifi, web, mgr, aws, cloud>>

Net   == [ssid : Ssid \cup {NoSsid}, pwd : Pwd \cup {NoPwd}]
NoNet == [ssid |-> NoSsid, pwd |-> NoPwd]

\* The router lets the device in.
Works(n) == n.ssid \in Ssid /\ Router[n.ssid] = n.pwd

Settings == [dev              : QrFlag,
             provision_status : BOOLEAN,       \* AWS_PROVISION_DONE
             thing_name       : BOOLEAN,       \* non-empty
             wifi             : [net : Net, mode : WifiMode]]

Mgr   == [ble : BOOLEAN, connected : BOOLEAN, retry : BOOLEAN, drop : BOOLEAN,
          saving : BOOLEAN, net : Net]
NoMgr == [ble |-> FALSE, connected |-> FALSE, retry |-> TRUE, drop |-> FALSE,
          saving |-> FALSE, net |-> NoNet]

\* "associated" is told apart from "up", with an IP, in a BluFi boot only.
Radio == {"stopped", "starting", "idle", "connecting", "associated", "up"}

\* pc of m_sys_aws_provision_task and of the success callback it runs
ProvPc == {"idle", "request", "save_cert", "save_key", "register", "await",
           "store_status", "store_dev", "store_thing", "ended"}

TypeOK ==
  /\ nvs \in Settings
  /\ espCfg \in Net
  /\ saved \in SUBSET Net
  /\ cert \in 0..MaxIssue
  /\ key \in 0..MaxIssue
  /\ ram \in Settings
  /\ run \in Branch \cup {"off"}
  /\ radio \in Radio
  /\ link \in Net
  /\ isConn \in BOOLEAN
  /\ stations \in 0..1
  /\ sta \in Net
  /\ mgr \in Mgr
  /\ awsInit \in BOOLEAN
  /\ awsTasks \in Nat
  /\ prov \in ProvPc
  /\ issued \in 0..MaxIssue
  /\ active \in SUBSET (1..MaxIssue)

\* A device fresh from the flasher, its NVS holding sys_nvs_reset_data's
\* defaults.
Init ==
  /\ nvs = [dev |-> "NOT_SET", provision_status |-> FALSE, thing_name |-> FALSE,
            wifi |-> [net |-> NoNet, mode |-> "STA"]]
  /\ espCfg = NoNet
  /\ saved = {}
  /\ cert = 0 /\ key = 0
  /\ ram = nvs
  /\ run = "off"
  /\ radio = "stopped" /\ link = NoNet /\ isConn = FALSE
  /\ stations = 0 /\ sta = NoNet
  /\ mgr = NoMgr
  /\ awsInit = FALSE /\ awsTasks = 0 /\ prov = "idle"
  /\ issued = 0 /\ active = {}

-----------------------------------------------------------------------------
(* sys_boot.  In station mode it hands the stored credentials to the       *)
(* driver (sys_wifi_config_set), which stores them too.                    *)
HasCreds(w) == w.net.ssid # NoSsid /\ w.net.pwd # NoPwd

Boot ==
  /\ run = "off"
  /\ LET b == BootBranch(nvs.dev, nvs.wifi.mode, HasCreds(nvs.wifi),
                         espCfg.ssid # NoSsid)
     IN  /\ run' = b
         /\ nvs' = [nvs EXCEPT !.wifi.mode = ModeAfter(b, nvs.wifi.mode)]
         /\ ram' = nvs'
         /\ espCfg' = IF b = "station" THEN nvs.wifi.net ELSE espCfg
         /\ radio' = IF b = "softap" THEN "idle" ELSE "starting"
  /\ UNCHANGED <<saved, cert, key, link, isConn, web, mgr, aws, cloud>>

\* Everything in RAM is lost, and a certificate file that was being rewritten may
\* be left unlinked.
Reset ==
  /\ run' = "off"
  /\ radio' = "stopped" /\ link' = NoNet /\ isConn' = FALSE
  /\ stations' = 0 /\ sta' = NoNet
  /\ mgr' = NoMgr
  /\ awsInit' = FALSE /\ awsTasks' = 0 /\ prov' = "idle"
  /\ ram' = nvs'
  /\ cert' \in {cert} \cup (IF prov = "save_cert" THEN {0} ELSE {})
  /\ key' \in {key} \cup (IF prov = "save_key" THEN {0} ELSE {})
  /\ UNCHANGED <<espCfg, saved, cloud>>

\* esp_restart(), an abort and a power failure
Restart == UNCHANGED nvs /\ Reset

PowerLoss == run # "off" /\ Restart

-----------------------------------------------------------------------------
(* The station interface.                                                  *)

\* esp_wifi_set_config then esp_wifi_connect.  While a connection is being
\* made or is up the driver may refuse either, or drop what it has.
DriverConnect(n) ==
  \/ /\ espCfg' = n
     /\ radio' = "connecting"
     /\ link' = NoNet
  \/ /\ radio \in {"connecting", "associated", "up"}
     /\ espCfg' \in {espCfg, n}
     /\ UNCHANGED <<radio, link>>

\* sys_wifi_connect in a station boot: a network of the list that is in
\* range, or, when none is, whatever the driver has.
ConnectBest ==
  \E n \in saved \cup {espCfg} :
    /\ espCfg' = n
    /\ radio' = "connecting"
    /\ link' = NoNet

\* SYSTEM_EVENT_STA_START: sys_wifi_connect, or in a BluFi boot a plain
\* esp_wifi_connect.
StaStart ==
  /\ radio = "starting"
  /\ IF run = "blufi"
     THEN radio' = "connecting" /\ UNCHANGED <<espCfg, link>>
     ELSE ConnectBest
  /\ UNCHANGED <<nvs, saved, cert, key, ram, run, isConn, web, mgr, aws, cloud>>

\* The driver gets through to the router with the configuration it has.
Associate ==
  /\ radio = "connecting"
  /\ Works(espCfg)
  /\ radio' = "up"
  /\ link' = espCfg

\* Mutation: "initialized" is not looked at.
AwsInit_EveryTime ==
  /\ awsInit' = TRUE
  /\ awsTasks' = IF ram.provision_status THEN awsTasks + 1 ELSE awsTasks
  /\ prov' = IF ~awsInit /\ ~ram.provision_status /\ ram.dev = "SET"
             THEN "request" ELSE prov

\* Mutation: the QR code alone decides whether to provision.
AwsInit_ProvisionsAgain ==
  /\ awsInit' = TRUE
  /\ UNCHANGED awsTasks
  /\ prov' = IF ~awsInit /\ ram.dev = "SET" THEN "request" ELSE prov

\* sys_aws_init: once per boot.  A provisioned device starts the AWS task; one
\* that only has its QR code starts the provisioning task.
AwsInit ==
  /\ awsInit' = TRUE
  /\ awsTasks' = IF ~awsInit /\ ram.provision_status THEN awsTasks + 1
                                                     ELSE awsTasks
  /\ prov' = IF ~awsInit /\ ~ram.provision_status /\ ram.dev = "SET"
             THEN "request" ELSE prov

\* SYSTEM_EVENT_STA_GOT_IP in a station boot (m_sys_wifi_event_handler)
GotIp ==
  /\ run \in {"station", "factory"}
  /\ Associate
  /\ isConn' = TRUE
  /\ AwsInit
  /\ UNCHANGED <<flash, ram, run, web, mgr, cloud>>

\* SYSTEM_EVENT_STA_DISCONNECTED in a station boot: an attempt failed or the
\* link is lost; try again.
StaDisconnected ==
  /\ run \in {"station", "factory"}
  /\ radio \in {"connecting", "up"}
  /\ isConn' = FALSE
  /\ ConnectBest
  /\ UNCHANGED <<nvs, saved, cert, key, ram, run, web, mgr, aws, cloud>>

\* sys_run in SYS_STATE_READY publishes 50 s after boot.  With an event queue
\* that changes nothing here; without one xQueueSend's assertion aborts.
PublishWithoutQueue ==
  /\ run \in {"station", "factory"}
  /\ awsTasks = 0
  /\ Restart

-----------------------------------------------------------------------------
(* The soft-AP and its web server.                                         *)

StationJoins ==
  /\ run = "softap" /\ stations = 0
  /\ stations' = 1
  /\ UNCHANGED <<flash, ram, run, wifi, sta, mgr, aws, cloud>>

StationLeaves ==
  /\ run = "softap" /\ stations = 1
  /\ stations' = 0
  /\ UNCHANGED <<flash, ram, run, wifi, sta, mgr, aws, cloud>>

\* m_sys_wifi_softap_expired_callback; with a station joined it only re-arms
\* its timer.
SoftApExpired ==
  /\ run = "softap" /\ stations = 0
  /\ Restart

\* Mutation: RAM's credentials are left as they were.
WebConnect_NotInRam(n) ==
  /\ run = "softap" /\ stations = 1
  /\ sta' = n
  /\ DriverConnect(n)
  /\ UNCHANGED <<nvs, saved, cert, key, ram, run, isConn, stations, mgr, aws,
                 cloud>>

\* Operation "network_connect" of sys_http_server_handle_data: the new
\* credentials go to the driver and to RAM, not yet to NVS.
WebConnect(n) ==
  /\ run = "softap" /\ stations = 1
  /\ sta' = n
  /\ DriverConnect(n)
  /\ ram' = [ram EXCEPT !.wifi.net = n]
  /\ UNCHANGED <<nvs, saved, cert, key, run, isConn, stations, mgr, aws, cloud>>

\* WIFI_EVENT_STA_CONNECTED in m_wifi_softap_device_handler
ApStaConnected ==
  /\ run = "softap"
  /\ Associate
  /\ isConn' = TRUE
  /\ UNCHANGED <<flash, ram, run, web, mgr, aws, cloud>>

\* The attempt failed or the link is lost: the soft-AP's handler has no case
\* for WIFI_EVENT_STA_DISCONNECTED.
ApStaDisconnected ==
  /\ run = "softap"
  /\ radio \in {"connecting", "up"}
  /\ radio' = "idle" /\ link' = NoNet
  /\ UNCHANGED <<flash, ram, run, isConn, web, mgr, aws, cloud>>

\* wifi_ssid_manager_save: an SSID has one entry.
SaveSsid(n) == saved' = {m \in saved : m.ssid # n.ssid} \cup {n}

\* web_esp32_wifi_handler, the status page: "Check and save WiFi information",
\* which is a commit of RAM's credentials ...
StatusCommit ==
  /\ run = "softap" /\ stations = 1
  /\ isConn
  /\ nvs' = [nvs EXCEPT !.wifi = ram.wifi]

\* ... and the save of the web server's copy in the list, to which no other task
\* adds anything here ...
WebStatus ==
  /\ StatusCommit
  /\ SaveSsid(sta)
  /\ UNCHANGED <<espCfg, cert, key, ram, run, wifi, web, mgr, aws, cloud>>

\* ... but which power may fail before.
WebStatusCut == StatusCommit /\ Reset

\* Operation "reboot"
WebReboot ==
  /\ run = "softap" /\ stations = 1
  /\ Restart

-----------------------------------------------------------------------------
(* BluFi (sys_devcfg.c): the Bluetooth task handles the phone's messages,  *)
(* the event task the Wi-Fi events.                                        *)

BleConnect ==
  /\ run = "blufi" /\ ~mgr.ble
  /\ mgr' = [mgr EXCEPT !.ble = TRUE]
  /\ UNCHANGED <<flash, ram, run, wifi, web, aws, cloud>>

BleDisconnect ==
  /\ run = "blufi" /\ mgr.ble
  /\ mgr' = [mgr EXCEPT !.ble = FALSE]
  /\ UNCHANGED <<flash, ram, run, wifi, web, aws, cloud>>

\* esp_wifi_set_config with m_mgr's configuration, the driver possibly
\* refusing it while it is connecting.
PushConfig ==
  espCfg' \in {mgr'.net} \cup (IF radio = "connecting" THEN {espCfg} ELSE {})

\* ESP_BLUFI_EVENT_RECV_STA_SSID
RecvSsid(s) ==
  /\ run = "blufi" /\ mgr.ble
  /\ mgr' = [mgr EXCEPT !.retry = TRUE, !.net.ssid = s]
  /\ PushConfig
  /\ UNCHANGED <<nvs, saved, cert, key, ram, run, wifi, web, aws, cloud>>

\* ESP_BLUFI_EVENT_RECV_STA_PASSWD
RecvPasswd(p) ==
  /\ run = "blufi" /\ mgr.ble
  /\ mgr' = [mgr EXCEPT !.net.pwd = p]
  /\ PushConfig
  /\ UNCHANGED <<nvs, saved, cert, key, ram, run, wifi, web, aws, cloud>>

\* ESP_BLUFI_EVENT_RECV_STA_BSSID: the driver gets the SSID and the password
\* of the moment once more.
RecvBssid ==
  /\ run = "blufi" /\ mgr.ble
  /\ mgr' = mgr
  /\ PushConfig
  /\ UNCHANGED <<nvs, saved, cert, key, ram, run, wifi, web, aws, cloud>>

\* esp_wifi_disconnect: what it drops is reported to the event task later.
Drop(to) ==
  /\ radio \in {"idle", "connecting", "associated", "up"}
  /\ radio' = to
  /\ link' = NoNet
  /\ mgr' = [mgr EXCEPT !.drop = @ \/ radio # "idle"]

\* ESP_BLUFI_EVENT_REQ_CONNECT_TO_AP
ReqConnect ==
  /\ run = "blufi" /\ mgr.ble
  /\ Drop("connecting")
  /\ UNCHANGED <<flash, ram, run, isConn, web, aws, cloud>>

\* ESP_BLUFI_EVENT_REQ_DISCONNECT_FROM_AP
ReqDisconnect ==
  /\ run = "blufi" /\ mgr.ble
  /\ Drop("idle")
  /\ UNCHANGED <<flash, ram, run, isConn, web, aws, cloud>>

\* ESP_BLUFI_EVENT_RECV_CUSTOM_DATA: the QR code
RecvCustomData ==
  /\ run = "blufi" /\ mgr.ble
  /\ nvs.dev # "SET_SUCCESS"
  /\ nvs' = [nvs EXCEPT !.dev = "SET"]
  /\ ram' = [ram EXCEPT !.dev = "SET"]
  /\ UNCHANGED <<espCfg, saved, cert, key, run, wifi, web, mgr, aws, cloud>>

\* SYSTEM_EVENT_STA_CONNECTED in m_wifi_event_handler: the SSID is copied from
\* the event.
BluFiConnected ==
  /\ run = "blufi" /\ ~mgr.saving /\ ~mgr.drop
  /\ radio = "connecting" /\ Works(espCfg)
  /\ radio' = "associated" /\ link' = espCfg
  /\ mgr' = [mgr EXCEPT !.net.ssid = espCfg.ssid]
  /\ UNCHANGED <<flash, ram, run, isConn, web, aws, cloud>>

\* SYSTEM_EVENT_STA_GOT_IP in m_wifi_event_handler: with a phone the network is
\* committed ...
BluFiGotIp ==
  /\ run = "blufi" /\ ~mgr.saving
  /\ radio = "associated"
  /\ radio' = "up" /\ isConn' = TRUE
  /\ LET named == mgr.ble /\ mgr.net.ssid # NoSsid
     IN  /\ mgr' = [mgr EXCEPT !.connected = TRUE, !.saving = named]
         /\ ram' = IF named THEN [ram EXCEPT !.wifi.net = mgr.net] ELSE ram
         /\ nvs' = IF named THEN [nvs EXCEPT !.wifi = ram'.wifi] ELSE nvs
  /\ UNCHANGED <<espCfg, saved, cert, key, run, link, web, aws, cloud>>

\* ... and then saved in the list, as the Bluetooth task has left it meanwhile.
BluFiSave ==
  /\ run = "blufi" /\ mgr.saving
  /\ SaveSsid(mgr.net)
  /\ mgr' = [mgr EXCEPT !.saving = FALSE]
  /\ UNCHANGED <<nvs, espCfg, cert, key, ram, run, wifi, web, aws, cloud>>

\* SYSTEM_EVENT_STA_DISCONNECTED in m_wifi_event_handler: the SSID is wiped and
\* the best saved network is tried once.  The event reports an attempt that
\* failed, a link that was lost, or what Drop dropped (the driver may by then
\* be connecting again).
BluFiDisconnected ==
  /\ run = "blufi" /\ ~mgr.saving
  /\ \E reported \in (IF mgr.drop THEN {TRUE} ELSE {})
                    \cup (IF radio \in {"connecting", "associated", "up"}
                          THEN {FALSE} ELSE {}) :
       \/ \E n \in saved :
            /\ mgr.retry
            /\ mgr' = [mgr EXCEPT !.connected = FALSE, !.retry = FALSE,
                                  !.drop = @ /\ ~reported, !.net = n]
            /\ DriverConnect(n)
       \/ /\ mgr' = [mgr EXCEPT !.connected = FALSE, !.retry = FALSE,
                                !.drop = @ /\ ~reported, !.net.ssid = NoSsid]
          /\ IF reported THEN UNCHANGED <<radio, link>>
                         ELSE radio' = "idle" /\ link' = NoNet
          /\ UNCHANGED espCfg
  /\ UNCHANGED <<nvs, saved, cert, key, ram, run, isConn, web, aws, cloud>>

\* ESP_BLUFI_EVENT_RECV_SLAVE_DISCONNECT_BLE once Wi-Fi is connected
SlaveDisconnect ==
  /\ run = "blufi" /\ mgr.ble /\ mgr.connected
  /\ Restart

-----------------------------------------------------------------------------
(* Fleet provisioning (sys_aws_provision.c) and its success callback       *)
(* (m_sys_aws_provision_success_callback).                                 *)

ProvStep(from, to) == prov = from /\ prov' = to

Online == link # NoNet

\* AWS answers the certificate request.
CertIssued ==
  /\ ProvStep("request", "save_cert")
  /\ Online
  /\ issued < MaxIssue
  /\ issued' = issued + 1
  /\ UNCHANGED <<flash, ram, run, wifi, web, mgr, awsInit, awsTasks, active>>

SaveCert ==
  /\ ProvStep("save_cert", "save_key")
  /\ cert' = issued
  /\ UNCHANGED <<nvs, espCfg, saved, key, ram, run, wifi, web, mgr,
                 awsInit, awsTasks, cloud>>

SaveKey ==
  /\ ProvStep("save_key", "register")
  /\ key' = issued
  /\ UNCHANGED <<nvs, espCfg, saved, cert, ram, run, wifi, web, mgr,
                 awsInit, awsTasks, cloud>>

\* The registration request reaches AWS, which activates the certificate.
RegisterThing ==
  /\ ProvStep("register", "await")
  /\ Online
  /\ active' = active \cup {issued}
  /\ UNCHANGED <<flash, ram, run, wifi, web, mgr, awsInit, awsTasks, issued>>

\* The answer with the thing name: three settings change in RAM ...
Activated ==
  /\ ProvStep("await", "store_status")
  /\ Online
  /\ ram' = [ram EXCEPT !.provision_status = TRUE, !.dev = "SET_SUCCESS",
                        !.thing_name = TRUE]
  /\ UNCHANGED <<flash, run, wifi, web, mgr, awsInit, awsTasks, cloud>>

\* Mutation: the QR-code flag is the first commit.
StoreStatus_DevFirst ==
  /\ ProvStep("store_status", "store_dev")
  /\ nvs' = [nvs EXCEPT !.dev = ram.dev]
  /\ UNCHANGED <<espCfg, saved, cert, key, ram, run, wifi, web, mgr,
                 awsInit, awsTasks, cloud>>

\* ... and then in flash, one commit each, before the AWS task starts.
StoreStatus ==
  /\ ProvStep("store_status", "store_dev")
  /\ nvs' = [nvs EXCEPT !.provision_status = ram.provision_status]
  /\ UNCHANGED <<espCfg, saved, cert, key, ram, run, wifi, web, mgr,
                 awsInit, awsTasks, cloud>>

StoreDev ==
  /\ ProvStep("store_dev", "store_thing")
  /\ nvs' = [nvs EXCEPT !.dev = ram.dev]
  /\ UNCHANGED <<espCfg, saved, cert, key, ram, run, wifi, web, mgr,
                 awsInit, awsTasks, cloud>>

StoreThing ==
  /\ ProvStep("store_thing", "ended")
  /\ nvs' = [nvs EXCEPT !.thing_name = ram.thing_name]
  /\ awsTasks' = awsTasks + 1
  /\ UNCHANGED <<espCfg, saved, cert, key, ram, run, wifi, web, mgr,
                 awsInit, cloud>>

\* A rejected answer ends the task; a lost one leaves it yielding for ever.
\* Neither is retried before the next boot.
ProvisionFails ==
  /\ prov \in {"request", "register", "await"}
  /\ prov' = "ended"
  /\ UNCHANGED <<flash, ram, run, wifi, web, mgr, awsInit, awsTasks, cloud>>

-----------------------------------------------------------------------------
Station   == StaStart \/ GotIp \/ StaDisconnected \/ PublishWithoutQueue
SoftAp    == \/ StationJoins \/ StationLeaves \/ SoftApExpired
             \/ ApStaConnected \/ ApStaDisconnected
             \/ WebStatus \/ WebStatusCut \/ WebReboot
             \/ \E s \in Ssid, p \in Pwd \cup {NoPwd} :
                  WebConnect([ssid |-> s, pwd |-> p])
BluFi     == \/ BleConnect \/ BleDisconnect \/ RecvBssid \/ ReqConnect
             \/ ReqDisconnect \/ RecvCustomData
             \/ BluFiConnected \/ BluFiGotIp \/ BluFiSave
             \/ BluFiDisconnected \/ SlaveDisconnect
             \/ \E s \in Ssid : RecvSsid(s)
             \/ \E p \in Pwd \cup {NoPwd} : RecvPasswd(p)
Provision == \/ CertIssued \/ SaveCert \/ SaveKey \/ RegisterThing \/ Activated
             \/ StoreStatus \/ StoreDev \/ StoreThing \/ ProvisionFails

Next == Boot \/ PowerLoss \/ Station \/ SoftAp \/ BluFi \/ Provision

Spec == Init /\ [][Next]_vars

-----------------------------------------------------------------------------
(* Safety.                                                                 *)

\* What the three commits of the success callback leave in flash, whatever
\* power failure or abort cuts them short: a device recorded as provisioned
\* holds the two halves of one certificate, and AWS has activated it; the QR
\* code is marked done only after that; the thing name comes last.
ProvisionCommitted ==
  /\ nvs.provision_status => cert = key /\ cert \in active
  /\ nvs.dev = "SET_SUCCESS" => nvs.provision_status
  /\ nvs.thing_name => nvs.dev = "SET_SUCCESS"

\* The AWS task is started once, and with credentials AWS accepts.  Its start
\* has two callers, sys_aws_init on the event task and the success callback on
\* the provisioning task, and no guard of its own: a second call in one boot
\* would replace the event queue and run a second task on the same client.
OneAwsTask ==
  /\ awsTasks <= 1
  /\ awsTasks > 0 => nvs.provision_status /\ cert = key /\ cert \in active

\* The status page stores RAM's credentials in NVS and the web server's copy
\* in the SSID list; when it stores, both exist and agree.
StatusPageConsistent ==
  run = "softap" => /\ isConn => sta # NoNet
                    /\ sta # NoNet => ram.wifi.net = sta

\* Provisioning is final: no later boot runs it again, replaces a certificate
\* file or takes the QR code back.
ProvisioningIsFinal ==
  [][nvs.provision_status => /\ nvs'.provision_status
                             /\ cert' = cert /\ key' = key
                             /\ nvs.dev = "SET_SUCCESS" => nvs'.dev = nvs.dev]_vars

-----------------------------------------------------------------------------
(* Liveness.  The firmware's own steps are weakly fair.  The environment   *)
(* is asked for no more than this: phones leave the soft-AP, and a station *)
(* boot that can reach its router does so in the end.                      *)
Fairness ==
  /\ WF_vars(Boot)
  /\ WF_vars(StoreStatus \/ StoreDev \/ StoreThing)
  /\ WF_vars(StationLeaves)
  /\ SF_vars(SoftApExpired)
  /\ SF_vars(run = "station" /\ StaStart)
  /\ SF_vars(run = "station" /\ GotIp)

LiveSpec == Spec /\ Fairness

\* Everything stored is in order: provisioned, and every network the device
\* may pick lets it in.
InOrder ==
  /\ nvs.dev = "SET_SUCCESS"
  /\ HasCreds(nvs.wifi)
  /\ Works(nvs.wifi.net)
  /\ \A n \in saved : Works(n)

\* A device whose flash is in order comes up with its AWS task again and again,
\* through the soft-AP boot that follows every station boot, the aborts of the
\* READY loop and any power failures.
AwsComesUp == <>[]InOrder => []<>(awsTasks > 0)

-----------------------------------------------------------------------------
(* What comments of the code say and the code does not do.                 *)

\* sys_wifi.h:64 "Check that WiFi is connected or not": the status page asks
\* before it stores credentials as good ones.
StatusPageIsTrue == run = "softap" /\ isConn => link # NoNet
=============================================================================
