-------------------------- MODULE DeviceSetupProofs --------------------------
(***************************************************************************)
(* What DeviceSetup promises for any set of networks and passwords, any    *)
(* routers and any number of certificates: its type invariant, what flash  *)
(* holds about provisioning, what the AWS task may rely on, and what the   *)
(* status page stores.                                                     *)
(***************************************************************************)
EXTENDS DeviceSetup, TLAPS

(* Type correctness.                                                       *)

LEMMA NetTypes ==
  /\ NoNet \in Net
  /\ NoMgr \in Mgr
  /\ \A s \in Ssid, p \in Pwd \cup {NoPwd} : [ssid |-> s, pwd |-> p] \in Net
BY DEF NoNet, Net, NoMgr, Mgr

LEMMA BootTypes ==
  ASSUME NEW qr \in QrFlag, NEW mode \in WifiMode,
         NEW creds \in BOOLEAN, NEW configured \in BOOLEAN
  PROVE  /\ BootBranch(qr, mode, creds, configured) \in Branch
         /\ ModeAfter(BootBranch(qr, mode, creds, configured), mode) \in WifiMode
BY DEF BootBranch, ModeAfter, Branch, WifiMode, QrFlag

LEMMA InitTypeOK == Init => TypeOK
<1> SUFFICES ASSUME Init PROVE TypeOK
  OBVIOUS
<1>1. nvs \in Settings
  BY NetTypes DEF Init, Settings, QrFlag, WifiMode
<1>2. cert \in 0..MaxIssue /\ key \in 0..MaxIssue /\ issued \in 0..MaxIssue
  BY SetupAssumption DEF Init
<1>3. ram \in Settings
  BY <1>1 DEF Init
<1>4. isConn \in BOOLEAN /\ awsInit \in BOOLEAN
  BY DEF Init
<1>5. saved \in SUBSET Net /\ active \in SUBSET (1..MaxIssue)
  BY DEF Init
<1>6. espCfg \in Net /\ link \in Net /\ sta \in Net /\ mgr \in Mgr
  BY NetTypes DEF Init
<1>7. /\ run \in Branch \cup {"off"}
      /\ radio \in Radio
      /\ stations \in 0..1 /\ awsTasks \in Nat /\ prov \in ProvPc
  BY DEF Init, ProvPc, Radio
<1> QED
  BY <1>1, <1>2, <1>3, <1>4, <1>5, <1>6, <1>7 DEF TypeOK

\* A restart, whatever NVS held when it came
LEMMA ResetTypeOK == TypeOK /\ nvs' \in Settings /\ Reset => TypeOK'
<1> SUFFICES ASSUME TypeOK, nvs' \in Settings, Reset PROVE TypeOK'
  OBVIOUS
<1>1. isConn' \in BOOLEAN /\ awsInit' \in BOOLEAN
  BY DEF Reset
<1>2. cert' \in 0..MaxIssue /\ key' \in 0..MaxIssue
  BY SetupAssumption DEF TypeOK, Reset
<1>3. /\ run' \in Branch \cup {"off"}
      /\ radio' \in Radio
      /\ stations' \in 0..1 /\ awsTasks' \in Nat /\ prov' \in ProvPc
  BY DEF Reset, ProvPc, Radio
<1>4. link' \in Net /\ sta' \in Net /\ mgr' \in Mgr
  BY NetTypes DEF Reset
<1> QED
  BY <1>1, <1>2, <1>3, <1>4 DEF TypeOK, Reset, cloud

LEMMA RestartTypeOK == TypeOK /\ Restart => TypeOK'
BY ResetTypeOK DEF Restart, TypeOK

LEMMA BootTypeOK == TypeOK /\ Boot => TypeOK'
<1> SUFFICES ASSUME TypeOK, Boot PROVE TypeOK'
  OBVIOUS
<1> DEFINE b == BootBranch(nvs.dev, nvs.wifi.mode, HasCreds(nvs.wifi),
                           espCfg.ssid # NoSsid)
<1>1. nvs.dev \in QrFlag /\ nvs.wifi.mode \in WifiMode /\ nvs.wifi.net \in Net
  BY DEF TypeOK, Settings
<1>2. HasCreds(nvs.wifi) \in BOOLEAN /\ (espCfg.ssid # NoSsid) \in BOOLEAN
  BY DEF HasCreds
<1>3. b \in Branch /\ ModeAfter(b, nvs.wifi.mode) \in WifiMode
  BY <1>1, <1>2, BootTypes
<1>4. run' = b /\ nvs' = [nvs EXCEPT !.wifi.mode = ModeAfter(b, nvs.wifi.mode)]
  BY DEF Boot
<1>5. nvs' \in Settings
  BY <1>1, <1>3, <1>4 DEF TypeOK, Settings
<1>6. espCfg' \in Net /\ radio' \in Radio
      /\ ram' = nvs'
  BY <1>1 DEF Boot, TypeOK, Radio
<1> HIDE DEF b
<1> QED
  BY <1>3, <1>4, <1>5, <1>6 DEF Boot, TypeOK, wifi, web, aws, cloud

\* A step of the provisioning task after AWS's answer has a certificate.
HasIssue == prov \in {"save_cert", "save_key", "register"} => issued > 0

LEMMA NextTypeOK == TypeOK /\ HasIssue /\ [Next]_vars => TypeOK'
<1> SUFFICES ASSUME TypeOK, HasIssue, [Next]_vars PROVE TypeOK'
  OBVIOUS
<1> USE DEF flash, wifi, web, aws, cloud, Radio
<1>1. CASE UNCHANGED vars
  BY <1>1 DEF TypeOK, vars
<1>2. CASE Boot
  BY <1>2, BootTypeOK
<1>3. CASE PowerLoss \/ PublishWithoutQueue \/ SoftApExpired \/ WebReboot \/ SlaveDisconnect
  BY <1>3, RestartTypeOK
  DEF PowerLoss, PublishWithoutQueue, SoftApExpired, WebReboot, SlaveDisconnect
<1>4. CASE StaStart
  BY <1>4 DEF StaStart, ConnectBest, TypeOK, Net, NoNet, Mgr, Settings, QrFlag, ProvPc
<1>5. CASE GotIp
  BY <1>5 DEF GotIp, Associate, AwsInit, TypeOK, Net, NoNet, Mgr, Settings, QrFlag, ProvPc
<1>6. CASE StaDisconnected
  <2>1. isConn' \in BOOLEAN
    BY <1>6 DEF StaDisconnected
  <2>2. espCfg' \in Net /\ link' \in Net /\ radio' = "connecting"
    BY <1>6, NetTypes DEF StaDisconnected, ConnectBest, TypeOK
  <2> QED
    BY <1>6, <2>1, <2>2 DEF StaDisconnected, TypeOK
<1>7. CASE StationJoins
  BY <1>7 DEF StationJoins, TypeOK, Net, NoNet, Mgr, Settings, QrFlag, ProvPc
<1>8. CASE StationLeaves
  BY <1>8 DEF StationLeaves, TypeOK, Net, NoNet, Mgr, Settings, QrFlag, ProvPc
<1>9. CASE ApStaConnected
  BY <1>9 DEF ApStaConnected, Associate, TypeOK, Net, NoNet, Mgr, Settings, QrFlag, ProvPc
<1>10. CASE ApStaDisconnected
  BY <1>10 DEF ApStaDisconnected, TypeOK, Net, NoNet, Mgr, Settings, QrFlag, ProvPc
<1>11. CASE WebStatus
  <2>1. nvs' \in Settings
    BY <1>11 DEF WebStatus, StatusCommit, TypeOK, Settings
  <2>2. saved' \in SUBSET Net
    BY <1>11 DEF WebStatus, SaveSsid, TypeOK
  <2> QED
    BY <1>11, <2>1, <2>2 DEF WebStatus, TypeOK
<1>12. CASE BleConnect
  <2>1. mgr' \in Mgr
    BY <1>12 DEF BleConnect, TypeOK, Mgr
  <2> QED
    BY <1>12, <2>1 DEF BleConnect, TypeOK
<1>13. CASE BleDisconnect
  <2>1. mgr' \in Mgr
    BY <1>13 DEF BleDisconnect, TypeOK, Mgr
  <2> QED
    BY <1>13, <2>1 DEF BleDisconnect, TypeOK
<1>14. CASE RecvBssid
  BY <1>14 DEF RecvBssid, PushConfig, TypeOK, Net, NoNet, Mgr, Settings, QrFlag, ProvPc
<1>15. CASE ReqConnect
  BY <1>15 DEF ReqConnect, Drop, TypeOK, Net, NoNet, Mgr, Settings, QrFlag, ProvPc
<1>16. CASE ReqDisconnect
  BY <1>16 DEF ReqDisconnect, Drop, TypeOK, Net, NoNet, Mgr, Settings, QrFlag, ProvPc
<1>17. CASE RecvCustomData
  BY <1>17 DEF RecvCustomData, TypeOK, Net, NoNet, Mgr, Settings, QrFlag, ProvPc
<1>18. CASE BluFiGotIp
  <2> DEFINE named == mgr.ble /\ mgr.net.ssid # NoSsid
  <2>1. isConn' \in BOOLEAN /\ radio' \in Radio
    BY <1>18 DEF BluFiGotIp, Radio
  <2>2. /\ mgr' = [mgr EXCEPT !.connected = TRUE, !.saving = named]
        /\ ram' = IF named THEN [ram EXCEPT !.wifi.net = mgr.net] ELSE ram
        /\ nvs' = IF named THEN [nvs EXCEPT !.wifi = ram'.wifi] ELSE nvs
    BY <1>18 DEF BluFiGotIp
  <2>3. named \in BOOLEAN
    BY DEF TypeOK, Mgr
  <2>4. mgr \in Mgr /\ mgr.net \in Net /\ ram \in Settings /\ nvs \in Settings
    BY DEF TypeOK, Mgr
  <2> HIDE DEF named
  <2>5. mgr' \in Mgr
    BY <2>2, <2>3, <2>4 DEF Mgr
  <2>6. ram' \in Settings
    BY <2>2, <2>4 DEF Settings
  <2>7. nvs' \in Settings
    BY <2>2, <2>4, <2>6 DEF Settings
  <2> QED
    BY <1>18, <2>1, <2>5, <2>6, <2>7 DEF BluFiGotIp, TypeOK
<1>19. CASE BluFiDisconnected
  <2>1. mgr.net \in Net /\ mgr.drop \in BOOLEAN /\ mgr.ble \in BOOLEAN
    BY DEF TypeOK, Mgr
  <2>2. mgr' \in Mgr
    <3>1. PICK r \in BOOLEAN :
            \/ \E n \in saved :
                  mgr' = [mgr EXCEPT !.connected = FALSE, !.retry = FALSE,
                                     !.drop = @ /\ ~r, !.net = n]
            \/ mgr' = [mgr EXCEPT !.connected = FALSE, !.retry = FALSE,
                                  !.drop = @ /\ ~r, !.net.ssid = NoSsid]
      BY <1>19 DEF BluFiDisconnected
    <3> DEFINE d == mgr.drop /\ ~r
    <3>2. d \in BOOLEAN
      OBVIOUS
    <3>3. mgr \in Mgr /\ [mgr.net EXCEPT !.ssid = NoSsid] \in Net
      BY DEF TypeOK, Mgr, Net
    <3>4. PICK n \in Net :
            mgr' = [mgr EXCEPT !.connected = FALSE, !.retry = FALSE,
                               !.drop = d, !.net = n]
      BY <3>1, <3>3 DEF TypeOK, Mgr
    <3> HIDE DEF d
    <3> QED
      BY <3>2, <3>3, <3>4 DEF Mgr
  <2>3. /\ espCfg' \in Net /\ link' \in Net
        /\ radio' \in Radio
    BY <1>19, NetTypes DEF BluFiDisconnected, DriverConnect, TypeOK
  <2> QED
    BY <1>19, <2>2, <2>3 DEF BluFiDisconnected, TypeOK
<1>20. CASE CertIssued
  <2>1. issued' \in 0..MaxIssue /\ prov' \in ProvPc
    BY <1>20, SetupAssumption DEF CertIssued, ProvStep, ProvPc, TypeOK
  <2> QED
    BY <1>20, <2>1 DEF CertIssued, TypeOK
<1>21. CASE SaveCert
  BY <1>21 DEF SaveCert, ProvStep, TypeOK, Net, NoNet, Mgr, Settings, QrFlag, ProvPc
<1>22. CASE SaveKey
  BY <1>22 DEF SaveKey, ProvStep, TypeOK, Net, NoNet, Mgr, Settings, QrFlag, ProvPc
<1>23. CASE RegisterThing
  BY <1>23 DEF RegisterThing, ProvStep, HasIssue, TypeOK, ProvPc
<1>24. CASE Activated
  <2>1. ram' \in Settings /\ prov' \in ProvPc
    BY <1>24 DEF Activated, ProvStep, ProvPc, Settings, QrFlag, TypeOK
  <2> QED
    BY <1>24, <2>1 DEF Activated, TypeOK
<1>25. CASE StoreStatus
  BY <1>25 DEF StoreStatus, ProvStep, TypeOK, Net, NoNet, Mgr, Settings, QrFlag, ProvPc
<1>26. CASE StoreDev
  BY <1>26 DEF StoreDev, ProvStep, TypeOK, Net, NoNet, Mgr, Settings, QrFlag, ProvPc
<1>27. CASE StoreThing
  BY <1>27 DEF StoreThing, ProvStep, TypeOK, Net, NoNet, Mgr, Settings, QrFlag, ProvPc
<1>28. CASE ProvisionFails
  BY <1>28 DEF ProvisionFails, TypeOK, Net, NoNet, Mgr, Settings, QrFlag, ProvPc
<1>29. ASSUME NEW c \in Net, WebConnect(c) PROVE TypeOK'
  BY <1>29 DEF WebConnect, DriverConnect, TypeOK, NoNet, Net, Settings
<1>30. ASSUME NEW s \in Ssid, RecvSsid(s) PROVE TypeOK'
  <2>1. mgr' \in Mgr /\ mgr'.net \in Net
    BY <1>30 DEF RecvSsid, TypeOK, Mgr, Net
  <2>2. espCfg' \in Net
    BY <1>30, <2>1 DEF RecvSsid, PushConfig, TypeOK
  <2> QED
    BY <1>30, <2>1, <2>2 DEF RecvSsid, TypeOK
<1>31. ASSUME NEW p \in Pwd \cup {NoPwd}, RecvPasswd(p) PROVE TypeOK'
  BY <1>31 DEF RecvPasswd, PushConfig, TypeOK, Net, Mgr
<1>32. CASE WebStatusCut
  <2>1. nvs' \in Settings
    BY <1>32 DEF WebStatusCut, StatusCommit, TypeOK, Settings
  <2> QED
    BY <1>32, <2>1, ResetTypeOK DEF WebStatusCut
<1>33. CASE BluFiConnected
  <2>1. mgr \in Mgr /\ espCfg \in Net
    BY DEF TypeOK
  <2>2. mgr' \in Mgr
    BY <1>33, <2>1 DEF BluFiConnected, Mgr, Net
  <2> QED
    BY <1>33, <2>1, <2>2 DEF BluFiConnected, TypeOK, Radio
<1>34. CASE BluFiSave
  <2>1. mgr' \in Mgr /\ mgr.net \in Net
    BY <1>34 DEF BluFiSave, TypeOK, Mgr
  <2>2. saved' \in SUBSET Net
    BY <1>34, <2>1 DEF BluFiSave, SaveSsid, TypeOK
  <2> QED
    BY <1>34, <2>1, <2>2 DEF BluFiSave, TypeOK
<1> QED
  BY <1>1, <1>2, <1>3, <1>4, <1>5, <1>6, <1>7, <1>8, <1>9, <1>10, <1>11, <1>12, <1>13, <1>14, <1>15, <1>16, <1>17, <1>18, <1>19, <1>20, <1>21, <1>22, <1>23, <1>24, <1>25, <1>26, <1>27, <1>28, <1>29, <1>30, <1>31, <1>32, <1>33, <1>34, NetTypes
  DEF Next, Station, SoftAp, BluFi, Provision

-----------------------------------------------------------------------------
(* Provisioning.  ProvInv is the strengthening that makes the safety       *)
(* properties inductive: what each step of the provisioning task may rely  *)
(* on, and how RAM and flash stand to each other meanwhile.                *)

ProvInv ==
  /\ HasIssue
  /\ prov # "idle" => awsInit /\ run \in {"station", "factory"}
  /\ nvs.provision_status => ram.provision_status
  /\ ram.provision_status => nvs.provision_status \/ prov = "store_status"
  /\ prov \in {"request", "save_cert", "save_key", "register", "await"} =>
       ~ram.provision_status
  /\ prov = "save_key" => cert = issued
  /\ prov = "register" => cert = issued /\ key = issued
  /\ prov \in {"await", "store_status", "store_dev", "store_thing"} =>
       cert = key /\ cert \in active
  /\ prov \in {"store_status", "store_dev"} => ram.dev = "SET_SUCCESS"
  /\ prov = "store_status" => ram.provision_status
  /\ prov \in {"store_dev", "store_thing"} => nvs.provision_status
  /\ prov = "store_thing" => nvs.dev = "SET_SUCCESS"
  /\ awsTasks > 0 => awsInit /\ prov \in {"idle", "ended"} /\ nvs.provision_status
  /\ awsTasks <= 1
  /\ ProvisionCommitted

\* What most steps leave alone
ProvFrame ==
  /\ UNCHANGED <<run, cert, key, awsInit, awsTasks, prov, issued, active>>
  /\ nvs'.provision_status = nvs.provision_status
  /\ nvs'.dev = nvs.dev
  /\ nvs'.thing_name = nvs.thing_name
  /\ ram'.provision_status = ram.provision_status
  /\ ram'.dev = ram.dev

LEMMA ProvFrameInv == ProvInv /\ ProvFrame => ProvInv'
BY DEF ProvInv, ProvFrame, HasIssue, ProvisionCommitted

LEMMA InitProvInv == Init => ProvInv
BY DEF Init, ProvInv, HasIssue, ProvisionCommitted

LEMMA ResetProvInv ==
  ASSUME ProvInv, Reset,
         nvs'.provision_status = nvs.provision_status, nvs'.dev = nvs.dev,
         nvs'.thing_name = nvs.thing_name
  PROVE  ProvInv'
BY DEF ProvInv, Reset, cloud, HasIssue, ProvisionCommitted

LEMMA RestartProvInv == ProvInv /\ Restart => ProvInv'
BY ResetProvInv DEF Restart

LEMMA NextProvInv == TypeOK /\ ProvInv /\ [Next]_vars => ProvInv'
<1> SUFFICES ASSUME TypeOK, ProvInv, [Next]_vars PROVE ProvInv'
  OBVIOUS
<1> USE DEF flash, wifi, web, aws, cloud
<1>0. nvs \in Settings /\ ram \in Settings /\ issued \in Nat /\ awsTasks \in Nat
  BY SetupAssumption DEF TypeOK
<1>1. CASE UNCHANGED vars
  BY <1>1 DEF ProvInv, HasIssue, ProvisionCommitted, vars
<1>2. CASE Boot
  <2>1. ram' = nvs' /\ nvs'.provision_status = nvs.provision_status
        /\ nvs'.dev = nvs.dev /\ nvs'.thing_name = nvs.thing_name
    BY <1>2, <1>0 DEF Boot, Settings
  <2> QED
    BY <1>2, <2>1 DEF Boot, ProvInv, HasIssue, ProvisionCommitted
<1>3. CASE PowerLoss \/ PublishWithoutQueue \/ SoftApExpired \/ WebReboot \/ SlaveDisconnect
  BY <1>3, RestartProvInv
  DEF PowerLoss, PublishWithoutQueue, SoftApExpired, WebReboot, SlaveDisconnect
<1>4. CASE StaStart
  BY <1>4, <1>0, ProvFrameInv DEF StaStart, ProvFrame, ConnectBest
<1>5. CASE StaDisconnected
  BY <1>5, <1>0, ProvFrameInv DEF StaDisconnected, ProvFrame, ConnectBest
<1>6. CASE StationJoins
  BY <1>6, <1>0, ProvFrameInv DEF StationJoins, ProvFrame
<1>7. CASE StationLeaves
  BY <1>7, <1>0, ProvFrameInv DEF StationLeaves, ProvFrame
<1>8. CASE ApStaConnected
  BY <1>8, <1>0, ProvFrameInv DEF ApStaConnected, ProvFrame
<1>9. CASE ApStaDisconnected
  BY <1>9, <1>0, ProvFrameInv DEF ApStaDisconnected, ProvFrame
<1>10. CASE WebStatus
  BY <1>10, <1>0, ProvFrameInv DEF WebStatus, StatusCommit, ProvFrame, Settings
<1>11. CASE BleConnect
  BY <1>11, <1>0, ProvFrameInv DEF BleConnect, ProvFrame
<1>12. CASE BleDisconnect
  BY <1>12, <1>0, ProvFrameInv DEF BleDisconnect, ProvFrame
<1>13. CASE RecvBssid
  BY <1>13, <1>0, ProvFrameInv DEF RecvBssid, ProvFrame
<1>14. CASE ReqConnect
  BY <1>14, <1>0, ProvFrameInv DEF ReqConnect, ProvFrame, Drop
<1>15. CASE ReqDisconnect
  BY <1>15, <1>0, ProvFrameInv DEF ReqDisconnect, ProvFrame, Drop
<1>16. CASE BluFiGotIp
  BY <1>16, <1>0, ProvFrameInv DEF BluFiGotIp, ProvFrame, Settings
<1>17. CASE BluFiDisconnected
  BY <1>17, <1>0, ProvFrameInv DEF BluFiDisconnected, ProvFrame
<1>18. ASSUME NEW c \in Net, WebConnect(c) PROVE ProvInv'
  BY <1>18, <1>0, ProvFrameInv DEF WebConnect, ProvFrame, Settings
<1>19. ASSUME NEW s \in Ssid, RecvSsid(s) PROVE ProvInv'
  BY <1>19, ProvFrameInv DEF RecvSsid, ProvFrame
<1>20. ASSUME NEW p \in Pwd \cup {NoPwd}, RecvPasswd(p) PROVE ProvInv'
  BY <1>20, ProvFrameInv DEF RecvPasswd, ProvFrame
<1>21. CASE GotIp
  BY <1>21, <1>0 DEF GotIp, AwsInit, ProvInv, HasIssue, ProvisionCommitted
<1>22. CASE RecvCustomData
  BY <1>22, <1>0 DEF RecvCustomData, Settings, ProvInv, HasIssue, ProvisionCommitted
<1>23. CASE CertIssued
  BY <1>23, <1>0 DEF CertIssued, ProvStep, Settings, ProvInv, HasIssue, ProvisionCommitted
<1>24. CASE SaveCert
  BY <1>24, <1>0 DEF SaveCert, ProvStep, Settings, ProvInv, HasIssue, ProvisionCommitted
<1>25. CASE SaveKey
  BY <1>25, <1>0 DEF SaveKey, ProvStep, Settings, ProvInv, HasIssue, ProvisionCommitted
<1>26. CASE RegisterThing
  BY <1>26, <1>0 DEF RegisterThing, ProvStep, Settings, ProvInv, HasIssue, ProvisionCommitted
<1>27. CASE Activated
  BY <1>27, <1>0 DEF Activated, ProvStep, Settings, ProvInv, HasIssue, ProvisionCommitted
<1>28. CASE StoreStatus
  BY <1>28, <1>0 DEF StoreStatus, ProvStep, Settings, ProvInv, HasIssue, ProvisionCommitted
<1>29. CASE StoreDev
  <2>1. /\ nvs'.provision_status = nvs.provision_status
        /\ nvs'.dev = "SET_SUCCESS"
        /\ nvs'.thing_name = nvs.thing_name
    BY <1>29, <1>0 DEF StoreDev, ProvStep, Settings, ProvInv
  <2>2. ram' = ram /\ prov = "store_dev" /\ prov' = "store_thing"
    BY <1>29 DEF StoreDev, ProvStep
  <2>3. UNCHANGED <<cert, key, run, awsInit, awsTasks, issued, active>>
    BY <1>29 DEF StoreDev
  <2>4. nvs.provision_status /\ ram.provision_status
    BY <2>2 DEF ProvInv
  <2>5. ProvisionCommitted'
    BY <2>1, <2>3, <2>4 DEF ProvInv, ProvisionCommitted
  <2> QED
    BY <2>1, <2>2, <2>3, <2>4, <2>5 DEF ProvInv, HasIssue
<1>30. CASE StoreThing
  BY <1>30, <1>0 DEF StoreThing, ProvStep, Settings, ProvInv, HasIssue, ProvisionCommitted
<1>31. CASE ProvisionFails
  BY <1>31 DEF ProvisionFails, ProvInv, HasIssue, ProvisionCommitted
<1>32. CASE WebStatusCut
  BY <1>32, <1>0, ResetProvInv DEF WebStatusCut, StatusCommit, Settings
<1>33. CASE BluFiConnected
  BY <1>33, ProvFrameInv DEF BluFiConnected, ProvFrame
<1>34. CASE BluFiSave
  BY <1>34, ProvFrameInv DEF BluFiSave, ProvFrame
<1> QED
  BY <1>1, <1>2, <1>3, <1>4, <1>5, <1>6, <1>7, <1>8, <1>9, <1>10, <1>11, <1>12, <1>13, <1>14, <1>15, <1>16, <1>17, <1>18, <1>19, <1>20, <1>21, <1>22, <1>23, <1>24, <1>25, <1>26, <1>27, <1>28, <1>29, <1>30, <1>31, <1>32, <1>33, <1>34, NetTypes
  DEF Next, Station, SoftAp, BluFi, Provision

-----------------------------------------------------------------------------
LEMMA Inductive == Spec => [](TypeOK /\ ProvInv)
<1>1. Init => TypeOK /\ ProvInv
  BY InitTypeOK, InitProvInv
<1>2. TypeOK /\ ProvInv /\ [Next]_vars => (TypeOK /\ ProvInv)'
  <2>1. ProvInv => HasIssue
    BY DEF ProvInv
  <2> QED
    BY <2>1, NextTypeOK, NextProvInv
<1> QED
  BY <1>1, <1>2, PTL DEF Spec

\* The state of the device is of the stated types (TypeOK) through any number
\* of boots, power failures and provisionings.
THEOREM TypeCorrect == Spec => []TypeOK
BY Inductive, PTL

\* sys_aws_provision.c and m_sys_aws_provision_success_callback leave flash in
\* the order ProvisionCommitted states, wherever they are cut short.
THEOREM CommitsInOrder == Spec => []ProvisionCommitted
<1>1. ProvInv => ProvisionCommitted
  BY DEF ProvInv
<1> QED
  BY <1>1, Inductive, PTL

\* No boot starts the AWS task twice, though the event task and the
\* provisioning task both may start it and sys_aws_start has no guard of its
\* own; and it runs only with the two halves of a certificate that AWS has
\* activated (OneAwsTask).
THEOREM AwsStartsOnce == Spec => []OneAwsTask
<1>1. ProvInv => OneAwsTask
  BY DEF ProvInv, ProvisionCommitted, OneAwsTask
<1> QED
  BY <1>1, Inductive, PTL

\* What ProvisioningIsFinal says of one step
Final == nvs.provision_status => /\ nvs'.provision_status
                                 /\ cert' = cert /\ key' = key
                                 /\ nvs.dev = "SET_SUCCESS" => nvs'.dev = nvs.dev

LEMMA NextFinal == TypeOK /\ ProvInv /\ [Next]_vars => Final
<1> SUFFICES ASSUME TypeOK, ProvInv, [Next]_vars, nvs.provision_status
             PROVE  Final
  BY DEF Final
<1> USE DEF flash, cloud, Final
<1>1. nvs \in Settings /\ ram \in Settings
  BY DEF TypeOK
<1>2. prov \notin {"request", "save_cert", "save_key", "register", "await"}
  BY DEF ProvInv
<1>3. CASE UNCHANGED vars
  BY <1>3 DEF vars
<1>4. CASE Boot
  BY <1>1, <1>4 DEF Boot, Settings
<1>5. CASE PowerLoss \/ PublishWithoutQueue \/ SoftApExpired \/ WebReboot \/ SlaveDisconnect
  BY <1>2, <1>5
  DEF PowerLoss, PublishWithoutQueue, SoftApExpired, WebReboot, SlaveDisconnect,
      Restart, Reset
<1>6. CASE WebStatus \/ WebStatusCut \/ BluFiGotIp
  BY <1>1, <1>2, <1>6 DEF WebStatus, WebStatusCut, StatusCommit, Reset, BluFiGotIp, Settings
<1>7. CASE RecvCustomData
  BY <1>1, <1>7 DEF RecvCustomData, Settings
<1>8. CASE Provision
  <2>1. prov \in {"store_status", "store_dev", "store_thing"}
    BY <1>2, <1>8 DEF Provision, ProvStep, CertIssued, SaveCert, SaveKey,
       RegisterThing, Activated, StoreStatus, StoreDev, StoreThing, ProvisionFails
  <2>2. CASE StoreStatus
    BY <2>2, <1>1 DEF StoreStatus, ProvStep, ProvInv, Settings
  <2>3. CASE StoreDev
    BY <2>3, <1>1 DEF StoreDev, ProvStep, ProvInv, Settings
  <2>4. CASE StoreThing
    BY <2>4, <1>1 DEF StoreThing, Settings
  <2> QED
    BY <1>8, <2>1, <2>2, <2>3, <2>4 DEF Provision, ProvStep, CertIssued, SaveCert,
       SaveKey, RegisterThing, Activated, ProvisionFails
<1>9. CASE \/ StaStart \/ GotIp \/ StaDisconnected
            \/ StationJoins \/ StationLeaves \/ ApStaConnected \/ ApStaDisconnected
            \/ BleConnect \/ BleDisconnect \/ RecvBssid \/ ReqConnect
            \/ ReqDisconnect \/ BluFiConnected \/ BluFiSave \/ BluFiDisconnected
  BY <1>9 DEF StaStart, GotIp, StaDisconnected, StationJoins, StationLeaves,
     ApStaConnected, ApStaDisconnected, BleConnect, BleDisconnect, RecvBssid,
     ReqConnect, ReqDisconnect, BluFiConnected, BluFiSave, BluFiDisconnected
<1>10. ASSUME NEW c \in Net, WebConnect(c) PROVE Final
  BY <1>10 DEF WebConnect
<1>11. ASSUME NEW s \in Ssid, RecvSsid(s) PROVE Final
  BY <1>11 DEF RecvSsid
<1>12. ASSUME NEW p \in Pwd \cup {NoPwd}, RecvPasswd(p) PROVE Final
  BY <1>12 DEF RecvPasswd
<1> QED
  BY <1>3, <1>4, <1>5, <1>6, <1>7, <1>8, <1>9, <1>10, <1>11, <1>12, NetTypes
  DEF Next, Station, SoftAp, BluFi

\* No later boot, restart or phone undoes a provisioning that is recorded in
\* flash (ProvisioningIsFinal).
THEOREM ProvisioningStays == Spec => ProvisioningIsFinal
<1>1. TypeOK /\ ProvInv /\ [Next]_vars => [Final]_vars
  BY NextFinal
<1> QED
  BY <1>1, Inductive, PTL DEF Spec, ProvisioningIsFinal, Final

-----------------------------------------------------------------------------
(* The status page of the soft-AP.                                        *)

\* In the soft-AP the station interface only ever tries what the page was given,
\* and what it was given last is what RAM holds; the handler that never clears
\* isConn does not matter for that.
PageInv ==
  /\ run = "off" => sta = NoNet /\ ~isConn
  /\ run = "softap" => /\ radio \in {"idle", "connecting", "up"}
                       /\ radio # "idle" => sta # NoNet
                       /\ StatusPageConsistent

LEMMA NextPageInv == TypeOK /\ PageInv /\ [Next]_vars => PageInv'
<1> SUFFICES ASSUME TypeOK, PageInv, [Next]_vars PROVE PageInv'
  OBVIOUS
<1> USE DEF flash, wifi, web, aws, cloud
<1>1. CASE UNCHANGED vars
  BY <1>1 DEF vars, PageInv, StatusPageConsistent
<1>2. CASE Boot
  <2>1. /\ sta' = NoNet /\ ~isConn'
        /\ run' = "softap" => radio' = "idle"
    BY <1>2 DEF Boot, PageInv
  <2>2. run' # "off"
    BY <1>2 DEF Boot, BootBranch
  <2> QED
    BY <2>1, <2>2 DEF PageInv, StatusPageConsistent
<1>3. CASE Reset
  BY <1>3 DEF Reset, PageInv
<1>4. CASE StationJoins \/ StationLeaves
  BY <1>4 DEF StationJoins, StationLeaves, PageInv, StatusPageConsistent
<1>5. CASE ApStaConnected
  BY <1>5 DEF ApStaConnected, Associate, PageInv, StatusPageConsistent
<1>6. CASE ApStaDisconnected
  BY <1>6 DEF ApStaDisconnected, PageInv, StatusPageConsistent
<1>7. CASE WebStatus
  BY <1>7 DEF WebStatus, StatusCommit, PageInv, StatusPageConsistent
<1>8. ASSUME NEW s \in Ssid, NEW p \in Pwd \cup {NoPwd},
             WebConnect([ssid |-> s, pwd |-> p])
      PROVE  PageInv'
  <2> DEFINE n == [ssid |-> s, pwd |-> p]
  <2>1. n # NoNet
    <3>1. n.ssid = s /\ NoNet.ssid = NoSsid
      BY DEF NoNet
    <3> QED
      BY <3>1, SetupAssumption
  <2>2. run = "softap" /\ run' = run /\ sta' = n /\ isConn' = isConn
    BY <1>8 DEF WebConnect
  <2>3. ram'.wifi.net = n
    BY <1>8 DEF WebConnect, TypeOK, Settings
  <2>4. radio' \in {"connecting", "up"}
    BY <1>8, <2>2 DEF WebConnect, DriverConnect, PageInv
  <2> HIDE DEF n
  <2> QED
    BY <2>1, <2>2, <2>3, <2>4 DEF PageInv, StatusPageConsistent
<1>9. CASE Provision
  <2>1. UNCHANGED <<run, radio, isConn, sta>>
    BY <1>9 DEF Provision, CertIssued, SaveCert, SaveKey, RegisterThing,
       Activated, StoreStatus, StoreDev, StoreThing, ProvisionFails
  <2>2. ram' = ram \/ Activated
    BY <1>9 DEF Provision, CertIssued, SaveCert, SaveKey, RegisterThing,
       StoreStatus, StoreDev, StoreThing, ProvisionFails
  <2>3. ram'.wifi = ram.wifi
    BY <2>2 DEF Activated, TypeOK, Settings
  <2> QED
    BY <2>1, <2>3 DEF PageInv, StatusPageConsistent
<1>10. CASE StaStart
  BY <1>10 DEF StaStart, PageInv
<1>11. CASE GotIp \/ StaDisconnected
  BY <1>11 DEF GotIp, StaDisconnected, PageInv
<1>12. CASE BluFi
  <2>1. run = "blufi"
    BY <1>12 DEF BluFi, BleConnect, BleDisconnect, RecvSsid, RecvPasswd, RecvBssid,
       ReqConnect, ReqDisconnect, RecvCustomData, BluFiConnected, BluFiGotIp,
       BluFiSave, BluFiDisconnected, SlaveDisconnect
  <2>2. CASE SlaveDisconnect
    BY <1>3, <2>2 DEF SlaveDisconnect, Restart
  <2>3. CASE \/ BleConnect \/ BleDisconnect \/ RecvBssid \/ RecvCustomData
             \/ BluFiConnected \/ BluFiGotIp \/ BluFiSave
    BY <2>1, <2>3 DEF BleConnect, BleDisconnect, RecvBssid, RecvCustomData,
       BluFiConnected, BluFiGotIp, BluFiSave, PageInv
  <2>4. CASE ReqConnect \/ ReqDisconnect \/ BluFiDisconnected
    BY <2>1, <2>4 DEF ReqConnect, ReqDisconnect, BluFiDisconnected, PageInv
  <2>5. ASSUME NEW s \in Ssid, RecvSsid(s) PROVE PageInv'
    BY <2>1, <2>5 DEF RecvSsid, PageInv
  <2>6. ASSUME NEW p \in Pwd \cup {NoPwd}, RecvPasswd(p) PROVE PageInv'
    BY <2>1, <2>6 DEF RecvPasswd, PageInv
  <2> QED
    BY <1>12, <2>2, <2>3, <2>4, <2>5, <2>6 DEF BluFi
<1> QED
  BY <1>1, <1>2, <1>3, <1>4, <1>5, <1>6, <1>7, <1>8, <1>9, <1>10, <1>11, <1>12
  DEF Next, Station, SoftAp, PowerLoss, PublishWithoutQueue, SoftApExpired, WebReboot,
      WebStatusCut, Restart

\* When web_esp32_wifi_handler stores credentials, RAM and the web server's copy
\* both hold a network, and the same (StatusPageConsistent).
THEOREM StatusPageAgrees == Spec => []StatusPageConsistent
<1>1. Init => PageInv
  BY DEF Init, PageInv
<1>2. PageInv => StatusPageConsistent
  BY DEF PageInv, StatusPageConsistent
<1> QED
  BY <1>1, <1>2, TypeCorrect, NextPageInv, PTL DEF Spec
=============================================================================
