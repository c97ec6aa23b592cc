# TLA+ verification of the TOM ESP32 AWS firmware

The firmware (`src/app`) runs on an ESP32: a phone gives it Wi-Fi credentials
and a QR code over BluFi at the factory, it provisions itself with AWS IoT, and
from then on alternates between a soft-AP web page and a station mode in which
an AWS task publishes data, answers shadows and jobs, and installs firmware
updates. Most of its hard behaviour is spread over *restarts*: almost every
operation ends in `esp_restart()`, what survives is committed to flash one key
at a time, and power can fail between any two commits.

Paths below are relative to `src/app/`.

## 1. Inventory

| Component | State | Operations | Interacts with | What is hard |
|---|---|---|---|---|
| Boot and main loop, `sys/sys.c` | `g_device.sys_state` | `sys_boot`, `sys_run` | every component | decides from flash only; READY publishes whether or not the AWS task exists |
| Settings, `sys/sys_nvs.c` | `g_nvs_setting_data` in RAM, one NVS key per member, the version | open, check the version, erase, load, store one key, store all, factory reset | everybody, without locks | commits are separate; the version is read into a variable without a value; a failing store adds an error, which is stored |
| Wi-Fi, `sys/sys_wifi.c` | `m_wifi`, `station_cnt`, the driver's own stored configuration | event handlers of station and soft-AP mode, soft-AP timer, connect | AWS start, SSID manager, web server | stale `is_connected`; event order; the driver stores configurations itself |
| BluFi, `sys/sys_devcfg.c` | `m_mgr`, `m_first_time_wifi_reconnect` | BluFi messages (Bluetooth task), Wi-Fi events (event task) | driver, settings, SSID manager | two tasks, no locks; an event may report an older attempt |
| Web server, `sys/sys_http_server.c` | `sta_ssid`, `sta_password`, `m_wifi.is_connected` | `network_connect`, status page, `reboot`, `system`, `properties_apply`, scan | settings, driver, SSID manager | stores RAM's credentials when it believes Wi-Fi is up |
| Provisioning, `sys/sys_aws_provision.c` | two certificate files, a task | request, save, register, activate | AWS, success callback in `sys_aws.c` | crash between any two steps; a lost or rejected answer |
| AWS task, `sys/sys_aws.c`, `sys_aws_mqtt.c`, `sys_aws_shadow.c`, `sys_aws_job.h` | `g_sys_aws` (initialized, client, queue, shared `service` record) | init/start, service queue, error codes, shadow and job callbacks | main task, event task, AWS | one shared record filled by two tasks; QoS 0; two places start the task |
| Update, `sys/sys_ota.c` | NVS `ota`, OTA partitions | `sys_ota_setup`, `sys_ota_start` | jobs callback, boot, bootloader | outcome crosses two restarts; four attempts; rollback |
| Error ring, `components/bsp/bsp_error.c` | `bsp_error.nvs` | add, remove, read, sync | settings, shadow callback | recursion with the store; wrap; late answers |
| SSID manager, `components/lib_adf/wifi_ssid_manager.c` | `MANAGER_CONF` and `KEY<i>` records in NVS | create, save, best and latest configuration, erase | dispatcher, Wi-Fi, BluFi, web server | many commits per call; LRU counters; chosen flags |
| Dispatcher, `components/lib_adf/esp_dispatcher.c`, `nvs_action.c` | request queue (3), result queue (1), mutex | execute, execute_async, with_func, destroy | SSID manager | queue full, mutex locked twice, result meant for another caller |
| Timers and time, `bsp_timer.c`, `sys_time.c` | timers, NTP state | one-shot and periodic timers | Wi-Fi, update | timers created again and again |
| Buttons, `components/one_button` | state per button | tick, callbacks | nobody in this firmware | - |
| Protocol, `components/protocol` | none | build and parse packets | AWS task, shadow | - |
| BluFi security, `components/blufi_security` | one session's keys | negotiate, encrypt | BluFi | - |
| MQTT client of the AWS IoT SDK | client state, handler slots, reconnect timer, TLS context, the two buffers | connect, subscribe, unsubscribe, publish, yield, disconnect, reconnect | AWS task, provisioning | message handlers run inside any call and call the client; answers are not matched with requests; reading may stop anywhere |
| Shadow library of the SDK | records of waiting requests, subscribed topics, the token counter | get, update, register delta, yield | `sys_aws_shadow.c` | answers that are late or lost; subscriptions made while messages are handled |
| Jobs library of the SDK | none | subscribe, query, start next, describe, update | `sys_aws_job.h` | requests printed into a buffer by fragments; topics that differ in a level |
| Other third party: frozen, jsmn, TLS | - | - | all of the above | - |

Correctness of each part, in a sentence:

* **Set-up** (boot, BluFi, web server, provisioning): whatever sequence of
  phones, events, restarts and power failures, flash never claims more than was
  done; a device that finished stays finished; and a device whose flash is in
  order comes up again and again.
* **Update**: the device always has an image to boot; what it reports about an
  update is true; a recorded update is attempted and ends.
* **Error ring**: indices and counts stay in range, no recursion without end, the
  newest codes are sent, in order, and only sent codes are dropped (they are not:
  section 4).
* **SSID manager**: the last networks saved are the ones kept.
* **AWS service queue, dispatcher**: what one task asked for is what is executed,
  once, and its result reaches the one that asked.
* **Settings**: the version in flash vouches for the settings beside it; what was
  stored stays; RAM and flash agree after a boot without errors.
* **MQTT client**: it can always be used again, whatever a handler did in the
  middle of a call; accepted topics keep their handlers; every packet that fits is
  read whole and in its turn (under the conditions of section 4).
* **Shadow and jobs**: every request is ended once, by its own answer or by
  time; a request that is published says what was asked; device and shadow agree
  in the end.

## 2. Modules

```
BootPath ------+--> DeviceSetup --> MCDeviceSetup      SettingsStore --> MCSettingsStore
 (operators)   |        \--> DeviceSetupProofs               \--> StorageProofs
               +--> OtaUpdate ----> OtaUpdateProofs    NvsCalls <== Dispatcher --> MCDispatcher
ErrorRing --> MCErrorRing                                            \--> StorageProofs
     \--> ShadowProofs                   AwsTask --> AwsTaskProofs
ShadowRequests <== Shadow --> MCShadow
                      \--> ShadowProofs             (<== is implemented by)
SsidList <== SsidManager --> MCSsidManager
                  \--> SsidManagerProofs
JobTopics --> JobsApi --> MCJobs          MqttClient --> MCMqttClient
 (operators)     \--> JobsApiProofs            \--> MqttProofs
MqttCodec --> MqttWire --> MCMqttWire
 (operators) \--> MqttProofs
```

### BootPath

Operators shared by the two modules that model a device over its restarts:
`BootBranch` is the decision of `sys_boot` (which of soft-AP, station, factory
and BluFi), `ModeAfter` the Wi-Fi mode each branch records for the next boot.

### DeviceSetup

The set-up life of the device. Variables come in two groups: flash (`nvs`, the
driver's `espCfg`, the SSID list `saved`, the files `cert` and `key`) survives
`Restart`; everything else is RAM. Settings are abstracted to the members the
code decides on; a network is a pair of model values; a certificate is the number
under which AWS issued it, so that "the two files belong together" can be said.

| Code | Model |
|---|---|
| `sys_boot` | `Boot` |
| `esp_restart`, abort, power failure (also while a certificate file is unlinked) | `Restart`, `PowerLoss` |
| `m_sys_wifi_event_handler` | `StaStart`, `GotIp`, `StaDisconnected` |
| `sys_aws_init`, `sys_aws_start` | `AwsInit` |
| `sys_run` publishing without a queue | `PublishWithoutQueue` |
| `m_wifi_softap_device_handler`, soft-AP timer | `ApStaConnected`, `StationJoins`, `StationLeaves`, `SoftApExpired` |
| `sys_http_server_handle_data` | `WebConnect`, `WebReboot` |
| `web_esp32_wifi_handler`: its commit, the save in the list, and power failing between them | `StatusCommit`, `WebStatus`, `WebStatusCut` |
| `m_blufi_event_callback` | `BleConnect` ... `SlaveDisconnect` |
| `m_wifi_event_handler` of BluFi: STA_CONNECTED; GOT_IP up to its commit; the save in the list; STA_DISCONNECTED | `BluFiConnected`, `BluFiGotIp`, `BluFiSave`, `BluFiDisconnected` |
| provisioning task and its callback | `CertIssued`, `SaveCert`, `SaveKey`, `RegisterThing`, `Activated` |
| success callback, one action per commit | `StoreStatus`, `StoreDev`, `StoreThing` |

The router, the driver's association and the power supply are external. While a
connection is being made the driver may refuse a new configuration, and a
disconnection may be reported after the next attempt has begun (`mgr.drop`). Between
the commit and the save of BluFi's event handler (`mgr.saving`) the Bluetooth task
may change the network, and the event task handles no other event.
The two starts of the AWS task, from the event task and from the provisioning
task, may come in either order between the commits of the success callback.

### OtaUpdate

Updates ordered by AWS jobs. `ota.status/enable/url` in flash and RAM, the two
OTA slots (`img`, `alt`) and the bootloader's record (`slot`), the main task
(`run`), the AWS task (`task`), the jobs AWS holds and messages under way with
QoS 0, which may be lost with the connection. The job callback is split where it
leaves the device (`JobMessage`: its report to AWS) and where it commits
(`JobStore`), so power can fail between; a job without a document is told that it
failed, one that is no update is passed over (`JobWithoutUpdate`). `sys_ota_start` is `OtaWait`,
`OtaCheck`, `TryOk`/`TryFail` and `OtaDone`. The bootloader with and without
rollback is `Bootloader`; `esp_https_ota` refusing to run in an unconfirmed image
is `MayUpdate`. A provisioned device with good credentials is assumed (what
DeviceSetup calls `InOrder`), so `sys_boot` alternates as `BootPath` says.

### ErrorRing

`bsp_error.c` call by call, with the chain `bsp_error_add` -> `bsp_error_sync`
-> `sys_nvs_store` -> `bsp_error_add` as `nest`, the read cursor, the updates
under way and their answers.

| Code | Model |
|---|---|
| `bsp_error_add` and its saving | `Add`, `SyncOk`, `SyncFails` |
| `sys_nvs_init`: open, load the settings ahead of the ring, load the ring, start over | `Boot`, `OpenFails`, `LoadFails`, `LoadRing`, `LoadRingFails`, `FactoryReset` |
| `bsp_error_init` | `ErrorInit` (in `LoadRing`, `BlankBoot`) |
| `sys_aws_send_error_code` | `ReadStart`, `SendOne`, `SendDone` |
| `m_shadow_update_status_callback`, `bsp_error_remove` | `UpdateAccepted`, `NotAccepted` |
| restart, power | `Restart` |

Each update yields to the MQTT client for 200 ms, so answers come between two codes
of the loop as well as after it (`Answered`). The ring is the last setting to be
loaded: an error before that goes into the blank ring of RAM, and is saved over the
stored one. Reading `code[-1]` at index 0 is undefined: both outcomes are possible.
Three history fields of the ring record (`removed`, `log`, `lost`) say whether a code
was removed, which codes were recorded, and whether the ring was started over
while flash held codes, for the properties. Calls do not interleave inside one
another (the tasks that make them do not lock; their overlap is a hazard that is
not modelled).

### SsidList and SsidManager

`SsidList` is what the manager promises: a set of at most `Max` networks, one of
each name, in which a save is one step. `SsidManager` is the code: records
`KEY<i>`, `exsit_ssid_num`, and a save as a row of commits with power failure
between any two; `IsAList` says that the records a reader sees implement the
list.

| Code | Model |
|---|---|
| `wifi_ssid_manager_create` and the boot around it | `Boot` |
| `wifi_ssid_manager_save`: choice of the record | `SaveBegin` |
| `nvs_get_write_id`, one turn per step | `Scan` |
| `nvs_wifi_info_save`, the first commit | `SaveInfo` |
| `nvs_set_counter`, one commit per record | `SetCounter` |
| `nvs_ssid_list_conf_save` and the flags | `SaveConf` |
| `wifi_ssid_manager_get_best_config` | `Candidates`, `Choose` |
| `sys_wifi_connect` in station mode, BluFi's fallback | `Connect`, `Fallback` |
| GOT_IP, STA_DISCONNECTED | `Associate`, `Disconnect` |
| power supply, routers | `PowerLoss`, `RangeChanges` |

A reset of the `choosen` flags is one step: what a power failure leaves of it,
`Boot` does again. The number of records is the `WIFI_MAX_STATION_NUM` of the
first boot. The eviction scan keeps a counter of type `int` in a `uint8_t`, which
is `% Wrap`; the history `wrapped` says that a scan has met one that does not fit.
`erase_all`, `destroy`, `get_latest_config` and `get_ssid_num` are
not called by the firmware. DeviceSetup uses the list as the set `saved`, which
is what `SsidList` describes.  How a commit may fail, and not only be cut off, is
SettingsStore's subject.

### AwsTask

One station boot from the start of the AWS task. It has the higher priority, so
it may run between any two steps of the main loop, whose
`sys_aws_mqtt_send_noti` is therefore three steps: its half of the shared record
(`FillNoti`), the type (`FillType`) and the copy into the queue (`SendNoti`).

| Code | Model |
|---|---|
| `m_sys_aws_connect`, subscriptions, `sys_aws_shadow_init`, error codes, jobs | `Connect`, `Subscribe`, `ShadowInit`, `ErrorsSent`, `JobsInit` |
| the loop of `m_sys_aws_task` | `YieldEnds`, `Serve`, `ServeNothing`, `Check` |
| `sys_aws_mqtt_publish`, `sys_aws_shadow_update`, `sys_aws_shadow_get` | `Publish`, `ShadowUpdate`, `ShadowGet` |
| `sys_aws_shadow_trigger_command` from the shadow callbacks | `TareReceived`, `Trigger` |
| disconnect handler, and what the SDK writes after it | `LossNoticed` |
| the SDK's reconnection of a pending client | `PendingConnects` |
| `sys_aws_reconnect_manual` after the event | `Check` |
| event task: address acquired, link lost | `GotIp`, `StaDisconnected` |
| the network and AWS | `SessionBreaks` |

The client's state is what its callers tell apart: `init`, `connected`, `error`,
`pending`; `broken` says that a client that believes itself connected is not. The
quality of service of a publication is uninitialised in the code: the task may
or may not wait for an answer (`Sends`). A notification is the number of its
sending. What shadows, jobs and error codes contain is the subject of Shadow,
JobsApi and ErrorRing, and what the client does inside a call that of MqttClient.

### SettingsStore

The settings in NVS over boots, power failures, failing operations and images
with other versions. Four of the nine settings are in the model: the QR code's
data, the MAC address, the soft-AP's name and password, and the properties; the
others are kept in the same way and DeviceSetup, OtaUpdate and ErrorRing say what
they hold. A value is what the code tells apart: RAM never written (`"zero"`),
the default, changed, a soft-AP name or password that the form turns down as too
short (`"short"`) or that is too long for the driver (`"long"`), and a QR code that
leaves room in the default name or does not (`LongCode`).

| Code | Model |
|---|---|
| `sys_nvs_init`: open, read the version, erase | `OpenOk`, `OpenFails`, `ReadVersion`, `Erase`, `EraseEnds` |
| `sys_nvs_store_all`, one commit per step; the version | `StoreAll`, `StoreAllFails`, `SetVersion`, `SetVersionFails` |
| `sys_nvs_load_all`, `sys_nvs_load`, `sys_nvs_store` | `LoadAll`, `Loaded`, `Store` |
| BluFi's start, data and end | `DevcfgInit`, `RecvCustomData`, `InitFinish` |
| station and soft-AP boot, provisioning, tare command | `StationBoot`, `SoftApInit`, `ProvisionSuccess`, `ScaleTare` |
| web forms and the receiving of their body | `WebSystem`, `WebProperties`, `WebBody` |
| update and rollback, power | `Exchange`, `PowerOn`, `PowerLoss` |

`nvs_ver` has no value when its read fails, and the result of the read is
ignored, so `ReadVersion` may then find the versions equal or different. The row
of commits stops at the first failure and the version is written all the same.
Two history variables, `suspect` and `saved`, say when the version is not to be
trusted (it was misread, a write failed, the image was exchanged over an
incomplete store) and what callers stored; no action reads them.

### NvsCalls and Dispatcher

`NvsCalls` is what callers rely on: a call has its effect on the store once,
between its beginning and its answer, one task's calls in order, and its own
answer comes back; a refused call has none. `Dispatcher` is the code:
two bounded queues, the mutex, the task, the four ways of calling (by index or
with a function, waiting or not), registration and destruction. The functions it
runs are the ones the SSID manager gives it (`nvs_action.c`).

The firmware itself uses only the waiting call with a function, through the SSID
manager, so its queue never fills. The model has the rest of the interface:
among it the path that locks the mutex a second time when the queue stays full
(`esp_dispatcher.c:259`), after which nobody returns (`Jammed`). Assumed of
callers: an asynchronous call has a callback, and nobody is in a call when the
dispatcher is destroyed. Left out: while it is destroyed the loop that frees the list
of functions reads the link of an item it has just freed (`esp_dispatcher.c:356`).

### MqttClient

The client's thread as a stack of calls (`calls`, innermost first): waiting for an
answer reads whatever comes, so a message handler may run inside any call, and may
itself publish, unsubscribe or disconnect. The broker and the session belong to
the model; a session breaks at any time.

| Code | Model |
|---|---|
| `aws_iot_mqtt_connect`, `_disconnect` | `Connect`, `Disconnect` |
| `_subscribe`, `_unsubscribe`, `_publish` and their answers | `Subscribe`, `SubscribeAnswered`, ..., `RequestFails` |
| `deliver_message`, `handle_publish` | `HandlePublish`, `CallHandler`, `HandlersDone` |
| `aws_iot_mqtt_yield`, keep-alive, disconnect handler | `Yield`, `YieldEnds`, `KeepAlive`, `HandleDisconnect`, `LostHandler`, `LostReturns` |
| `aws_iot_mqtt_attempt_reconnect`, `_resubscribe` | `AttemptReconnect`, `HandleReconnect`, `ResubscribeAnswered` |

Slots are chosen before the answer is waited for and filled after it, as in
the code. A topic's name may lie in the receive buffer, which the next packet read
overwrites (`Stale`). The granted quality of service is never looked at, and an
answer is taken for the one waited for by its type alone. Automatic reconnection
is on in the provisioning client (`sys_aws_provision.c:190`) and off in the AWS
task's, so both are checked; without it every reconnection of the disconnect
handler sets up one more TLS context than is freed, which `MaxContexts` bounds. The
PUBACK after a handler is in MqttWire.

### MqttCodec and MqttWire

`MqttCodec` has the bytes of the packets, as operators, and the packets there are: words
are of 16 bits, lengths of four digits, a publication has an identifier if it is
acknowledged (`Publications`, `FromBroker`, `FromClient`). `MqttWire` has the reading and
writing of them over TLS records: the header byte, the length byte by byte, the
body, each of which may run out of time (`ReadShort`, `ReadTorn`), packets too long
for the buffer (`DropPacket`), the packet left over from another session
(`NewSession`), and what `aws_iot_mqtt_internal_send_packet` writes (`Transmit`).
A record of the network ends anywhere up to `MaxSplit` bytes behind the length of a
packet; the history `split` says that one has ended inside a rest. `DropPacket`
reads a whole buffer at least, as the code does: of a packet that is too long by less
than that, it takes the next one along, or waits for it in vain. The histories
`written` and `read` are the packets of the session; `Fitting(k)` of the first `k` written
fit the buffer, and the packet read as the i-th has to be the i-th of those
(`EachInTurn`). `Whole` says of a session that no record has ended inside a rest and
that each packet that does not fit is too long by its rest alone (`Drained`).

### ShadowRequests and Shadow

`ShadowRequests` is the promise of the shadow library: a request taken is ended
once, by an answer of its own kind or by its time-out. `Shadow` is the tare value
from the application that writes it to the device that takes it over and reports it.

| Code | Model |
|---|---|
| `sys_aws_shadow.c` callbacks | `GetCallback`, `TareCallback`, `DeltaCallback`, `Callback` |
| the start: delta, GET, two updates | `Start`, `RegisterDelta` |
| the request's record, topics and subscriptions | `Serve`, `SubscribeAccepted`, `SubscribeRejected`, `PublishRequest` |
| `AckStatusCallback`, `unsubscribeFromAcceptedAndRejected` | `AckStatusCallback`, `Unsubscribed`, `Ended` |
| `HandleExpiredResponseCallbacks` | `Expire`, `ExpireDone` |
| documents (`aws_iot_shadow_json.c`) | `InitJsonDocument`, `AddReported`, `Finalize`, ... |
| AWS and the network | `AwsUpdates`, `AwsGets`, `AwsRejects`, `SessionBreaks`, `Reconnects`, `Restarts` |

The firmware always subscribes persistently, so the unsubscribing after an answer
and the deletion of a shadow are left out; `shadowDiscardOldDeltaFlag` is false, so
versions of deltas are not compared. Requests that ran out of time are noticed
at the next request only, since the AWS task yields to the MQTT client and not to the
shadow library. Values fit the 16 bits of the packet. A failing clean-up leaves a
handler that points to a slot's topic after the slot was freed; the answer is then
handled twice, the second time without effect.

### JobTopics and JobsApi

`JobTopics` has the topics of jobs as sequences of levels and the comparison with
a subscription's filter. `JobsApi` has the requests, printed into the caller's buffer
fragment by fragment (of a fragment the model keeps what it says and how long it
is), the subscriptions of `sys_aws_job.h` beside any other one, and the answers
of AWS. The service answers on the request's topic with `accepted` or `rejected`
(external). Topics are values here; the SDK keeps pointers to them, which for the
firmware's four are buffers on the stack of `sys_aws_jobs_init` (`sys_aws_job.h:82-85`).
That function is always inlined into the AWS task, which never returns, so they keep
what they hold. A buffer of NULL comes with size 0. The firmware's topics always fit
(the longest has 146 characters); ids that make a topic too long are the
library's generality.


## 3. Runs

| Run | Instance | Shows |
|---|---|---|
| `setup` | two networks, one protected and one open; one password; two certificates | flash is right after any cut; one AWS task with an accepted certificate; provisioning is final; a device in order comes up again and again |
| `ota` | two jobs, two messages under way, rollback on | success means installed; always bootable; a recorded update stays and is attempted, and its attempts end |
| `ota_reported` | one job, one message | violated: a job ends as succeeded while the old image runs |
| `ring` | three slots, two codes | the count covers the answers; saves nest three calls; until one is removed the newest codes are sent in order, all of them unless a failed load started the ring over |
| `ssid` | three records, four names, scans that hold counters to 3 and counters to 4 when a save begins, one power failure in a save | implements `SsidList`; while no scan has met a counter it does not hold: the oldest gives way, the last saved survives a failure; each known network gets its turn |
| `aws` | a queue of three, two notifications | order, service and reconnection |
| `store` | three images, two with one version | the version vouches for the settings, what was stored stays, RAM is flash, what the form turned down is gone with the restart |
| `dispatcher` | two tasks, a queue of one, three calls | implements `NvsCalls`; every call returns unless the mutex was locked twice; nothing is pending at the end |
| `mqtt` | two topics, two slots, two packets each way, one message in delivery | no call is stuck, one TLS context, accepted topics have handlers and are subscribed again |
| `wire` | buffers of 140 and 130 bytes, packets at and beyond their limits, two a session, records that end at most a byte inside a rest | no buffer is overrun; what fits is read whole, in order, once, in the sessions that are `Whole` |
| `shadow` | two waiting requests, six topics, a queue of three, two writes, one break | implements `ShadowRequests`; who waits is listened for; device and shadow agree |
| `jobs` | two jobs, every type of request, buffers around the documents' length | whole requests or none; every message calls the right handlers |

Type invariants are conjuncts of what the runs of MqttClient, MqttWire, Shadow,
Dispatcher and JobsApi check, and theorems of every module (section 5; those of Shadow,
Dispatcher and MqttWire are part of `RecordsHold`, `QueuesHold` and `BuffersHold`).
`BuffersHold`, `QueuesHold`, `RecordsHold`, `ReadWhole`, `NoCallStuck` and `RightHandlers` are conjunctions of parts that their modules name and explain.

Why the bounds are enough:

* `setup`: credentials that work and ones that do not exist for both kinds of
  network, and a second certificate is what a repeated provisioning needs;
  files are compared for equality only.
* `ota`: a second job is needed to exchange an update or to give an outcome to
  the wrong job; two messages to have one stale. `sdkconfig` enables rollback.
  The four attempts are the code's own number.
* `ring`: with three slots the ring wraps, is full with a code under way in each,
  and index 0 is met again; the chain of saves ends after three calls whatever
  the size, which `RecursionEnds` proves.
* `ssid`: a full list of three has an oldest, a newest and one between, and a
  fourth name makes one of them give way. Counters up to 4 at the start of a save
  order any three saves and are, with `Wrap` of 4, on both sides of what the scan
  holds; the properties say nothing once it has met one beyond (`wrapped`), which
  in the firmware is after 256 saves, and a poll of the status page is a save; section
  4 has what happens then. Two networks in range compete for their turns. No
  symmetry, since liveness is checked. `LatestSurvives`
  asks for fewer cuts than half of `Max`, one here; in a list of four, two cuts
  are enough for the network saved last to give way to the next one.
* `aws`: the three commands of `sys_aws_shadow_init` fill a queue of three (the
  code has 20), so it is full in ordinary use; two notifications are what an
  order needs.
* `store`: one image of another version to update to and to come back from, and one
  of the same version. Nothing else is bounded.
* `dispatcher`: one request running, one queued and one that finds no room (the
  code has room for three); one function is registered under an index.
* `mqtt`: two slots are full with two topics and have a hole after one is left;
  two packets each way let a message overtake an answer, and a delivery inside
  a call leaves one call waiting under it. Deeper nesting repeats what one level
  does. Waiting intervals of 1 and 2 stand for 1000 to 128000 ms.
* `wire`: the buffers are just large enough for packets with one and with two
  bytes of length (the code has 5120 and 2048), and packets lie on each side of
  each limit: too long by less than a buffer, with a rest of just a buffer, and of more
  than two. Two packets a session let one
  follow what was read, dropped or awaited. Other sizes, and lengths of three and four
  bytes, are left to the proofs (MqttProofs).
* `shadow`: two of the ten records and six of the twenty topics are the ones
  the three commands of the firmware fill; two values, so that a late answer may
  carry the wrong one.
* `jobs`: buffers of the sizes of documents, one more and one less; one
  subscription besides the firmware's, since each is compared with a message alone.

Fairness. The firmware's own steps are weakly fair: tasks run, and an operation
that was begun goes on. Strong fairness is asked for where the environment must
co-operate again and again: phones leave the soft-AP often enough for its timer
to fire (`SoftApExpired`), a station boot that can reach its router does so in the
end (`StaStart`, `GotIp`), the client notices a lost session (its ping is not
answered: `LossNoticed`), and an attempt made over and over while there is an
address succeeds (`PendingConnects`). The driver reports the end of every
connection attempt, one way or the other (`Associate \/ Fails`). No step of the
firmware is assumed to succeed where the code gives it one try, and power
failures are never fair nor excluded. In `dispatcher` the tasks and the dispatcher's
own task are weakly fair. `mqtt`, `wire`, `shadow`, `jobs` and `store` check safety
only: what they end in depends on the network and the service.

`dispatcher` and `shadow` may stop (no calls left; the bounds on writes and breaks
used up), so deadlock is not checked there.

## 4. Findings

One run shows that the code does not do what a comment in it says:

* With rollback enabled nothing confirms the new image
  (`m_sys_firmware_rollback_check` is not called): the next restart takes it
  back, while AWS was told it succeeded (`ota_reported`).

The modules state further properties that their comments place beside a line of
the code and that do not hold; they have no run of their own in
`PROJECT.json`, and TLC refutes each when it is put into the module's configuration.
Four of them are what a property of the runs is without its condition:

* `SsidManager.CounterTellsAge` (with `Max` of 2, three networks, `MaxCnt` and `Wrap` of
  256, `MaxLoss` of 0): the counter is "An indicator to measure the storage time"
  (`wifi_ssid_manager.c:63`), but the eviction scan compares an `int` counter with
  a `uint8_t`, so after 256 saves a network saved later may give way. Every poll
  of the status page is a save. `OldestGivesWay` and `LatestSurvives` hold only
  until then.
* `MqttWire.DroppedSilently` (with `MaxSplit` of 0): "if the buffer is too short then the
  message will be dropped silently" (`aws_iot_mqtt_client_common_internal.c:409`). The
  first read asks for a whole buffer: when the rest of the packet is shorter, the
  next packet is taken along, or the call runs out of time with part of the packet taken.
  `ReadWhole` holds only in sessions without such a packet.
* `MqttWire.EachInTurn`, also without packets that are too long: `iot_tls_read` reports a
  length only when everything was read, so the first part of a torn body is lost.
  `ReadWhole` holds only in sessions without such a record.
* `SettingsStore.SoftApOpens`: the soft-AP's configuration goes through `ESP_ERROR_CHECK`
  (`sys_wifi.c:179`). The form checks that name and password are long enough
  (`sys_http_server.c:676-691`) and not that they fit the 32 bytes there are for
  each, so one that is too long gets into flash, and every soft-AP boot from then
  on aborts. A QR code of 22 characters or more does the same by the default name.
  `TurnedDownIsGone` is what remains: what is too short stays out of flash.

The others:

* `DeviceSetup.StatusPageIsTrue`: the status page stores credentials of a link that
  is down or was never tried, as the soft-AP handler never clears `is_connected`.
* `OtaUpdate.OtaEnds`: an update boot without Wi-Fi returns from `sys_ota_start` into
  a main loop that does nothing.
* `ErrorRing.OnlySentIsDeleted`: "Delete error code have been sent out"
  (`sys_aws_shadow.c:409`). `bsp_error_remove` shortens the window from its end, so
  what is dropped is not what was sent; a full ring is from then on read from slot 0.
* `AwsTask.Reconnects`: automatic reconnection is switched off under the comment
  "Enable auto reconnect", and a session lost with the link up is not opened again.
* `MqttWire.SentIsWritten`: the result of unlocking replaces the error of writing.
* `MqttClient.ReconnectStays`: a resubscription that fails leaves the client
  without the rest of its topics, and its session as it is.
* `Shadow.AwsValueIsFinal`: the start sends GET and then the value in RAM as both
  desired and reported, which wins over the value on AWS.

Further behaviour that the models reach and that no comment contradicts:

* Set-up: a device that loses power between Wi-Fi and QR code at the factory boots
  into soft-AP mode. When opening the store fails the boot goes on with settings
  of zeros, and takes a provisioned device for a new one. A web form in two parts
  restarts the device. A name or password the form turns down is in RAM until the
  restart, and is not stored (`TurnedDownIsGone`).
* Error ring: a setting that cannot be loaded makes the ring start over: the error
  is recorded in the blank ring of RAM, which is saved over the stored one before
  that is loaded, and the codes of earlier boots are gone without having been sent.
* Dispatcher: when the request queue stays full for 5 s the mutex is locked a second
  time instead of unlocked, and nobody returns from then on (`Jammed`, which
  `EveryCallReturns` sets apart).
* Update: an image installed at the fourth attempt is not recorded as a success;
  an update to another version of the settings that is taken back erases them
  twice.
* SSID manager: once each known network had its turn, a station retries the
  last one until the next boot. A failing creation destroys the dispatcher while
  the delegate still holds it.
* AWS task: it can turn a notification of the main loop into a repeated shadow
  command; a client whose first connection failed has no subscriptions later.
* MQTT: resubscription counts handlers and misses one behind a hole; a refused
  topic (0x80) counts as subscribed; a nested subscription may pick the slot
  the outer one has chosen; automatic reconnection gives up after the longest
  interval.
* Jobs: a description with a buffer and no field prints only a closing brace (the
  firmware passes no buffer); `aws_iot_jobs_describe` refuses the NULL id its
  header (`aws_iot_jobs_interface.h:203`) offers; a subscription to any request of
  one job also takes the answers to the list of pending ones; rejected descriptions
  reach the callback for the next job, which finds no execution in them.

## 5. Proofs

Eight `*Proofs` modules hold the theorems, for every value of the constants that
the named assumptions allow. Each proves that an invariant is inductive and derives
its theorems from it.

| Assumption | Says | Because |
|---|---|---|
| `SetupAssumption` | placeholders are no names or passwords; a router has a password or none | they stand for empty strings |
| `OtaAssumption` | at least one job | |
| `RingAssumption` | a ring of two or more; the code an NVS failure adds is one of the codes | the ring has 100 |
| `SsidAssumption` | a list of one or more | `WIFI_MAX_STATION_NUM` is 100 |
| `TaskAssumption` | a queue of one or more | the queue has 20 |
| `StoreAssumption` | an image has a version | |
| `DispatcherAssumption` | at least one place in the request queue; no more functions than there are | it has 3 |
| `ClientAssumption` | at least one slot for handlers, waiting intervals above zero | 50 slots (`aws_iot_config.h`), 1000 to 128000 ms |
| `WireAssumption` | buffers of five bytes or more; the broker and the application send packets there are | 5120 and 2048 bytes (`aws_iot_config.h`); a header and a length take five |
| `ShadowAssumption` | two slots for each command's topics and room for each command in the queue | twenty slots, a queue of 20 (`sys_aws.c:120`), three commands |
| `JobAssumption`, `JobsAssumption` | `NoJob` (NULL), `/` and `#` are no ids; requests have the members of their C type | an MQTT level has neither |

* **DeviceSetupProofs**: `ProvInv`. That flash is right (`ProvisionCommitted`) is
  not inductive by itself: one has to know, for each step of provisioning, what
  the files hold already and what AWS has activated, that the task runs only in
  an unprovisioned boot, and that RAM agrees with flash about it. From the same
  invariant follow that the task is started once and with an accepted
  certificate, and that provisioning is final. `PageInv` is apart from it: in the
  soft-AP the station is only ever given what the page was, so a page that stores
  finds the same network in RAM and in the web server.
* **OtaUpdateProofs**: `OtaInv`, which is types, `SlotInv` and `RecordInv`. A slot is
  whole whenever the bootloader may choose it because a download can run only in
  an update boot, and a new image is chosen only at its end; the record cannot be
  exchanged because job messages only arrive where `enable` is not set.
* **SsidManagerProofs**: `ListInv`. No name twice makes the set as large as the
  number of records (`KeptSize`), so a full list is full in both; `SaveInv` says
  where a save writes. `Implements` then maps `SaveInfo` of a known name to
  `Update`, of a full list to `Evict`, `SaveConf` of a longer list to `Append`, and
  everything else, power failures included, to a stutter.
  `OldestFirst` takes an invariant of its own: with what the save under way has yet
  to add, counters differ and are ordered as the saves were (`AgeInv`), and the scan
  finds the last of the largest as long as it meets no counter its `uint8_t` does not
  hold (`ScanInv`, and the hypothesis `~wrapped` of the properties, for any width
  `Wrap`). `LastSavedStays` needs `ScanInv`, and not the order: it counts. Each save that was cut short leaves at most one more record with a low
  counter, and brings the network saved last at most one step closer to the others;
  a record passed by two steps is paid for by two cuts (`CutInv`), so fewer cuts than
  half the list leave a record with a larger counter. It assumes a list of two or
  more, as a list of one gives its only network away at once.
* **StorageProofs**, SettingsStore: `IInv`. That the version vouches for the settings
  needs to know how far the erasing and the row of commits have come
  (`StoreProgress`) and what the version says meanwhile (`VersionKnown`); that what was
  stored stays needs to know that a history entry is only made while the version is
  good (`SavedKnown`); and what the form turned down is gone with the restart because
  no store takes it from RAM to flash, as the only ones that store every setting are
  those of `sys_nvs_init`, with the defaults (`SoftApChecked`).
* **StorageProofs**, Dispatcher: `DInv`. The holder of the mutex is the task between
  its request and its answer; the request of a caller that waits is the last in the
  queue, since all later ones need the mutex; so a result can only be for the one that
  waits, and there is at most one. With this each step is a step of `NvsCalls` or
  a stutter (`CallsAreServed`).
* **AwsTaskProofs**: `OrderInv`. What is published is older than what is queued, and
  a notification under way is the newest of all; so it does not matter which
  half of the shared record the other task rewrites, nor that a send is dropped.
* **ShadowProofs**, Shadow: three layers. Slots that no request is working on are
  settled: each has a topic of its own that is handled and heard, and they come in
  pairs, so a command that lacks its topics finds two free ones (`RecordsKept`). Tokens
  of waiting requests differ and are below the next one, so an answer finds at most
  its own request, and each step is one of `ShadowRequests` or a stutter
  (`EachEndedOnce`). As long as nothing was missed, something that makes device and
  shadow agree is still coming: a command in the queue, the document being made, an
  update or a delta under way (`Coming`); when all are empty they agree (`InSyncKept`).
* **ShadowProofs**, ErrorRing: `RingInv`. The count covers the codes still to send and
  the answers still to come together, because codes are read once in a boot and each
  answer, whether it comes between two codes or after them, is one of those; the chain is short because a failed save leaves its own code
  as the newest, which the comparison sees everywhere except at index 0, and the
  index after that is 1. `LogInv`: until a code is removed, a ring that is not full has
  filled up from slot 0, and a full one is at its oldest code, in RAM and in flash; a
  ring started over blank while flash held codes has fewer of them, and still the newest.
* **MqttProofs**: `Core` says what the stack of calls may look like and that the
  client's state suits the innermost call, which gives `NoCallStuck` for any nesting,
  and that a connected client has the one context of its session. `ServedInv` adds what
  the calls under way have asked the broker for (`HandlersGetTheirMessages`);
  `PendingInv` that the slot a subscription has chosen stays free
  (`SubscriptionsHaveHandlers`). The last assumes that no message handler subscribes,
  as none of the firmware does; if one did, it might pick the chosen slot.
* **MqttProofs**, the bytes. Without state: for all lengths of four digits the length read is
  the length written (`LengthRoundTrip`) and the serializers' estimate covers the packet
  (`EstimateCovers`); and what the deserializers make of a packet's bytes is the packet
  (`RoundTrip`). `BytesInv` bounds what a call leaves in the buffer by a header and a length
  for any network, and with the estimate gives `NeverOverrun`. `WireInv` says that the
  bytes on the way, arrived and in the buffer are one piece of a stream, the packets the
  broker has sent one after the other (`Laid`, `Records`), and that the piece begins where
  a packet ends (`Unread`); the length of a packet is found when all of it is there and
  not before (`LengthFound`), so each step that reads stays at that place or moves it behind
  the next packet (`Unmoved`, `Past`). It holds in sessions that are `Whole` and bears
  `ReadWhole`, which says nothing of others: no record has ended inside the rest of a
  packet, and the rest of a packet that does not fit is at least a buffer long. Section 4
  has what happens otherwise; the run `wire` reaches both. `BuffersHold` needs no such
  condition (`BuffersAlwaysHold`).
* **JobsApiProofs**, documents: `IInv`. While it prints, what is written and what is left
  are the document, and what is written and the room left are the buffer; once it does
  not fit, the count is at least the size. So a document is published whole or not at
  all (`PublishesWhole`), for any buffer. `Readable` says of the fields printed so far
  that they are an object with those keys, each before its value; one more field keeps it
  so (`WithReadable`), and the chains of the four serializers follow
  (`RequestsAreUnderstood`).
* **JobsApiProofs**, topics: a topic of a thing has one, two or three levels behind the
  common ones (`Short`, `Middle`, `Long`). Filters and topics of the same form match level by
  level, of different forms not at all, unless the filter ends with `#`; and the levels
  differ where the types differ (`TakesMeant`). `TopicsInv` says which forms are
  subscribed to, asked on and answered on, and which of its four subscriptions the
  firmware has. `HandlersAreRight` assumes that nobody subscribes with a wildcard for the
  type, a job, and no reply: the filter `jobs/+/+` of that call, meant for the requests of
  jobs, also takes `jobs/get/accepted` and `jobs/start-next/accepted`. The firmware does not
  make it.

Induction over numbers is replaced by the least counterexample (`LeastElement`, from
`WellFoundedInduction`): if a loop or a search went wrong at some index, it would at
a first one.

Model-checked only: all liveness properties (fairness and ENABLED are out of the
prover's reach), and that the statements of section 4 fail. The
stream of a session is not defined by recursion over the packets, about which nothing
could be proved by induction here: the invariant says that there is one, and each step
gives the next. No module has a RECURSIVE operator.

## 6. Not modelled

* TLS, the timers and mutexes of ESP-IDF, frozen and jsmn are external: the models
  use what their callers rely on.
* Of the AWS IoT SDK: the deletion of shadows, subscriptions of shadows that are given
  back after an answer, versions of deltas, and discovery of Greengrass, which the
  firmware does not use.
* Shadow values other than the tare and the firmware version: they take the same
  path. Notification packets of `components/protocol` are formatted text;
  `components/blufi_security` computes keys for one session and keeps no state that
  other parts see; web pages are served from flash.
* Buttons are not called by this firmware. `sys_nvs_deinit` and four functions of
  the SSID manager are not either.
* Timer objects, of which every address acquired creates a new one
  (`sys_time.c:61`), and NTP.
* Failing file writes while certificates are stored, malformed JSON beyond what
  the callbacks look for, lengths of strings other than those of section 2, and the
  overlap of unlocked calls to the error ring (`bsp_error.c:47`): the ring is
  updated with plain reads and writes, and a model of every interleaving
  of them would only say that nothing holds.

## 7. Plan

The order in which the modules were written: the core (set-up, update, ring,
networks, AWS task), then the settings, the dispatcher, the shadow, and the MQTT
and jobs libraries below them. What would come next:

1. Provisioning with failing files and rejected requests.
2. The composition of AwsTask with MqttClient, whose states AwsTask uses in the
   abstract.
