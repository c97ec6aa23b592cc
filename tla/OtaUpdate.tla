------------------------------ MODULE OtaUpdate ------------------------------
(***************************************************************************)
(* Firmware updates ordered by AWS jobs, over any number of restarts: the  *)
(* job callback of the AWS task (sys_aws.c), the update itself (sys_ota.c),*)
(* the boots between them (sys.c) and the two OTA slots of the bootloader. *)
(* The device is provisioned and its stored credentials are good, so that  *)
(* sys_boot alternates between the soft-AP and a station boot.             *)
(* Job j carries the URL of image j; image 0 is the one it left the        *)
(* factory with.                                                           *)
(***************************************************************************)
EXTENDS Naturals, Sequences, BootPath

CONSTANTS
  NJobs,     \* jobs the cloud creates
  MaxInbox,  \* bound on job messages under way to the device
  Rollback   \* CONFIG_BOOTLOADER_APP_ROLLBACK_ENABLE, set in sdkconfig

ASSUME OtaAssumption ==
  /\ NJobs \in Nat \ {0}
  /\ MaxInbox \in Nat
  /\ Rollback \in BOOLEAN

Job     == 1..NJobs
Image   == 0..NJobs
Garbage == NJobs + 1   \* a slot whose writing was cut short

-----------------------------------------------------------------------------
VARIABLES
  \* flash
  mode,    \* nvs wifi.mode
  nvs,     \* nvs ota: enable, status, url
  img,     \* content of the slot the bootloader starts
  alt,     \* content of the other slot
  slot,    \* state of the OTA data: "new" once alt is chosen for the next
           \* boot, "pending" while a new image has not been confirmed
  \* RAM
  ram,     \* g_nvs_setting_data.ota
  run,     \* where the main task is
  tries,   \* ota_count
  conn,    \* sys_wifi_is_connected()
  task,    \* where the AWS task is
  \* AWS
  job,     \* the status of each job
  inbox    \* job messages under way, oldest first (QoS 0)

flash == <<mode, nvs, img, alt, slot>>
cloud == <<job, inbox>>
vars  == <<flash, ram, run, tries, conn, task, cloud>>

Ota    == [enable : BOOLEAN, status : {"NONE", "FAILED", "SUCCEEDED"}, url : Image]
Ended  == {"FAILED", "SUCCEEDED", "CANCELED"}
OtaRun == {"ota_wait", "ota_check", "ota_try", "ota_done", "stuck"}

TypeOK ==
  /\ mode \in WifiMode
  /\ nvs \in Ota
  /\ img \in Image \cup {Garbage}
  /\ alt \in Image \cup {Garbage}
  /\ slot \in {"valid", "new", "pending"}
  /\ ram \in Ota
  /\ run \in {"off", "softap", "ready"} \cup OtaRun
  /\ tries \in 0..4
  /\ conn \in BOOLEAN
  /\ task \in {"none", "start", "subscribed", "storing", "deaf"}
  /\ job \in [Job -> {"none", "QUEUED", "IN_PROGRESS"} \cup Ended]
  /\ inbox \in Seq(Job)
  /\ Len(inbox) <= MaxInbox

Init ==
  /\ mode = "STA"
  /\ nvs = [enable |-> FALSE, status |-> "NONE", url |-> 0]
  /\ img = 0 /\ alt = Garbage /\ slot = "valid"
  /\ ram = nvs
  /\ run = "off" /\ tries = 0 /\ conn = FALSE /\ task = "none"
  /\ job = [j \in Job |-> "none"]
  /\ inbox = <<>>

-----------------------------------------------------------------------------
(* Boots.                                                                  *)

\* The bootloader picks the slot: a new image gets its first boot; one that
\* did not confirm itself in that boot is taken back.
Bootloader ==
  /\ IF slot = "new" \/ slot = "pending"
     THEN img' = alt /\ alt' = img
     ELSE UNCHANGED <<img, alt>>
  /\ slot' = IF slot = "new" /\ Rollback THEN "pending" ELSE "valid"

\* sys_boot on a provisioned device with credentials
Boot ==
  /\ run = "off"
  /\ Bootloader
  /\ LET b == BootBranch("SET_SUCCESS", mode, TRUE, TRUE)
     IN  /\ mode' = ModeAfter(b, mode)
         /\ run' = IF b = "softap" THEN "softap"
                   ELSE IF nvs.enable THEN "ota_wait" ELSE "ready"
  /\ ram' = nvs
  /\ UNCHANGED <<nvs, tries, conn, task, cloud>>

\* esp_restart(), an abort or a power failure
Reset ==
  /\ run' = "off" /\ tries' = 0 /\ conn' = FALSE /\ task' = "none"
  /\ inbox' = <<>>
  /\ ram' = nvs'
  /\ UNCHANGED <<mode, img, slot>>

\* A download that power failure cuts short leaves the other slot half written.
PowerLoss ==
  /\ run # "off"
  /\ UNCHANGED <<nvs, job>>
  /\ alt' \in {alt} \cup (IF run = "ota_try" THEN {Garbage} ELSE {})
  /\ Reset

\* m_sys_wifi_softap_expired_callback with no phone on the soft-AP
SoftApExpired ==
  /\ run = "softap"
  /\ UNCHANGED <<nvs, alt, job>>
  /\ Reset

-----------------------------------------------------------------------------
(* Wi-Fi and the start of the AWS task.                                    *)

Station == run \in {"ready"} \cup OtaRun

\* Mutation: the event handler does not look at ota.enable.
GotIp_AlwaysAws ==
  /\ Station /\ ~conn
  /\ conn' = TRUE
  /\ task' = IF task = "none" THEN "start" ELSE task
  /\ UNCHANGED <<flash, ram, run, tries, cloud>>

\* SYSTEM_EVENT_STA_GOT_IP: the AWS task starts, unless an update is due.
GotIp ==
  /\ Station /\ ~conn
  /\ conn' = TRUE
  /\ task' = IF task = "none" /\ ~ram.enable THEN "start" ELSE task
  /\ UNCHANGED <<flash, ram, run, tries, cloud>>

\* SYSTEM_EVENT_STA_DISCONNECTED; what was under way may be lost.
Disconnected ==
  /\ Station /\ conn
  /\ conn' = FALSE
  /\ inbox' \in {inbox, <<>>}
  /\ UNCHANGED <<flash, ram, run, tries, task, job>>

\* sys_run publishes 50 s after boot; without a queue, xQueueSend's assertion
\* aborts.
PublishWithoutQueue ==
  /\ run = "ready" /\ task = "none"
  /\ UNCHANGED <<nvs, alt, job>>
  /\ Reset

-----------------------------------------------------------------------------
(* AWS jobs.                                                               *)

\* The job AWS offers next: one in progress, else the oldest one queued.
NextJobs(js) ==
  LET progress == {j \in Job : js[j] = "IN_PROGRESS"}
      queued   == {j \in Job : js[j] = "QUEUED"}
      first(S) == {j \in S : \A k \in S : j <= k}
  IN  IF progress # {} THEN first(progress) ELSE first(queued)

\* A message about each of the jobs in S (none or one) leaves for the device,
\* which may never receive it.
Send(S) ==
  \/ UNCHANGED inbox
  \/ \E j \in S : Len(inbox) < MaxInbox /\ inbox' = Append(inbox, j)

\* The notify-next topic: AWS tells when another job becomes the next one.
NotifyNext ==
  IF task \in {"subscribed", "storing"} /\ conn
  THEN Send(NextJobs(job') \ NextJobs(job))
  ELSE UNCHANGED inbox

JobCreated ==
  /\ \E j \in Job :
       /\ job[j] = "none"
       /\ \A k \in Job : k < j => job[k] # "none"
       /\ job' = [job EXCEPT ![j] = "QUEUED"]
  /\ NotifyNext
  /\ UNCHANGED <<flash, ram, run, tries, conn, task>>

JobCanceled ==
  /\ \E j \in Job :
       /\ job[j] \in {"QUEUED", "IN_PROGRESS"}
       /\ job' = [job EXCEPT ![j] = "CANCELED"]
  /\ NotifyNext
  /\ UNCHANGED <<flash, ram, run, tries, conn, task>>

\* sys_aws_jobs_init: subscribe and ask for the next job.  A failed
\* subscription ends it and is not tried again in this boot.
JobsInit ==
  /\ task = "start"
  /\ \/ task' = "deaf" /\ UNCHANGED inbox
     \/ task' = "subscribed" /\ conn /\ Send(NextJobs(job))
  /\ UNCHANGED <<flash, ram, run, tries, conn, job>>

\* sys_aws_jobs_send_update, QoS 0.  AWS refuses a job that has ended.
SendUpdate(j, status) ==
  \/ UNCHANGED job
  \/ /\ conn
     /\ job[j] \notin Ended
     /\ job' = [job EXCEPT ![j] = status]

\* The message is taken, and what the callback reports may make another job the
\* next one.
TakeMessage ==
  \/ inbox' = Tail(inbox)
  \/ \E k \in NextJobs(job') \ NextJobs(job) : inbox' = Append(Tail(inbox), k)

\* m_sys_aws_jobs_next_job_callback for a job without a jobDocument, which has
\* failed, or with one that is no update, which is passed over.
JobWithoutUpdate ==
  /\ task = "subscribed"
  /\ inbox # <<>>
  /\ SendUpdate(Head(inbox), "FAILED")
  /\ TakeMessage
  /\ UNCHANGED <<flash, ram, run, tries, conn, task>>

\* It for an update, up to its report: whatever job the message is about is told
\* the outcome found in NVS.
JobMessage ==
  /\ task = "subscribed"
  /\ inbox # <<>>
  /\ LET j == Head(inbox)
     IN  /\ SendUpdate(j, IF ram.status = "NONE" THEN "IN_PROGRESS" ELSE ram.status)
         /\ ram' = IF ram.status = "NONE" THEN [ram EXCEPT !.url = j] ELSE ram
  /\ TakeMessage
  /\ task' = "storing"
  /\ UNCHANGED <<flash, run, tries, conn>>

\* Its rest.  Without an outcome to report, sys_ota_setup records the update
\* and restarts, if Wi-Fi is connected; else the record is cleared.
JobStore ==
  /\ task = "storing"
  /\ IF ram.status = "NONE" /\ conn
     THEN /\ nvs' = [ram EXCEPT !.enable = TRUE]
          /\ Reset
     ELSE /\ ram' = [ram EXCEPT !.status = "NONE"]
          /\ nvs' = ram'
          /\ task' = "subscribed"
          /\ UNCHANGED <<mode, img, slot, run, tries, conn, inbox>>
  /\ UNCHANGED <<alt, job>>

-----------------------------------------------------------------------------
(* sys_ota_start.                                                          *)

\* Wait up to 20 s for Wi-Fi.
OtaWait ==
  /\ run = "ota_wait"
  /\ run' = "ota_check"
  /\ \/ conn /\ UNCHANGED ram
     \/ ~conn /\ ram' = [ram EXCEPT !.status = "FAILED"]
  /\ UNCHANGED <<flash, tries, conn, task, cloud>>

\* Without Wi-Fi it returns, with nothing stored and no state for sys_run.
OtaCheck ==
  /\ run = "ota_check"
  /\ run' = IF conn THEN "ota_try" ELSE "stuck"
  /\ UNCHANGED <<flash, ram, tries, conn, task, cloud>>

\* esp_https_ota refuses to run from an image that is not confirmed.
MayUpdate == run = "ota_try" /\ slot # "pending"

\* Mutation: the loop goes on after a success.
TryOk_LoopsOn ==
  /\ MayUpdate /\ conn
  /\ alt' = ram.url
  /\ slot' = "new"
  /\ UNCHANGED <<mode, nvs, img, ram, run, tries, conn, task, cloud>>

\* m_sys_ota_process returns true: the image is written and chosen for the
\* next boot.
TryOk ==
  /\ MayUpdate /\ conn
  /\ alt' = ram.url
  /\ slot' = "new"
  /\ run' = "ota_done"
  /\ UNCHANGED <<mode, nvs, img, ram, tries, conn, task, cloud>>

\* Mutation: a failed attempt is not counted.
TryFail_NotCounted ==
  /\ run = "ota_try"
  /\ alt' \in {alt} \cup (IF MayUpdate THEN {Garbage} ELSE {})
  /\ UNCHANGED <<mode, nvs, img, slot, ram, run, tries, conn, task, cloud>>

\* It returns false, having written some of the other slot or nothing; the
\* fourth failure ends the loop.
TryFail ==
  /\ run = "ota_try"
  /\ alt' \in {alt} \cup (IF MayUpdate THEN {Garbage} ELSE {})
  /\ tries' = tries + 1
  /\ IF tries >= 3
     THEN run' = "ota_done" /\ ram' = [ram EXCEPT !.status = "FAILED"]
     ELSE UNCHANGED <<run, ram>>
  /\ UNCHANGED <<mode, nvs, img, slot, conn, task, cloud>>

\* Mutation: the count of failures is not looked at.
OtaDone_AlwaysSucceeded ==
  /\ run = "ota_done"
  /\ nvs' = [ram EXCEPT !.enable = FALSE, !.status = "SUCCEEDED"]
  /\ Reset
  /\ UNCHANGED <<alt, job>>

\* The outcome, by the count of failures; "Set ota operation off and restart".
OtaDone ==
  /\ run = "ota_done"
  /\ nvs' = [ram EXCEPT !.enable = FALSE,
                        !.status = IF tries < 3 THEN "SUCCEEDED" ELSE @]
  /\ Reset
  /\ UNCHANGED <<alt, job>>

-----------------------------------------------------------------------------
Device  == \/ Boot \/ PowerLoss \/ SoftApExpired \/ GotIp \/ Disconnected
           \/ PublishWithoutQueue \/ JobsInit \/ JobWithoutUpdate \/ JobMessage \/ JobStore
           \/ OtaWait \/ OtaCheck \/ TryOk \/ TryFail \/ OtaDone
Cloud   == JobCreated \/ JobCanceled
Next    == Device \/ Cloud

Spec == Init /\ [][Next]_vars

-----------------------------------------------------------------------------
(* Safety.                                                                 *)

\* An outcome "succeeded" waiting in NVS for its report is about an image that
\* was written whole, whatever power failure came between the download, the
\* record and the report.
StatusMeansInstalled == nvs.status = "SUCCEEDED" => nvs.url \in {img, alt}

\* No sequence of failed downloads, power failures, jobs and rollbacks makes
\* the bootloader start, now or as its fallback, a half-written image.
AlwaysBootable ==
  /\ img # Garbage
  /\ slot \in {"new", "pending"} => alt # Garbage

\* An update recorded in NVS is not exchanged for another before it was tried
\* and recorded as over: no job message gets through in an update boot.
UpdateNotReplaced == [][nvs.enable /\ nvs'.enable => nvs' = nvs]_vars

\* A job AWS holds as succeeded installed its image, and that image is the one
\* the device runs or is about to start.  (With one job: the callback tells
\* the outcome in NVS to whatever job its message is about.)
ReportedImageRuns ==
  \A j \in Job : job[j] = "SUCCEEDED" => j = IF slot = "new" THEN alt ELSE img

-----------------------------------------------------------------------------
(* Liveness: the firmware's steps are weakly fair, and the phones leave the *)
(* soft-AP often enough for its timer to fire.                              *)
Fairness ==
  /\ WF_vars(Boot)
  /\ SF_vars(SoftApExpired)
  /\ WF_vars(OtaWait) /\ WF_vars(OtaCheck)
  /\ WF_vars(TryOk \/ TryFail)
  /\ WF_vars(OtaDone)

LiveSpec == Spec /\ Fairness

\* An update that was recorded is attempted, after the soft-AP boot that comes
\* first and any power failure; and the attempts end with a restart, however
\* often they fail.
UpdateIsTried ==
  /\ run = "off" /\ nvs.enable ~> run = "ota_wait"
  /\ run = "ota_try" ~> run = "off"

-----------------------------------------------------------------------------
(* What comments of the code say and the code does not do.                 *)

\* sys_ota.c:112 "Set ota operation off and restart device"
OtaEnds == run = "ota_wait" ~> run = "off"
=============================================================================
