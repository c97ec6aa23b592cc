--------------------------- MODULE OtaUpdateProofs ---------------------------
(***************************************************************************)
(* What OtaUpdate promises for any number of jobs, any number of messages  *)
(* under way, and with the bootloader's rollback on or off.                *)
(***************************************************************************)
EXTENDS OtaUpdate, TLAPS

\* The two slots: a new image is only chosen at the end of an update boot, and
\* its own first boot is a soft-AP boot, which writes nothing.
SlotInv ==
  /\ img \in Image
  /\ slot \in {"new", "pending"} => alt \in Image
  /\ slot = "new" => run \in {"off", "ota_done"} /\ mode = "STA"
  /\ slot = "pending" => run \in {"off", "softap"}
  /\ Station => mode = "STA"
  /\ run = "ota_try" => tries <= 3
  /\ run \in {"off", "ota_wait", "ota_check"} => tries = 0
  /\ run = "ota_done" /\ tries < 3 => slot = "new" /\ alt = ram.url

\* The record in NVS: enable is set in an update boot and only there, together
\* with no outcome; the AWS task, which could change it, does not run then.
RecordInv ==
  /\ run # "off" => ram.enable = nvs.enable
  /\ run \in OtaRun => ram.enable /\ ram.status # "SUCCEEDED"
  /\ run = "ready" => ~ram.enable
  /\ task # "none" => run = "ready"
  /\ nvs.enable => nvs.status = "NONE"
  /\ StatusMeansInstalled

OtaInv == TypeOK /\ SlotInv /\ RecordInv

-----------------------------------------------------------------------------
LEMMA BootChoice ==
  ASSUME NEW m \in WifiMode
  PROVE  LET b == BootBranch("SET_SUCCESS", m, TRUE, TRUE)
         IN  /\ m = "STA" => b = "softap" /\ ModeAfter(b, m) = "AP"
             /\ m = "AP"  => b = "station" /\ ModeAfter(b, m) = "STA"
BY DEF BootBranch, ModeAfter, WifiMode

LEMMA Constants == /\ 0 \in Image /\ Job \subseteq Image /\ Garbage \notin Image
                   /\ MaxInbox \in Nat
BY OtaAssumption DEF Image, Job, Garbage

LEMMA InitOtaInv == Init => OtaInv
<1> SUFFICES ASSUME Init PROVE OtaInv
  OBVIOUS
<1>1. nvs \in Ota /\ ram \in Ota
  BY Constants DEF Init, Ota
<1>2. conn \in BOOLEAN /\ mode \in WifiMode
  BY DEF Init, WifiMode
<1>3. job \in [Job -> {"none", "QUEUED", "IN_PROGRESS"} \cup Ended]
  BY DEF Init
<1>4. inbox \in Seq(Job) /\ Len(inbox) <= MaxInbox
  BY Constants DEF Init
<1>5. TypeOK
  BY <1>1, <1>2, <1>3, <1>4, Constants DEF Init, TypeOK
<1>6. SlotInv
  BY Constants DEF Init, SlotInv, Station, OtaRun
<1>7. RecordInv
  BY DEF Init, RecordInv, OtaRun, StatusMeansInstalled
<1> QED
  BY <1>5, <1>6, <1>7 DEF OtaInv

\* Reset keeps what it does not touch itself.
LEMMA ResetInv ==
  ASSUME OtaInv, Reset,
         nvs' \in Ota, nvs'.enable => nvs'.status = "NONE",
         nvs'.status = "SUCCEEDED" => nvs'.url \in {img, alt'},
         alt' \in Image \cup {Garbage},
         slot \in {"new", "pending"} => alt' = alt,
         job' \in [Job -> {"none", "QUEUED", "IN_PROGRESS"} \cup Ended]
  PROVE  OtaInv'
<1>1. /\ run' = "off" /\ tries' = 0 /\ task' = "none" /\ inbox' = <<>> /\ ram' = nvs'
      /\ UNCHANGED <<mode, img, slot>>
  BY DEF Reset
<1>2. conn' \in BOOLEAN
  BY DEF Reset
<1>3. inbox' \in Seq(Job) /\ Len(inbox') <= MaxInbox
  BY <1>1, Constants
<1>4. TypeOK'
  BY <1>1, <1>2, <1>3 DEF OtaInv, TypeOK
<1>5. slot = "new" => mode = "STA"
  BY DEF OtaInv, SlotInv
<1>6. SlotInv'
  BY <1>1, <1>5 DEF OtaInv, SlotInv, Station, OtaRun
<1>7. RecordInv'
  BY <1>1 DEF RecordInv, StatusMeansInstalled, OtaRun
<1> QED
  BY <1>4, <1>6, <1>7 DEF OtaInv

LEMMA BootOtaInv == OtaInv /\ Boot => OtaInv'
<1> SUFFICES ASSUME OtaInv, Boot PROVE OtaInv'
  OBVIOUS
<1>1. /\ mode \in WifiMode /\ run = "off" /\ task = "none"
      /\ ram' = nvs /\ nvs \in Ota
      /\ UNCHANGED <<nvs, tries, conn, task, cloud>>
  BY DEF OtaInv, TypeOK, RecordInv, Boot
<1>2. /\ mode = "STA" => run' = "softap" /\ mode' = "AP"
      /\ mode = "AP" => /\ mode' = "STA"
                        /\ run' = IF nvs.enable THEN "ota_wait" ELSE "ready"
  BY <1>1, BootChoice DEF Boot
<1>3. /\ slot' \in {"valid", "pending"} /\ (slot' = "pending" => slot = "new")
      /\ img' \in Image /\ alt' \in Image \cup {Garbage}
      /\ (slot' = "pending" => alt' \in Image)
      /\ {img', alt'} = {img, alt}
  BY DEF Boot, Bootloader, OtaInv, TypeOK, SlotInv
<1>4. (slot = "new" => mode = "STA") /\ tries = 0
  BY <1>1 DEF OtaInv, SlotInv
<1>5. TypeOK'
  BY <1>1, <1>2, <1>3 DEF OtaInv, TypeOK, WifiMode, OtaRun, cloud
<1>6. SlotInv'
  BY <1>1, <1>2, <1>3, <1>4 DEF SlotInv, Station, OtaRun, WifiMode
<1>7. RecordInv'
  <2>1. nvs.enable => nvs.status = "NONE"
    BY DEF OtaInv, RecordInv
  <2>2. nvs.status = "SUCCEEDED" => nvs.url \in {img, alt}
    BY DEF OtaInv, RecordInv, StatusMeansInstalled
  <2>3. StatusMeansInstalled'
    BY <1>1, <1>3, <2>2 DEF StatusMeansInstalled
  <2> QED
    BY <1>1, <1>2, <2>1, <2>3 DEF RecordInv, OtaRun, WifiMode
<1> QED
  BY <1>5, <1>6, <1>7 DEF OtaInv

\* Resets that change no record
LEMMA PlainResetInv ==
  ASSUME OtaInv, PowerLoss \/ SoftApExpired \/ PublishWithoutQueue
  PROVE  OtaInv'
<1>1. Reset /\ nvs' = nvs /\ job' = job
  BY DEF PowerLoss, SoftApExpired, PublishWithoutQueue
<1>2. nvs \in Ota /\ (nvs.enable => nvs.status = "NONE") /\ job' \in
        [Job -> {"none", "QUEUED", "IN_PROGRESS"} \cup Ended]
  BY <1>1 DEF OtaInv, TypeOK, RecordInv
<1>3. alt' = alt \/ (run = "ota_try" /\ alt' = Garbage)
  BY DEF PowerLoss, SoftApExpired, PublishWithoutQueue
<1>4. alt' \in Image \cup {Garbage}
  BY <1>3 DEF OtaInv, TypeOK
<1>5. run = "ota_try" => slot \notin {"new", "pending"} /\ nvs.status = "NONE"
  BY DEF OtaInv, SlotInv, RecordInv, OtaRun
<1>6. nvs'.status = "SUCCEEDED" => nvs'.url \in {img, alt'}
  BY <1>1, <1>3, <1>5 DEF OtaInv, RecordInv, StatusMeansInstalled
<1> QED
  BY <1>1, <1>2, <1>3, <1>4, <1>5, <1>6, ResetInv

LEMMA JobStoreInv == OtaInv /\ JobStore => OtaInv'
<1> SUFFICES ASSUME OtaInv, JobStore PROVE OtaInv'
  OBVIOUS
<1>1. ram \in Ota /\ task = "storing" /\ run = "ready" /\ ~ram.enable
  BY DEF JobStore, OtaInv, TypeOK, RecordInv
<1>2. alt' = alt /\ job' = job /\ alt \in Image \cup {Garbage}
      /\ job \in [Job -> {"none", "QUEUED", "IN_PROGRESS"} \cup Ended]
  BY DEF JobStore, OtaInv, TypeOK
<1>3. CASE ram.status = "NONE" /\ conn
  <2>1. Reset /\ nvs' = [ram EXCEPT !.enable = TRUE]
    BY <1>3 DEF JobStore
  <2>2. nvs' \in Ota /\ nvs'.status = "NONE"
    BY <1>1, <1>3, <2>1 DEF Ota
  <2> QED
    BY <1>2, <2>1, <2>2, ResetInv
<1>4. CASE ~(ram.status = "NONE" /\ conn)
  <2>1. /\ ram' = [ram EXCEPT !.status = "NONE"] /\ nvs' = ram'
        /\ task' = "subscribed"
        /\ UNCHANGED <<mode, img, slot, run, tries, conn, inbox>>
    BY <1>4 DEF JobStore
  <2>2. ram' \in Ota /\ ram'.status = "NONE" /\ ram'.enable = ram.enable
    BY <1>1, <2>1 DEF Ota
  <2>3. TypeOK'
    BY <1>2, <2>1, <2>2 DEF OtaInv, TypeOK
  <2>4. SlotInv'
    BY <1>1, <1>2, <2>1 DEF OtaInv, SlotInv, Station
  <2>5. RecordInv'
    BY <1>1, <2>1, <2>2 DEF RecordInv, StatusMeansInstalled, OtaRun
  <2> QED
    BY <2>3, <2>4, <2>5 DEF OtaInv
<1> QED
  BY <1>3, <1>4

LEMMA OtaDoneInv == OtaInv /\ OtaDone => OtaInv'
<1> SUFFICES ASSUME OtaInv, OtaDone PROVE OtaInv'
  OBVIOUS
<1>1. /\ ram \in Ota /\ run = "ota_done" /\ ram.status # "SUCCEEDED"
      /\ alt' = alt /\ job' = job /\ alt \in Image \cup {Garbage}
      /\ job \in [Job -> {"none", "QUEUED", "IN_PROGRESS"} \cup Ended]
      /\ Reset
  BY DEF OtaDone, OtaInv, TypeOK, RecordInv, OtaRun
<1>2. nvs' = [ram EXCEPT !.enable = FALSE,
                         !.status = IF tries < 3 THEN "SUCCEEDED" ELSE ram.status]
  BY <1>1 DEF OtaDone, Ota
<1>3. nvs' \in Ota /\ ~nvs'.enable /\ nvs'.url = ram.url
      /\ (nvs'.status = "SUCCEEDED" => tries < 3)
  BY <1>1, <1>2 DEF Ota
<1>4. tries < 3 => ram.url = alt
  BY <1>1 DEF OtaInv, SlotInv
<1> QED
  BY <1>1, <1>3, <1>4, ResetInv

LEMMA TryInv == OtaInv /\ (TryOk \/ TryFail) => OtaInv'
<1> SUFFICES ASSUME OtaInv, TryOk \/ TryFail PROVE OtaInv'
  OBVIOUS
<1>1. /\ run = "ota_try" /\ slot = "valid" /\ mode = "STA" /\ img \in Image
      /\ nvs.enable /\ ram.enable /\ nvs.status = "NONE" /\ task = "none"
      /\ ram \in Ota /\ ram.url \in Image /\ tries \in 0..4 /\ ram.status # "SUCCEEDED"
  BY DEF TryOk, TryFail, MayUpdate, OtaInv, TypeOK, SlotInv, RecordInv, Station,
         OtaRun, Ota
<1>2. CASE TryOk
  <2>1. /\ alt' = ram.url /\ slot' = "new" /\ run' = "ota_done"
        /\ UNCHANGED <<mode, nvs, img, ram, tries, conn, task, cloud>>
    BY <1>2 DEF TryOk
  <2>2. TypeOK'
    BY <1>1, <2>1 DEF OtaInv, TypeOK, OtaRun, cloud
  <2>3. SlotInv'
    BY <1>1, <2>1 DEF SlotInv, Station, OtaRun
  <2>4. RecordInv'
    BY <1>1, <2>1 DEF RecordInv, StatusMeansInstalled, OtaRun
  <2> QED
    BY <2>2, <2>3, <2>4 DEF OtaInv
<1>3. CASE TryFail
  <2>1. /\ alt' \in {alt, Garbage} /\ tries' = tries + 1
        /\ UNCHANGED <<mode, nvs, img, slot, conn, task, cloud>>
    BY <1>3 DEF TryFail
  <2>2. \/ tries >= 3 /\ run' = "ota_done" /\ ram' = [ram EXCEPT !.status = "FAILED"]
        \/ tries < 3 /\ run' = run /\ ram' = ram
    BY <1>1, <1>3 DEF TryFail
  <2>3. ram' \in Ota /\ ram'.enable = ram.enable /\ ram'.status # "SUCCEEDED"
    BY <1>1, <2>2 DEF Ota
  <2>4. tries' \in 0..4
    <3>1. tries < 4
      BY <1>1 DEF OtaInv, SlotInv
    <3> QED
      BY <1>1, <2>1, <3>1
  <2>5. TypeOK'
    BY <1>1, <2>1, <2>2, <2>3, <2>4 DEF OtaInv, TypeOK, OtaRun, cloud
  <2>6. SlotInv'
    BY <1>1, <2>1, <2>2 DEF SlotInv, Station, OtaRun
  <2>7. RecordInv'
    BY <1>1, <2>1, <2>2, <2>3 DEF RecordInv, StatusMeansInstalled, OtaRun
  <2> QED
    BY <2>5, <2>6, <2>7 DEF OtaInv
<1> QED
  BY <1>2, <1>3

\* Steps that touch neither the slots nor the record in NVS
LEMMA OtherInv ==
  ASSUME OtaInv,
         \/ GotIp \/ Disconnected \/ JobsInit \/ JobWithoutUpdate \/ JobMessage
         \/ OtaWait \/ OtaCheck \/ Cloud
  PROVE  OtaInv'
<1>1. ram \in Ota /\ job \in [Job -> {"none", "QUEUED", "IN_PROGRESS"} \cup Ended]
      /\ inbox \in Seq(Job) /\ Len(inbox) \in Nat /\ Len(inbox) <= MaxInbox
      /\ conn \in BOOLEAN
  BY DEF OtaInv, TypeOK
<1>2. ASSUME NEW S \in SUBSET Job, Send(S)
      PROVE  inbox' \in Seq(Job) /\ Len(inbox') <= MaxInbox
  BY <1>1, <1>2, Constants DEF Send
<1>3. NextJobs(job) \subseteq Job /\ NextJobs(job') \ NextJobs(job) \subseteq Job
  BY DEF NextJobs
<1>3a. ASSUME inbox # <<>>, TakeMessage
       PROVE  inbox' \in Seq(Job) /\ Len(inbox') <= MaxInbox
  <2>1. Tail(inbox) \in Seq(Job) /\ Len(Tail(inbox)) = Len(inbox) - 1
    BY <1>1, <1>3a
  <2>2. \/ inbox' = Tail(inbox)
        \/ \E k \in Job : inbox' = Append(Tail(inbox), k)
    BY <1>3, <1>3a DEF TakeMessage
  <2>3. \A k \in Job : /\ Append(Tail(inbox), k) \in Seq(Job)
                       /\ Len(Append(Tail(inbox), k)) = Len(Tail(inbox)) + 1
    BY <2>1
  <2> QED
    BY <1>1, <2>1, <2>2, <2>3, Constants
<1>4. CASE GotIp
  <2>1. conn' \in BOOLEAN /\ task' \in {task, "start"}
        /\ (task' # task => ~ram.enable) /\ Station
        /\ UNCHANGED <<flash, ram, run, tries, cloud>>
    BY <1>4 DEF GotIp
  <2>2. TypeOK'
    BY <2>1 DEF OtaInv, TypeOK, flash, cloud
  <2>3. task' # task => run = "ready"
    BY <2>1 DEF Station, OtaInv, RecordInv
  <2> QED
    BY <2>1, <2>2, <2>3 DEF OtaInv, SlotInv, RecordInv, StatusMeansInstalled, flash,
       Station
<1>5. CASE Disconnected
  <2>1. conn' \in BOOLEAN /\ inbox' \in {inbox, <<>>}
        /\ UNCHANGED <<flash, ram, run, tries, task, job>>
    BY <1>5 DEF Disconnected
  <2>2. <<>> \in Seq(Job) /\ Len(<<>>) = 0
    OBVIOUS
  <2>3. inbox' \in Seq(Job) /\ Len(inbox') <= MaxInbox
    <3>1. CASE inbox' = inbox
      BY <1>1, <3>1
    <3>2. CASE inbox' = <<>>
      BY <2>2, <3>2, Constants
    <3> QED
      BY <2>1, <3>1, <3>2
  <2> QED
    BY <2>1, <2>3 DEF OtaInv, TypeOK, SlotInv, RecordInv, StatusMeansInstalled, flash,
       Station
<1>6. CASE JobsInit
  <2>1. task = "start" /\ task' \in {"deaf", "subscribed"}
        /\ UNCHANGED <<flash, ram, run, tries, conn, job>>
    BY <1>6 DEF JobsInit
  <2>2. inbox' \in Seq(Job) /\ Len(inbox') <= MaxInbox
    <3>1. inbox' = inbox \/ Send(NextJobs(job))
      BY <1>6 DEF JobsInit
    <3> QED
      BY <1>1, <1>2, <1>3, <3>1
  <2> QED
    BY <2>1, <2>2 DEF OtaInv, TypeOK, SlotInv, RecordInv, StatusMeansInstalled, flash,
       Station
<1>7. CASE JobMessage
  <2>1. /\ task = "subscribed" /\ task' = "storing" /\ inbox # <<>>
        /\ UNCHANGED <<flash, run, tries, conn>>
    BY <1>7 DEF JobMessage
  <2>2. Head(inbox) \in Job
    BY <1>1, <2>1
  <2>3. inbox' \in Seq(Job) /\ Len(inbox') <= MaxInbox
    BY <1>3a, <1>7, <2>1 DEF JobMessage
  <2>4. ram' \in Ota /\ ram'.enable = ram.enable /\ ram'.status = ram.status
    BY <1>1, <1>7, <2>2, Constants DEF JobMessage, Ota
  <2>5. job' \in [Job -> {"none", "QUEUED", "IN_PROGRESS"} \cup Ended]
    BY <1>1, <1>7, <2>2 DEF JobMessage, SendUpdate, Ota, Ended
  <2>6. run = "ready"
    BY <2>1 DEF OtaInv, RecordInv
  <2> QED
    BY <2>1, <2>3, <2>4, <2>5, <2>6 DEF OtaInv, TypeOK, SlotInv, RecordInv,
       StatusMeansInstalled, flash, Station, OtaRun
<1>8. CASE OtaWait
  <2>1. run = "ota_wait" /\ run' = "ota_check" /\ UNCHANGED <<flash, tries, conn, task, cloud>>
    BY <1>8 DEF OtaWait
  <2>2. ram' \in Ota /\ ram'.enable = ram.enable /\ ram'.status \in {ram.status, "FAILED"}
    BY <1>1, <1>8 DEF OtaWait, Ota
  <2> QED
    BY <2>1, <2>2 DEF OtaInv, TypeOK, SlotInv, RecordInv, StatusMeansInstalled, flash,
       cloud, Station, OtaRun
<1>9. CASE OtaCheck
  <2>1. run = "ota_check" /\ run' \in {"ota_try", "stuck"}
        /\ UNCHANGED <<flash, ram, tries, conn, task, cloud>>
    BY <1>9 DEF OtaCheck
  <2> QED
    BY <2>1 DEF OtaInv, TypeOK, SlotInv, RecordInv, StatusMeansInstalled, flash,
       cloud, Station, OtaRun
<1>10. CASE Cloud
  <2>1. UNCHANGED <<flash, ram, run, tries, conn, task>>
    BY <1>10 DEF Cloud, JobCreated, JobCanceled
  <2>2. job' \in [Job -> {"none", "QUEUED", "IN_PROGRESS"} \cup Ended]
    BY <1>1, <1>10 DEF Cloud, JobCreated, JobCanceled, Ended
  <2>3. inbox' \in Seq(Job) /\ Len(inbox') <= MaxInbox
    BY <1>1, <1>2, <1>3, <1>10 DEF Cloud, JobCreated, JobCanceled, NotifyNext
  <2> QED
    BY <2>1, <2>2, <2>3 DEF OtaInv, TypeOK, SlotInv, RecordInv, StatusMeansInstalled,
       flash, Station
<1>11. CASE JobWithoutUpdate
  <2>1. inbox # <<>> /\ TakeMessage /\ UNCHANGED <<flash, ram, run, tries, conn, task>>
    BY <1>11 DEF JobWithoutUpdate
  <2>2. Head(inbox) \in Job
    BY <1>1, <2>1
  <2>3. inbox' \in Seq(Job) /\ Len(inbox') <= MaxInbox
    BY <1>3a, <2>1
  <2>4. job' \in [Job -> {"none", "QUEUED", "IN_PROGRESS"} \cup Ended]
    BY <1>1, <1>11, <2>2 DEF JobWithoutUpdate, SendUpdate, Ended
  <2> QED
    BY <2>1, <2>3, <2>4 DEF OtaInv, TypeOK, SlotInv, RecordInv, StatusMeansInstalled,
       flash, Station
<1> QED
  BY <1>4, <1>5, <1>6, <1>7, <1>8, <1>9, <1>10, <1>11

-----------------------------------------------------------------------------
LEMMA Inductive == Spec => []OtaInv
<1>1. OtaInv /\ [Next]_vars => OtaInv'
  <2> SUFFICES ASSUME OtaInv, [Next]_vars PROVE OtaInv'
    OBVIOUS
  <2>1. CASE UNCHANGED vars
    BY <2>1 DEF vars, flash, cloud, OtaInv, TypeOK, SlotInv, RecordInv,
       StatusMeansInstalled, Station
  <2>2. CASE Next
    BY <2>2, BootOtaInv, PlainResetInv, JobStoreInv, OtaDoneInv, TryInv, OtherInv
    DEF Next, Device
  <2> QED
    BY <2>1, <2>2
<1> QED
  BY <1>1, InitOtaInv, PTL DEF Spec

\* The state is of the stated types; in particular the count of attempts never
\* passes four and the inbox its bound (TypeOK).
THEOREM TypeCorrect == Spec => []TypeOK
<1>1. OtaInv => TypeOK
  BY DEF OtaInv
<1> QED
  BY <1>1, Inductive, PTL

\* "Succeeded" in NVS is about an image written whole (StatusMeansInstalled).
THEOREM SuccessIsInstalled == Spec => []StatusMeansInstalled
<1>1. OtaInv => StatusMeansInstalled
  BY DEF OtaInv, RecordInv
<1> QED
  BY <1>1, Inductive, PTL

\* The bootloader always has a whole image to start and to fall back to
\* (AlwaysBootable).
THEOREM NeverBricked == Spec => []AlwaysBootable
<1>1. OtaInv => AlwaysBootable
  BY Constants DEF OtaInv, SlotInv, AlwaysBootable
<1> QED
  BY <1>1, Inductive, PTL

\* A recorded update stays as it is until it was tried (UpdateNotReplaced).
THEOREM UpdateStays == Spec => UpdateNotReplaced
<1> DEFINE Kept == nvs.enable /\ nvs'.enable => nvs' = nvs
<1>1. OtaInv /\ [Next]_vars => [Kept]_vars
  <2> SUFFICES ASSUME OtaInv, Next PROVE Kept
    OBVIOUS
  <2>1. CASE JobStore
    BY <2>1 DEF JobStore, OtaInv, RecordInv
  <2>2. CASE OtaDone
    BY <2>2 DEF OtaDone, OtaInv, TypeOK, Ota
  <2> QED
    BY <2>1, <2>2 DEF Next, Device, Cloud, Boot, PowerLoss, SoftApExpired, GotIp,
       Disconnected, PublishWithoutQueue, JobsInit, JobWithoutUpdate, JobMessage, OtaWait, OtaCheck,
       TryOk, TryFail, JobCreated, JobCanceled, flash
<1> QED
  BY <1>1, Inductive, PTL DEF Spec, UpdateNotReplaced
=============================================================================
