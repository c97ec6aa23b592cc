---------------------------- MODULE StorageProofs ----------------------------
(***************************************************************************)
(* The settings in flash, and the dispatcher that runs the flash           *)
(* operations of the SSID manager.                                         *)
(*                                                                         *)
(* SettingsStore for every set of images and every assignment of versions  *)
(* to them: the invariant IInv says what a cut in each step of             *)
(* sys_nvs_init leaves behind.                                             *)
(*                                                                         *)
(* Dispatcher for any tasks and any length of its queue: the invariant     *)
(* DInv says who holds the mutex in which stage of a call, that a request  *)
(* whose caller waits is the last one in the queue, and that a result in   *)
(* the queue is for the one task that waits; with it each step is one of   *)
(* NvsCalls.                                                               *)
(***************************************************************************)
EXTENDS SettingsStore, Dispatcher, TLAPS


Running == {"setup", "blufi", "station", "softap"}
NothingSaved == \A k \in Setting : saved[k] = Absent

\* The version in flash is that of the running image where it has to be, and is
\* another one where the store is erased.
VersionKnown ==
  /\ pc = "erase" /\ ~suspect => vers # Version[image]
  /\ pc = "load" /\ ~suspect => vers = Version[image]
  /\ pc \in Running /\ ~err /\ ~suspect => vers = Version[image]

\* How far sys_nvs_store_all has come
StoreProgress ==
  /\ pc = "store" => \A j \in 1..(i - 1) : flash[Table[j]] = ram[Table[j]]
  /\ pc = "set_version" => \/ flash = ram
                           \/ err /\ suspect

\* What the form turns down is in no step on its way to flash.
Checked == {"default", "changed", "long"}
SoftApChecked ==
  /\ flash["soft_ap"] \in Checked \cup {Absent}
  /\ pc \in {"store", "set_version"} => ram["soft_ap"] = "default"
  /\ TurnedDownIsGone

\* What is recorded as saved is vouched for by the version.
SavedKnown ==
  /\ pc \in {"erase", "store", "set_version"} => NothingSaved
  /\ NothingSaved \/ vers = Version[image]

IInv == /\ TypeOK /\ VersionVouches /\ StoredStays
        /\ VersionKnown /\ StoreProgress /\ SoftApChecked /\ SavedKnown

-----------------------------------------------------------------------------
\* nvs_data_list has four entries here, each with a key of its own.
LEMMA Settings ==
  /\ Setting = {"dev", "mac_device_addr", "soft_ap", "properties"}
  /\ Len(Table) = 4
  /\ \A j \in 1..4 : Table[j] \in Setting
<1>1. Len(Table) = 4
  BY DEF Table
<1>2. Table[1] = "dev" /\ Table[2] = "mac_device_addr" /\ Table[3] = "soft_ap"
      /\ Table[4] = "properties"
  BY DEF Table
<1>3. 1..Len(Table) = {1, 2, 3, 4}
  BY <1>1
<1>4. Setting = {"dev", "mac_device_addr", "soft_ap", "properties"}
  BY <1>2, <1>3 DEF Setting
<1> QED
  BY <1>1, <1>2, <1>3, <1>4

\* Every setting has an entry.
LEMMA Covered == \A k \in Setting : \E j \in 1..4 : Table[j] = k
<1>1. Table[1] = "dev" /\ Table[2] = "mac_device_addr" /\ Table[3] = "soft_ap"
      /\ Table[4] = "properties"
  BY DEF Table
<1> QED
  BY <1>1, Settings

\* A device that was only flashed satisfies the invariant.
LEMMA InitInv == Init => IInv
<1> SUFFICES ASSUME Init PROVE IInv
  OBVIOUS
<1> USE Settings, StoreAssumption DEF Init, Absent, NoData
<1>1. TypeOK
  <2>1. ram \in [Setting -> Value]
    BY DEF Zero, Value
  <2>2. flash \in [Setting -> Value \cup {Absent}] /\ saved = flash
    OBVIOUS
  <2>3. i \in 1..Len(Table)
    OBVIOUS
  <2> QED
    BY <2>1, <2>2, <2>3 DEF TypeOK, Pc
<1>2. VersionVouches /\ VersionKnown /\ StoreProgress
  BY DEF VersionVouches, VersionKnown, StoreProgress, Running
<1>3. StoredStays /\ SavedKnown
  BY DEF StoredStays, SavedKnown, NothingSaved
<1>4. SoftApChecked
  BY DEF SoftApChecked, TurnedDownIsGone
<1> QED
  BY <1>1, <1>2, <1>3, <1>4 DEF IInv

\* Switching off keeps what is in flash and what is known about it.
LEMMA OffInv == ASSUME IInv, PowerOff PROVE IInv'
<1> USE Settings DEF PowerOff, hist, IInv
<1>1. TypeOK'
  <2>1. ram' \in [Setting -> Value]
    BY DEF Zero, Value
  <2>2. i' \in 1..Len(Table)
    OBVIOUS
  <2> QED
    BY <2>1, <2>2 DEF TypeOK, Pc
<1>2. VersionVouches' /\ VersionKnown' /\ StoreProgress'
  BY DEF VersionVouches, VersionKnown, StoreProgress, Running, Complete
<1>3. StoredStays' /\ SavedKnown'
  BY DEF StoredStays, SavedKnown, NothingSaved
<1>4. SoftApChecked'
  BY DEF SoftApChecked, TurnedDownIsGone
<1> QED
  BY <1>1, <1>2, <1>3, <1>4

\* SYS_NVS_STORE of a good value in a running boot preserves the invariant,
\* whether it succeeds or fails.
LEMMA StoreInv ==
  ASSUME IInv, NEW k \in Setting, NEW v \in Value,
         k = "soft_ap" => v \in Checked,
         pc \in Running, pc' \in Running \ {"setup"}, Store(k, v)
  PROVE  IInv'
<1> USE Settings, StoreAssumption DEF IInv, Absent, Running
<1>1. vers' = vers /\ image' = image /\ i' = i /\ open' = open /\ suspect' = suspect
  BY DEF Store, boot
<1>2. err \/ suspect \/ vers = Version[image]
  BY DEF VersionKnown
<1>3. /\ ram' = [ram EXCEPT ![k] = v]
      /\ flash' \in {flash, [flash EXCEPT ![k] = v]}
      /\ saved' \in {[saved EXCEPT ![k] = Absent], [saved EXCEPT ![k] = v]}
      /\ err' \in BOOLEAN
      /\ err => err'
  BY DEF Store, TypeOK
<1>4. TypeOK'
  BY <1>1, <1>3 DEF TypeOK, Pc, Value
<1>5. VersionVouches'
  BY <1>1, <1>3 DEF VersionVouches, Complete, TypeOK, Value
<1>6. StoredStays'
  BY <1>1, <1>3 DEF Store, StoredStays, TypeOK
<1>7. VersionKnown' /\ StoreProgress'
  BY <1>1, <1>3 DEF VersionKnown, StoreProgress
<1>8. SoftApChecked'
  BY <1>1, <1>3 DEF SoftApChecked, TurnedDownIsGone, Checked, TypeOK
<1>9. SavedKnown'
  <2>1. CASE saved' = [saved EXCEPT ![k] = Absent]
    BY <1>1, <2>1 DEF SavedKnown, NothingSaved, TypeOK
  <2>2. CASE ~(err \/ suspect)
    BY <1>1, <1>2, <2>2 DEF SavedKnown
  <2> QED
    BY <2>1, <2>2 DEF Store
<1> QED
  BY <1>4, <1>5, <1>6, <1>7, <1>8, <1>9

\* The steps of sys_nvs_init up to the erasure
LEMMA OpenInv ==
  ASSUME IInv, \/ PowerOn \/ OpenOk \/ OpenFails \/ ReadVersion \/ Erase
               \/ EraseEnds \/ \E m \in Image : Exchange(m)
  PROVE  IInv'
<1> USE Settings, StoreAssumption DEF IInv, Absent, boot, hist
<1>1. CASE PowerOn
  <2>1. TypeOK'
    <3>1. ram' \in [Setting -> Value]
      BY <1>1 DEF PowerOn, Zero, Value
    <3>2. i' \in 1..Len(Table)
      BY <1>1 DEF PowerOn
    <3> QED
      BY <1>1, <3>1, <3>2 DEF PowerOn, TypeOK, Pc
  <2>2. VersionVouches' /\ VersionKnown'
    BY <1>1 DEF PowerOn, Zero, TypeOK, VersionVouches, VersionKnown, Running,
                Complete, SavedKnown
  <2>3. StoreProgress'
    BY <1>1 DEF PowerOn, Zero, TypeOK, StoreProgress
  <2>4. StoredStays' /\ SavedKnown'
    BY <1>1 DEF PowerOn, Zero, TypeOK, StoredStays, SavedKnown, NothingSaved,
                VersionVouches, VersionKnown, Running, Complete
  <2>5. SoftApChecked'
    BY <1>1 DEF PowerOn, Zero, TypeOK, SoftApChecked, TurnedDownIsGone, Checked,
                StoreProgress
  <2> QED
    BY <2>1, <2>2, <2>3, <2>4, <2>5
<1>2. CASE OpenOk
  <2>1. TypeOK'
    BY <1>2 DEF OpenOk, NoData, TypeOK, Pc, Value
  <2>2. VersionVouches' /\ VersionKnown'
    BY <1>2 DEF OpenOk, NoData, TypeOK, VersionVouches, VersionKnown, Running,
                Complete, SavedKnown
  <2>3. StoreProgress'
    BY <1>2 DEF OpenOk, NoData, TypeOK, StoreProgress
  <2>4. StoredStays' /\ SavedKnown'
    BY <1>2 DEF OpenOk, NoData, TypeOK, StoredStays, SavedKnown, NothingSaved,
                VersionVouches, VersionKnown, Running, Complete
  <2>5. SoftApChecked'
    BY <1>2 DEF OpenOk, NoData, TypeOK, SoftApChecked, TurnedDownIsGone, Checked,
                StoreProgress
  <2> QED
    BY <2>1, <2>2, <2>3, <2>4, <2>5
<1>3. CASE OpenFails
  <2>1. TypeOK'
    BY <1>3 DEF OpenFails, TypeOK, Pc, Value
  <2>2. VersionVouches' /\ VersionKnown'
    BY <1>3 DEF OpenFails, TypeOK, VersionVouches, VersionKnown, Running,
                Complete, SavedKnown
  <2>3. StoreProgress'
    BY <1>3 DEF OpenFails, TypeOK, StoreProgress
  <2>4. StoredStays' /\ SavedKnown'
    BY <1>3 DEF OpenFails, TypeOK, StoredStays, SavedKnown, NothingSaved,
                VersionVouches, VersionKnown, Running, Complete
  <2>5. SoftApChecked'
    BY <1>3 DEF OpenFails, TypeOK, SoftApChecked, TurnedDownIsGone, Checked,
                StoreProgress
  <2> QED
    BY <2>1, <2>2, <2>3, <2>4, <2>5
<1>4. CASE ReadVersion
  <2>1. TypeOK'
    BY <1>4 DEF ReadVersion, NoData, TypeOK, Pc, Value
  <2>2. VersionVouches' /\ VersionKnown'
    BY <1>4 DEF ReadVersion, NoData, TypeOK, VersionVouches, VersionKnown,
                Running, Complete, SavedKnown
  <2>3. StoreProgress'
    BY <1>4 DEF ReadVersion, NoData, TypeOK, StoreProgress
  <2>4. StoredStays' /\ SavedKnown'
    BY <1>4 DEF ReadVersion, NoData, TypeOK, StoredStays, SavedKnown,
                NothingSaved, VersionVouches, VersionKnown, Running, Complete
  <2>5. SoftApChecked'
    BY <1>4 DEF ReadVersion, NoData, TypeOK, SoftApChecked, TurnedDownIsGone, Checked,
                StoreProgress
  <2> QED
    BY <2>1, <2>2, <2>3, <2>4, <2>5
<1>5. CASE Erase
  <2>1. TypeOK'
    BY <1>5 DEF Erase, TypeOK, Pc, Value
  <2>2. VersionVouches' /\ VersionKnown'
    BY <1>5 DEF Erase, TypeOK, VersionVouches, VersionKnown, Running, Complete,
                SavedKnown
  <2>3. StoreProgress'
    BY <1>5 DEF Erase, TypeOK, StoreProgress
  <2>4. StoredStays' /\ SavedKnown'
    BY <1>5 DEF Erase, TypeOK, StoredStays, SavedKnown, NothingSaved,
                VersionVouches, VersionKnown, Running, Complete
  <2>5. SoftApChecked'
    BY <1>5 DEF Erase, TypeOK, SoftApChecked, TurnedDownIsGone, Checked, StoreProgress
  <2> QED
    BY <2>1, <2>2, <2>3, <2>4, <2>5
<1>6. CASE EraseEnds
  <2>1. TypeOK'
    <3>1. ram' \in [Setting -> Value] /\ i' \in 1..Len(Table)
      <4>1. ram \in [Setting -> Value] /\ "default" \in Value
        BY DEF TypeOK, Value
      <4>2. ResetData(ram) \in [Setting -> Value]
        BY <4>1 DEF ResetData
      <4> QED
        BY <1>6, <4>2 DEF EraseEnds
    <3>2. err' \in BOOLEAN
      <4>1. err' = err \/ err' = TRUE
        BY <1>6, Zenon DEF EraseEnds
      <4> QED
        BY <4>1, Zenon DEF TypeOK
    <3> QED
      BY <1>6, <3>1, <3>2 DEF EraseEnds, TypeOK, Pc
  <2>2. VersionVouches' /\ VersionKnown'
    BY <1>6 DEF EraseEnds, ResetData, NoData, TypeOK, VersionVouches,
                VersionKnown, Running, Complete, SavedKnown
  <2>3. StoreProgress'
    BY <1>6 DEF EraseEnds, ResetData, NoData, TypeOK, StoreProgress
  <2>4. StoredStays' /\ SavedKnown'
    BY <1>6 DEF EraseEnds, ResetData, NoData, TypeOK, StoredStays, SavedKnown,
                NothingSaved, VersionVouches, VersionKnown, Running, Complete
  <2>5. SoftApChecked'
    BY <1>6 DEF EraseEnds, ResetData, NoData, TypeOK, SoftApChecked, TurnedDownIsGone,
                Checked, StoreProgress
  <2> QED
    BY <2>1, <2>2, <2>3, <2>4, <2>5
<1>7. CASE \E m \in Image : Exchange(m)
  <2>1. TypeOK'
    BY <1>7 DEF Exchange, NoData, TypeOK, Pc, Value
  <2>2. VersionVouches' /\ VersionKnown'
    BY <1>7 DEF Exchange, NoData, TypeOK, VersionVouches, VersionKnown, Running,
                Complete, SavedKnown
  <2>3. StoreProgress'
    BY <1>7 DEF Exchange, NoData, TypeOK, StoreProgress
  <2>4. StoredStays' /\ SavedKnown'
    BY <1>7 DEF Exchange, NoData, TypeOK, StoredStays, SavedKnown, NothingSaved,
                VersionVouches, VersionKnown, Running, Complete
  <2>5. SoftApChecked'
    BY <1>7 DEF Exchange, NoData, TypeOK, SoftApChecked, TurnedDownIsGone, Checked,
                StoreProgress
  <2> QED
    BY <2>1, <2>2, <2>3, <2>4, <2>5
<1> QED
  BY <1>1, <1>2, <1>3, <1>4, <1>5, <1>6, <1>7

\* The row of commits, the version, and loading instead of them
LEMMA FillInv ==
  ASSUME IInv, \/ StoreAll \/ StoreAllFails \/ SetVersion \/ SetVersionFails
               \/ LoadAll
  PROVE  IInv'
<1> USE Settings, StoreAssumption DEF IInv, Absent, boot, hist
<1>1. CASE StoreAll
  <2>1. TypeOK'
    BY <1>1 DEF StoreAll, TypeOK, Pc, Value
  <2>2. VersionVouches' /\ VersionKnown'
    BY <1>1 DEF StoreAll, TypeOK, Value, VersionVouches, VersionKnown, Running,
                Complete, SavedKnown
  <2>3. StoreProgress'
    <3>1. ram' = ram /\ flash' = [flash EXCEPT ![Table[i]] = ram[Table[i]]]
          /\ pc = "store"
      BY <1>1 DEF StoreAll
    <3>2. \A j \in 1..i : flash'[Table[j]] = ram[Table[j]]
      BY <3>1 DEF TypeOK, StoreProgress
    <3>3. CASE i < 4
      BY <1>1, <3>1, <3>2, <3>3 DEF StoreAll, TypeOK, StoreProgress
    <3>4. CASE i = 4
      <4>1. \A k \in Setting : flash'[k] = ram[k]
        BY <3>2, <3>4, Covered
      <4>2. flash' = ram'
        BY <3>1, <4>1 DEF TypeOK
      <4> QED
        BY <1>1, <3>4, <4>2 DEF StoreAll, StoreProgress
    <3> QED
      BY <3>3, <3>4 DEF TypeOK
  <2>4. StoredStays' /\ SavedKnown'
    BY <1>1 DEF StoreAll, TypeOK, StoredStays, SavedKnown, NothingSaved,
                VersionVouches, VersionKnown, Running, Complete
  <2>5. SoftApChecked'
    BY <1>1 DEF StoreAll, TypeOK, SoftApChecked, TurnedDownIsGone, Checked,
                StoreProgress
  <2> QED
    BY <2>1, <2>2, <2>3, <2>4, <2>5
<1>2. CASE StoreAllFails
  <2>1. TypeOK'
    BY <1>2 DEF StoreAllFails, TypeOK, Pc, Value
  <2>2. VersionVouches' /\ VersionKnown'
    BY <1>2 DEF StoreAllFails, TypeOK, VersionVouches, VersionKnown, Running,
                Complete, SavedKnown
  <2>3. StoreProgress'
    BY <1>2 DEF StoreAllFails, TypeOK, StoreProgress
  <2>4. StoredStays' /\ SavedKnown'
    BY <1>2 DEF StoreAllFails, TypeOK, StoredStays, SavedKnown, NothingSaved,
                VersionVouches, VersionKnown, Running, Complete
  <2>5. SoftApChecked'
    BY <1>2 DEF StoreAllFails, TypeOK, SoftApChecked, TurnedDownIsGone, Checked,
                StoreProgress
  <2> QED
    BY <2>1, <2>2, <2>3, <2>4, <2>5
<1>3. CASE SetVersion
  <2>1. TypeOK'
    BY <1>3 DEF SetVersion, StoreProgress, TypeOK, Pc, Value
  <2>2. VersionVouches' /\ VersionKnown'
    <3>1. Complete \/ (err /\ suspect)
      BY <1>3 DEF SetVersion, StoreProgress, TypeOK, Value, Complete
    <3> QED
      BY <1>3, <3>1 DEF SetVersion, TypeOK, VersionVouches, VersionKnown,
                        Running,
                      Complete
  <2>3. StoreProgress'
    BY <1>3 DEF SetVersion, StoreProgress, TypeOK, StoreProgress
  <2>4. StoredStays' /\ SavedKnown'
    BY <1>3 DEF SetVersion, StoreProgress, TypeOK, StoredStays, SavedKnown,
                NothingSaved, VersionVouches, VersionKnown, Running, Complete
  <2>5. SoftApChecked'
    BY <1>3 DEF SetVersion, StoreProgress, TypeOK, SoftApChecked, TurnedDownIsGone,
                Checked, StoreProgress
  <2> QED
    BY <2>1, <2>2, <2>3, <2>4, <2>5
<1>4. CASE SetVersionFails
  <2>1. TypeOK'
    BY <1>4 DEF SetVersionFails, StoreProgress, TypeOK, Pc, Value
  <2>2. VersionVouches' /\ VersionKnown'
    <3>1. Complete \/ (err /\ suspect)
      BY <1>4 DEF SetVersionFails, StoreProgress, TypeOK, Value, Complete
    <3> QED
      BY <1>4, <3>1 DEF SetVersionFails, TypeOK, VersionVouches, VersionKnown,
                        Running,
                      Complete
  <2>3. StoreProgress'
    BY <1>4 DEF SetVersionFails, StoreProgress, TypeOK, StoreProgress
  <2>4. StoredStays' /\ SavedKnown'
    BY <1>4 DEF SetVersionFails, StoreProgress, TypeOK, StoredStays, SavedKnown,
                NothingSaved, VersionVouches, VersionKnown, Running, Complete
  <2>5. SoftApChecked'
    BY <1>4 DEF SetVersionFails, StoreProgress, TypeOK, SoftApChecked, TurnedDownIsGone,
                Checked, StoreProgress
  <2> QED
    BY <2>1, <2>2, <2>3, <2>4, <2>5
<1>5. CASE LoadAll
  <2>1. TypeOK'
    BY <1>5 DEF LoadAll, TypeOK, Pc, Value
  <2>2. VersionVouches' /\ VersionKnown'
    BY <1>5 DEF LoadAll, TypeOK, VersionVouches, VersionKnown, Running, Complete,
                SavedKnown
  <2>3. StoreProgress'
    BY <1>5 DEF LoadAll, TypeOK, StoreProgress
  <2>4. StoredStays' /\ SavedKnown'
    BY <1>5 DEF LoadAll, TypeOK, StoredStays, SavedKnown, NothingSaved,
                VersionVouches, VersionKnown, Running, Complete
  <2>5. SoftApChecked'
    <3>1. "soft_ap" \in Setting /\ pc' = "setup" /\ flash' = flash
      BY <1>5 DEF LoadAll
    <3>2. ~err' => ram'["soft_ap"] = flash["soft_ap"] /\ flash["soft_ap"] # Absent
      <4>1. PICK failed \in SUBSET Setting :
              /\ \A k \in Setting : flash[k] = Absent => k \in failed
              /\ ram' = [k \in Setting |-> IF k \in failed THEN ram[k] ELSE flash[k]]
              /\ err' = (err \/ failed # {})
        BY <1>5 DEF LoadAll
      <4>2. ~err' => failed = {}
        BY <4>1 DEF TypeOK
      <4> QED
        BY <3>1, <4>1, <4>2
    <3> QED
      BY <3>1, <3>2 DEF SoftApChecked, TurnedDownIsGone, Checked
  <2> QED
    BY <2>1, <2>2, <2>3, <2>4, <2>5
<1> QED
  BY <1>1, <1>2, <1>3, <1>4, <1>5

\* The callers, each of which stores a good value or none
LEMMA CallerInv ==
  ASSUME IInv, \/ DevcfgInit \/ StationBoot \/ SoftApInit \/ InitFinish
               \/ RecvCustomData \/ ProvisionSuccess \/ ScaleTare \/ WebBody
  PROVE  IInv'
<1> USE Settings
<1>1. ASSUME pc \in Running, pc' \in Running \ {"setup"}, flash' = flash,
             vers' = vers, boot' = boot, hist' = hist, ram' \in [Setting -> Value],
             err' \in BOOLEAN, err => err'
      PROVE  IInv'
  <2>1. TypeOK'
    BY <1>1 DEF IInv, TypeOK, boot, hist, Running, Pc
  <2>2. VersionVouches' /\ VersionKnown' /\ StoreProgress'
    BY <1>1 DEF IInv, VersionVouches, VersionKnown, StoreProgress, Running,
                Complete, boot, hist
  <2>3. StoredStays' /\ SavedKnown' /\ SoftApChecked'
    BY <1>1 DEF IInv, StoredStays, SavedKnown, NothingSaved, SoftApChecked,
                TurnedDownIsGone, Running, boot, hist
  <2> QED
    BY <2>1, <2>2, <2>3 DEF IInv
<1>2. \A l \in Loaded("dev") : l.val \in Value /\ l.failed \in BOOLEAN
  <2>1. ram["dev"] \in Value /\ (flash["dev"] # Absent => flash["dev"] \in Value)
    BY DEF IInv, TypeOK
  <2>2. ASSUME NEW l \in Loaded("dev")
        PROVE  \/ l = [val |-> ram["dev"], failed |-> TRUE]
               \/ /\ flash["dev"] # Absent
                  /\ l = [val |-> flash["dev"], failed |-> FALSE]
    BY <2>2, Zenon DEF Loaded
  <2>3. ASSUME NEW l \in Loaded("dev")
        PROVE  l.val \in Value /\ l.failed \in BOOLEAN
    <3>1. CASE l = [val |-> ram["dev"], failed |-> TRUE]
      BY <2>1, <3>1
    <3>2. CASE /\ flash["dev"] # Absent
               /\ l = [val |-> flash["dev"], failed |-> FALSE]
      BY <2>1, <3>2
    <3> QED
      BY <2>2, <2>3, <3>1, <3>2
  <2> QED
    BY <2>3
<1>3. \A k \in Setting, v \in Value : [ram EXCEPT ![k] = v] \in [Setting -> Value]
  BY DEF IInv, TypeOK
<1>4. ram \in [Setting -> Value] /\ err \in BOOLEAN
  BY DEF IInv, TypeOK
<1>5. {"set", "set_long", "done", "done_long", "changed", "short", "long"} \subseteq Value
  BY DEF Value
<1>6. CASE DevcfgInit
  BY <1>5, <1>6, StoreInv DEF DevcfgInit, Running
<1>7. CASE StationBoot
  BY <1>1, <1>4, <1>7 DEF StationBoot, Running
<1>8. CASE SoftApInit
  <2>1. CASE PowerOff
    BY <2>1, OffInv
  <2>2. CASE ~PowerOff
    BY <1>1, <1>4, <1>8, <2>2 DEF SoftApInit, Running
  <2> QED
    BY <2>1, <2>2
<1>9. CASE InitFinish
  BY <1>1, <1>2, <1>3, <1>4, <1>9 DEF InitFinish, Running
<1>10. CASE RecvCustomData
  <2>1. pc \in Running /\ pc' \in Running \ {"setup"}
    BY <1>10 DEF RecvCustomData, Running
  <2>2. CASE \E v \in {"set", "set_long"} : Store("dev", v)
    BY <1>5, <2>1, <2>2, StoreInv
  <2>3. CASE ~\E v \in {"set", "set_long"} : Store("dev", v)
    BY <1>1, <1>2, <1>3, <1>4, <1>10, <2>1, <2>3 DEF RecvCustomData, hist
  <2> QED
    BY <2>2, <2>3
<1>11. CASE ProvisionSuccess
  BY <1>5, <1>11, StoreInv DEF ProvisionSuccess, Running
<1>12. CASE ScaleTare
  BY <1>5, <1>12, StoreInv DEF ScaleTare, Running
<1>13. CASE WebBody
  <2>1. CASE PowerOff
    BY <2>1, OffInv
  <2>2. CASE ~PowerOff
    <3>1. pc \in Running /\ pc' \in Running \ {"setup"}
      BY <1>13, <2>2 DEF WebBody, Running
    <3>2. CASE WebProperties
      BY <1>5, <3>1, <3>2, StoreInv DEF WebProperties
    <3>3. CASE WebSystem("changed")
      BY <1>5, <3>1, <3>3, StoreInv DEF WebSystem, Checked
    <3>4. CASE WebSystem("long")
      BY <1>5, <3>1, <3>4, StoreInv DEF WebSystem, Checked
    <3>5. CASE WebSystem("short")
      BY <1>1, <1>3, <1>4, <1>5, <3>1, <3>5 DEF WebSystem
    <3> QED
      BY <1>13, <2>2, <3>2, <3>3, <3>4, <3>5 DEF WebBody
  <2> QED
    BY <2>1, <2>2
<1> QED
  BY <1>6, <1>7, <1>8, <1>9, <1>10, <1>11, <1>12, <1>13

LEMMA StutterInv == ASSUME IInv, UNCHANGED vars PROVE IInv'
  BY DEF vars, boot, hist, IInv, TypeOK, VersionVouches, StoredStays,
         VersionKnown, StoreProgress, SoftApChecked, SavedKnown, TurnedDownIsGone,
         NothingSaved, Complete

LEMMA NextInv == ASSUME IInv, [Next]_vars PROVE IInv'
  BY OpenInv, FillInv, CallerInv, OffInv, StutterInv DEF Next, PowerLoss

LEMMA Invariant == Spec => []IInv
<1>1. IInv /\ [Next]_vars => IInv'
  BY NextInv
<1> QED
  BY <1>1, InitInv, PTL DEF Spec

-----------------------------------------------------------------------------
\* Every reachable state of the settings store is well typed.
THEOREM TypeCorrect == Spec => []TypeOK
<1>1. IInv => TypeOK
  BY DEF IInv
<1> QED
  BY <1>1, Invariant, PTL

\* The version in flash vouches for the settings: whatever step of
\* sys_nvs_init a power failure cut short.
THEOREM InitialisationIsSafe == Spec => []VersionVouches
<1>1. IInv => VersionVouches
  BY DEF IInv
<1> QED
  BY <1>1, Invariant, PTL

\* A setting stored by a caller stays, over restarts and updates that keep the
\* version.
THEOREM NothingForgotten == Spec => []StoredStays
<1>1. IInv => StoredStays
  BY DEF IInv
<1> QED
  BY <1>1, Invariant, PTL

\* No boot without errors finds a soft-AP name or password that the form turned
\* down: it is never stored, and no other store takes it along.
THEOREM TurnedDownNeverStored == Spec => []TurnedDownIsGone
<1>1. IInv => TurnedDownIsGone
  BY DEF IInv, SoftApChecked
<1> QED
  BY <1>1, Invariant, PTL

\* A boot that records no error has in RAM what is in flash.
THEOREM NoErrorMeansSame == Spec => RamIsFlash
<1>1. ASSUME IInv, [Next]_vars, pc # "setup", pc' = "setup", ~err'
      PROVE  ram' = flash'
  <2>1. CASE SetVersion
    BY <1>1, <2>1 DEF SetVersion, boot, IInv, StoreProgress
  <2>2. CASE LoadAll
    BY <1>1, <2>2 DEF LoadAll, IInv, TypeOK
  <2>3. SetVersion \/ LoadAll
    BY <1>1 DEF Next, vars, PowerOn, PowerLoss, PowerOff, Exchange, OpenOk,
            OpenFails, ReadVersion, Erase, EraseEnds, StoreAll, StoreAllFails,
            SetVersionFails, DevcfgInit, StationBoot, SoftApInit, InitFinish,
            RecvCustomData, ProvisionSuccess, ScaleTare, WebBody
  <2> QED
    BY <2>1, <2>2, <2>3
<1>2. IInv /\ [Next]_vars =>
        [pc # "setup" /\ pc' = "setup" /\ ~err' => ram' = flash']_vars
  BY <1>1
<1> QED
  BY <1>2, Invariant, PTL DEF Spec, RamIsFlash

-----------------------------------------------------------------------------
(* What holds of the calls, the queues and the task in every state.        *)

InCall(t) == stage[t] \in {"lock", "send", "wait", "relock"}

\* The call of t is not in the queue yet.
Asking(t) == stage[t] \in {"lock", "send", "relock"}

MutexInv == \A t \in Task : mutex = t <=> stage[t] \in {"send", "wait", "relock"}

CallInv ==
  \A t \in Task :
    /\ InCall(t) => call[t] \in Request /\ call[t].task = t /\ call[t].id \in 1..calls
    /\ stage[t] = "wait" => call[t].api.waits

\* A request whose caller waits, and the command to end, are the last ones in
\* the queue; of one task, an earlier call is queued before a later one.
LastCmd == \A m \in 1..Len(exe_que) :
  exe_que[m] = Cmd => m = Len(exe_que) /\ \E t \in Task : stage[t] = "ended"

Queued1(m) ==
  exe_que[m] # Cmd =>
    /\ exe_que[m].id \in 1..calls
    /\ exe_que[m].api.waits =>
         /\ m = Len(exe_que) /\ stage[exe_que[m].task] = "wait"
         /\ call[exe_que[m].task] = exe_que[m]
    /\ Asking(exe_que[m].task) => exe_que[m].id < call[exe_que[m].task].id
    /\ \A j \in m + 1..Len(exe_que) :
         exe_que[j] # Cmd /\ exe_que[j].task = exe_que[m].task => exe_que[m].id < exe_que[j].id

QueueInv == LastCmd /\ \A m \in 1..Len(exe_que) : Queued1(m)

\* The task that runs a request whose caller waits has nothing else to do.
RunInv ==
  step = "reply" =>
    /\ running \in Request /\ running.id \in 1..calls /\ result.id = running.id
    /\ running.api.waits => /\ exe_que = <<>> /\ stage[running.task] = "wait"
                            /\ call[running.task] = running

\* A result in the queue is for the one that waits for it.
ResultInv ==
  result_que # <<>> =>
    /\ exe_que = <<>>
    /\ \E t \in Task :
         \/ stage[t] = "wait" /\ step = "receive" /\ result_que[1].id = call[t].id
         \/ stage[t] = "ended" /\ step = "gone" /\ result_que[1] = TaskEnd

EndInv ==
  /\ \A t, u \in Task : stage[t] \in {"end", "ended"} /\ u # t => stage[u] = "idle"
  /\ ~alive => /\ step = "gone" /\ exe_que = <<>> /\ result_que = <<>>
               /\ \A t \in Task : stage[t] = "idle"

DInv ==
  /\ DTypeOK
  /\ MutexInv /\ CallInv /\ QueueInv /\ RunInv /\ ResultInv /\ EndInv

-----------------------------------------------------------------------------
(* What is in the queue is a request or the command.                       *)

LEMMA Messages ==
  /\ Cmd \notin Request /\ NoCall \notin Request
  /\ \A c \in Request : c # Cmd /\ c.type = "exe" /\ c.task \in Task /\ c.id \in Nat
  /\ \A c \in Request \cup {Cmd} : c.type = "cmd" <=> c = Cmd
  /\ \A c \in Request \cup {Cmd} : c # Cmd => c \in Request
<1>1. Cmd.type = "cmd" /\ NoCall.type = "none" /\ \A c \in Request : c.type = "exe"
  BY DEF Cmd, NoCall, Request
<1> QED BY <1>1 DEF Request

LEMMA AddToQueue ==
  ASSUME NEW S, NEW q \in Seq(S), NEW c \in S
  PROVE  /\ Append(q, c) \in Seq(S) /\ Len(Append(q, c)) = Len(q) + 1
         /\ Append(q, c) # <<>> /\ Append(q, c)[Len(q) + 1] = c
         /\ \A m \in 1..Len(q) : Append(q, c)[m] = q[m]
OBVIOUS

LEMMA TakeFromQueue ==
  ASSUME NEW S, NEW q \in Seq(S), q # <<>>
  PROVE  /\ Head(q) = q[1] /\ q[1] \in S /\ Len(q) \in Nat /\ Len(q) >= 1
         /\ Tail(q) \in Seq(S) /\ Len(Tail(q)) = Len(q) - 1
         /\ \A m \in 1..Len(q) - 1 : Tail(q)[m] = q[m + 1]
OBVIOUS

LEMMA OnlyOne ==
  ASSUME NEW S, NEW c \in S
  PROVE  /\ <<c>> \in Seq(S) /\ Len(<<c>>) <= 1 /\ <<c>> # <<>> /\ <<c>>[1] = c
         /\ <<>> \in Seq(S) /\ Len(<<>>) <= 1
         /\ Append(<<>>, c) = <<c>>
OBVIOUS

LEMMA OneInQueue ==
  ASSUME NEW S, NEW q \in Seq(S), Len(q) <= 1, q # <<>>
  PROVE  Tail(q) = <<>> /\ Len(q) = 1
<1>1. Tail(q) = <<>>
  OBVIOUS
<1>2. Len(q) \in Nat /\ Len(q) >= 1
  BY TakeFromQueue
<1>3. \A n \in Nat : n >= 1 /\ n <= 1 => n = 1
  OBVIOUS
<1> QED BY <1>1, <1>2, <1>3, Zenon

-----------------------------------------------------------------------------
(* The callers.                                                            *)

LEMMA DInitInv == DInit => DInv
<1> SUFFICES ASSUME DInit PROVE DInv
  OBVIOUS
<1>1. TaskEnd \in Result /\ NoValue \in Nat
  BY DEF TaskEnd, Result, NoValue
<1>2. DTypeOK
  BY <1>1, DispatcherAssumption DEF DInit, DTypeOK
<1>3. MutexInv /\ CallInv /\ QueueInv /\ RunInv /\ ResultInv /\ EndInv
  BY DispatcherAssumption DEF DInit, MutexInv, CallInv, InCall, QueueInv, LastCmd, RunInv, ResultInv, EndInv
<1> QED BY <1>2, <1>3 DEF DInv

\* Nothing in the queue is touched.
LEMMA SameQueue ==
  ASSUME DInv, exe_que' = exe_que, calls' \in Nat, calls <= calls',
         \A t \in Task : stage[t] = "ended" => stage'[t] = "ended",
         \A t \in Task : stage[t] = "wait" => stage'[t] = "wait" /\ call'[t] = call[t],
         \A t \in Task : stage'[t] \in {"lock", "send", "relock"} =>
           \/ stage[t] \in {"lock", "send", "relock"} /\ call'[t] = call[t]
           \/ call'[t].id \in Nat /\ call'[t].id > calls
  PROVE  QueueInv'
<1>1. calls \in Nat /\ exe_que \in Seq(Request \cup {Cmd})
  BY DEF DInv, DTypeOK
<1>2. LastCmd'
  BY DEF DInv, QueueInv, LastCmd
<1>3. ASSUME NEW m \in 1..Len(exe_que) PROVE Queued1(m)'
  <2>1. Queued1(m) /\ exe_que[m] \in Request \cup {Cmd}
    BY <1>1 DEF DInv, QueueInv
  <2> SUFFICES ASSUME exe_que[m] # Cmd PROVE Queued1(m)'
    BY DEF Queued1
  <2> DEFINE u == exe_que[m].task
  <2>2. u \in Task /\ exe_que[m].id \in 1..calls
    BY <2>1, Messages DEF Queued1
  <2>3. exe_que[m].id \in 1..calls'
    BY <1>1, <2>2
  <2>4. exe_que[m].api.waits =>
          m = Len(exe_que) /\ stage'[u] = "wait" /\ call'[u] = exe_que[m]
    BY <2>1, <2>2 DEF Queued1
  <2>5. ASSUME stage'[u] \in {"lock", "send", "relock"}
        PROVE  exe_que[m].id < call'[u].id
    <3> HIDE DEF u
    <3>1. CASE stage[u] \in {"lock", "send", "relock"} /\ call'[u] = call[u]
      BY <2>1, <3>1 DEF Queued1, Asking, u
    <3>2. CASE call'[u].id \in Nat /\ call'[u].id > calls
      BY <1>1, <2>2, <3>2, Messages, SMT
    <3> QED BY <2>2, <2>5, <3>1, <3>2
  <2>6. \A j \in m + 1..Len(exe_que) :
          exe_que[j] # Cmd /\ exe_que[j].task = u => exe_que[m].id < exe_que[j].id
    BY <2>1 DEF Queued1
  <2> QED BY <2>3, <2>4, <2>5, <2>6 DEF Queued1, Asking
<1> QED BY <1>2, <1>3 DEF QueueInv

LEMMA CallKeeps ==
  ASSUME DInv, NEW t \in Task, Call(t)
  PROVE  DInv'
<1>1. PICK fn \in Func, api \in Api :
        call' = [call EXCEPT ![t] = [type |-> "exe", id |-> calls + 1, task |-> t,
                                     fn |-> fn, api |-> api]]
  BY DEF Call
<1> DEFINE c == [type |-> "exe", id |-> calls + 1, task |-> t, fn |-> fn, api |-> api]
<1>0. /\ calls' = calls + 1 /\ stage' = [stage EXCEPT ![t] = "lock"] /\ alive /\ ~Ending
      /\ UNCHANGED <<exe_que, result_que, mutex, exe_list, running, result, step, alive, nvs>>
      /\ calls < MaxCalls /\ stage[t] = "idle"
  BY DEF Call, queues, worker
<1>2. DTypeOK
  BY DEF DInv
<1>3. c \in Request /\ c.task = t /\ c.id = calls + 1 /\ calls \in Nat
  BY <1>2 DEF Request, DTypeOK
<1>4. call' = [call EXCEPT ![t] = c]
  BY <1>1
<1> HIDE DEF c
<1>5. DTypeOK'
  BY <1>0, <1>2, <1>3, <1>4, DispatcherAssumption DEF DTypeOK
<1>6. MutexInv'
  BY <1>0, <1>2, <1>3, <1>4 DEF DInv, MutexInv, DTypeOK
<1>7. CallInv'
  BY <1>0, <1>2, <1>3, <1>4 DEF DInv, CallInv, InCall, DTypeOK
<1>8. QueueInv'
  BY <1>0, <1>2, <1>3, <1>4, SameQueue DEF DTypeOK
<1>9. RunInv'
  <2>1. step = "reply" => running.task \in Task
    BY Messages DEF DInv, RunInv
  <2> QED BY <1>0, <1>2, <1>3, <1>4, <2>1 DEF DInv, RunInv, DTypeOK
<1>10. ResultInv'
  BY <1>0, <1>2, <1>3, <1>4 DEF DInv, ResultInv, DTypeOK
<1>11. EndInv'
  BY <1>0, <1>2 DEF DInv, EndInv, Ending, DTypeOK
<1> QED BY <1>5, <1>6, <1>7, <1>8, <1>9, <1>10, <1>11 DEF DInv

LEMMA LockKeeps ==
  ASSUME DInv, NEW t \in Task, Lock(t)
  PROVE  DInv'
<1>0. /\ stage[t] = "lock" /\ mutex = NoTask /\ mutex' = t /\ stage' = [stage EXCEPT ![t] = "send"]
      /\ UNCHANGED <<exe_que, result_que, call, exe_list, running, result, step, alive, nvs, calls>>
  BY DEF Lock, queues, worker
<1>1. DTypeOK /\ calls \in Nat
  BY DEF DInv, DTypeOK
<1>2. DTypeOK'
  BY <1>0, <1>1 DEF DTypeOK
<1>3. MutexInv'
  BY <1>0, <1>1, DispatcherAssumption DEF DInv, MutexInv, DTypeOK
<1>4. CallInv'
  BY <1>0, <1>1 DEF DInv, CallInv, InCall, DTypeOK
<1>5. QueueInv'
  BY <1>0, <1>1, SameQueue DEF DTypeOK
<1>6. RunInv'
  <2>1. step = "reply" => running.task \in Task
    BY Messages DEF DInv, RunInv
  <2> QED BY <1>0, <1>1, <2>1 DEF DInv, RunInv, DTypeOK
<1>7. ResultInv'
  BY <1>0, <1>1 DEF DInv, ResultInv, DTypeOK
<1>8. EndInv'
  BY <1>0, <1>1 DEF DInv, EndInv, DTypeOK
<1> QED BY <1>2, <1>3, <1>4, <1>5, <1>6, <1>7, <1>8 DEF DInv

\* A request joins the queue.
LEMMA SendKeeps ==
  ASSUME DInv, NEW t \in Task, Send(t)
  PROVE  DInv'
<1>n. PICK n \in Nat : n = Len(exe_que)
  BY DEF DInv, DTypeOK
<1>0. /\ stage[t] = "send" /\ n < Size /\ exe_que' = Append(exe_que, call[t])
      /\ UNCHANGED <<result_que, exe_list, running, result, step, alive, nvs, calls>>
      /\ \/ call[t].api.waits /\ stage' = [stage EXCEPT ![t] = "wait"] /\ UNCHANGED <<mutex, call>>
         \/ ~call[t].api.waits /\ mutex' = NoTask /\ stage' = [stage EXCEPT ![t] = "idle"]
            /\ call' = [call EXCEPT ![t] = NoCall]
  BY <1>n DEF Send, Room, Sent, Unlock, Return, worker
<1>1. /\ DTypeOK /\ calls \in Nat /\ n \in Nat /\ mutex = t /\ alive
      /\ exe_que \in Seq(Request \cup {Cmd}) /\ stage \in [Task -> {"idle", "lock", "send", "wait", "relock", "end", "ended"}]
      /\ \A u \in Task \ {t} : stage[u] \in {"idle", "lock"}
  BY <1>0 DEF DInv, DTypeOK, EndInv, MutexInv
<1>2. call[t] \in Request /\ call[t].task = t /\ call[t].id \in 1..calls /\ call[t] # Cmd
  BY <1>0, Messages DEF DInv, CallInv, InCall
<1>3. /\ exe_que' \in Seq(Request \cup {Cmd}) /\ Len(exe_que') = n + 1
      /\ exe_que' # <<>> /\ exe_que'[n + 1] = call[t] /\ \A m \in 1..n : exe_que'[m] = exe_que[m]
  BY <1>0, <1>1, <1>2, <1>n, AddToQueue
<1>4. result_que = <<>>
  BY <1>0, <1>1 DEF DInv, ResultInv
<1>5. ~(step = "reply" /\ running.api.waits)
  <2>1. step = "reply" => running.task \in Task
    BY Messages DEF DInv, RunInv
  <2> QED BY <1>0, <1>1, <2>1 DEF DInv, RunInv
<1>6. DTypeOK'
  <2>1. Len(exe_que') <= Size
    BY <1>0, <1>3, DispatcherAssumption
  <2>2. /\ stage' \in [Task -> {"idle", "lock", "send", "wait", "relock", "end", "ended"}]
        /\ call' \in [Task -> Request \cup {NoCall}] /\ mutex' \in Task \cup {NoTask}
    BY <1>0, <1>1 DEF DTypeOK
  <2> QED BY <1>0, <1>1, <1>3, <2>1, <2>2 DEF DTypeOK
<1>7. MutexInv' /\ CallInv' /\ EndInv'
  <2>1. MutexInv'
    BY <1>0, <1>1, DispatcherAssumption DEF DInv, MutexInv, DTypeOK
  <2>2. CallInv'
    BY <1>0, <1>1, <1>2 DEF DInv, CallInv, InCall, DTypeOK
  <2>3. EndInv'
    BY <1>0, <1>1 DEF DInv, EndInv
  <2> QED BY <2>1, <2>2, <2>3
<1>8. \A m \in 1..n : /\ exe_que[m] \in Request /\ exe_que[m] # Cmd /\ Queued1(m)
                      /\ exe_que[m].task \in Task /\ ~exe_que[m].api.waits
  <2> SUFFICES ASSUME NEW m \in 1..n
               PROVE  /\ exe_que[m] \in Request /\ exe_que[m] # Cmd /\ Queued1(m)
                      /\ exe_que[m].task \in Task /\ ~exe_que[m].api.waits
    OBVIOUS
  <2>1. exe_que[m] \in Request \cup {Cmd} /\ Queued1(m)
    BY <1>1, <1>n DEF DInv, QueueInv
  <2>2. exe_que[m] # Cmd
    BY <1>0, <1>1, <1>n DEF DInv, QueueInv, LastCmd
  <2>3. exe_que[m] \in Request /\ exe_que[m].task \in Task
    BY <2>1, <2>2, Messages
  <2>4. ~exe_que[m].api.waits
    BY <1>0, <1>1, <2>1, <2>2, <2>3 DEF Queued1
  <2> QED BY <2>1, <2>2, <2>3, <2>4
<1>9. LastCmd'
  BY <1>2, <1>3, <1>8, <1>1 DEF LastCmd
<1>10. ASSUME NEW m \in 1..n PROVE Queued1(m)'
  <2> DEFINE c == exe_que[m]
  <2>1. /\ c # Cmd /\ Queued1(m) /\ c.task \in Task /\ ~c.api.waits /\ exe_que'[m] = c
    BY <1>3, <1>8
  <2>2. c.id \in 1..calls'
    BY <1>0, <2>1 DEF Queued1
  <2>3. c.task = t => c.id < call[t].id
    BY <1>0, <2>1 DEF Queued1, Asking
  <2>4. ASSUME NEW j \in m + 1..n + 1, exe_que'[j] # Cmd, exe_que'[j].task = c.task
        PROVE  c.id < exe_que'[j].id
    <3>1. CASE j = n + 1
      BY <1>2, <1>3, <2>3, <2>4, <3>1
    <3>2. CASE j \in m + 1..n
      <4>1. exe_que'[j] = exe_que[j]
        BY <1>1, <1>3, <3>2
      <4> QED BY <1>n, <2>1, <2>4, <3>2, <4>1 DEF Queued1
    <3> QED BY <1>1, <2>4, <3>1, <3>2
  <2>5. ASSUME stage'[c.task] \in {"lock", "send", "relock"} PROVE c.id < call'[c.task].id
    <3>1. c.task # t
      BY <1>0, <1>1, <2>5
    <3>2. stage'[c.task] = stage[c.task] /\ call'[c.task] = call[c.task]
      BY <1>0, <1>1, <2>1, <3>1 DEF DTypeOK
    <3> QED BY <2>1, <2>5, <3>2 DEF Queued1, Asking
  <2> HIDE DEF c
  <2> QED BY <1>3, <2>1, <2>2, <2>4, <2>5 DEF Queued1, Asking
<1>11. Queued1(n + 1)'
  <2> DEFINE c == call[t]
  <2>1. exe_que'[n + 1] = c /\ c.task = t /\ c.id \in 1..calls' /\ n + 1 = Len(exe_que')
    BY <1>0, <1>2, <1>3
  <2>2. c.api.waits => stage'[t] = "wait" /\ call'[t] = c
    BY <1>0, <1>1
  <2>3. stage'[t] \in {"idle", "wait"}
    BY <1>0, <1>1
  <2>4. \A j \in n + 1 + 1..Len(exe_que') : FALSE
    BY <1>3
  <2> HIDE DEF c
  <2> QED BY <2>1, <2>2, <2>3, <2>4 DEF Queued1, Asking
<1>12. RunInv'
  BY <1>0, <1>5 DEF DInv, RunInv
<1>13. ResultInv'
  BY <1>0, <1>4 DEF ResultInv
<1>14. QueueInv'
  <2>1. \A m \in 1..n + 1 : m \in 1..n \/ m = n + 1
    BY <1>n
  <2> QED BY <1>3, <1>9, <1>10, <1>11, <2>1 DEF QueueInv
<1> QED BY <1>6, <1>7, <1>12, <1>13, <1>14 DEF DInv

\* The queue stays full.
LEMMA TimeoutKeeps ==
  ASSUME DInv, NEW t \in Task, SendTimesOut(t)
  PROVE  DInv'
<1>0. /\ stage[t] = "send"
      /\ UNCHANGED <<exe_que, result_que, exe_list, running, result, step, alive, nvs, calls>>
      /\ \/ stage' = [stage EXCEPT ![t] = "relock"] /\ UNCHANGED <<mutex, call>>
         \/ mutex' = NoTask /\ stage' = [stage EXCEPT ![t] = "idle"]
            /\ call' = [call EXCEPT ![t] = NoCall]
  BY DEF SendTimesOut, GiveUp, Unlock, Return, worker, queues
<1>1. /\ DTypeOK /\ calls \in Nat /\ mutex = t /\ alive
      /\ \A u \in Task \ {t} : stage[u] \in {"idle", "lock"}
  BY <1>0 DEF DInv, DTypeOK, EndInv, MutexInv
<1>2. DTypeOK'
  BY <1>0, <1>1 DEF DTypeOK
<1>3. MutexInv'
  BY <1>0, <1>1, DispatcherAssumption DEF DInv, MutexInv, DTypeOK
<1>4. CallInv'
  BY <1>0, <1>1 DEF DInv, CallInv, InCall, DTypeOK
<1>5. QueueInv'
  BY <1>0, <1>1, SameQueue DEF DTypeOK
<1>6. RunInv' /\ ResultInv'
  <2>1. step = "reply" => running.task \in Task
    BY Messages DEF DInv, RunInv
  <2>2. RunInv'
    BY <1>0, <1>1, <2>1 DEF DInv, RunInv, DTypeOK
  <2>3. ResultInv'
    BY <1>0, <1>1 DEF DInv, ResultInv, DTypeOK
  <2> QED BY <2>2, <2>3
<1>7. EndInv'
  BY <1>0, <1>1 DEF DInv, EndInv, DTypeOK
<1> QED BY <1>2, <1>3, <1>4, <1>5, <1>6, <1>7 DEF DInv

\* The result is for the task that takes it.
LEMMA ResultIsMine ==
  ASSUME DInv, NEW t \in Task, stage[t] = "wait", result_que # <<>>
  PROVE  /\ exe_que = <<>> /\ step = "receive" /\ Head(result_que) = result_que[1]
         /\ Head(result_que) \in Result /\ Head(result_que).id = call[t].id
         /\ Tail(result_que) = <<>>
<1>1. result_que \in Seq(Result) /\ Len(result_que) <= 1
  BY DEF DInv, DTypeOK
<1>2. Head(result_que) = result_que[1] /\ result_que[1] \in Result
  BY <1>1, TakeFromQueue
<1>3. Tail(result_que) = <<>>
  BY <1>1, OneInQueue
<1>4. PICK u \in Task :
         \/ stage[u] = "wait" /\ step = "receive" /\ result_que[1].id = call[u].id
         \/ stage[u] = "ended" /\ step = "gone" /\ result_que[1] = TaskEnd
  BY DEF DInv, ResultInv
<1>5. u = t
  BY <1>4 DEF DInv, MutexInv, EndInv
<1> QED BY <1>2, <1>3, <1>4, <1>5 DEF DInv, ResultInv

LEMMA ReceiveKeeps ==
  ASSUME DInv, NEW t \in Task, Receive(t)
  PROVE  DInv'
<1>0. /\ stage[t] = "wait" /\ result_que # <<>> /\ result_que' = Tail(result_que)
      /\ mutex' = NoTask /\ stage' = [stage EXCEPT ![t] = "idle"] /\ call' = [call EXCEPT ![t] = NoCall]
      /\ UNCHANGED <<exe_que, exe_list, running, result, step, alive, nvs, calls>>
  BY DEF Receive, Unlock, Return, worker
<1>1. /\ DTypeOK /\ mutex = t /\ \A u \in Task \ {t} : stage[u] \notin {"send", "wait", "relock"}
  BY <1>0 DEF DInv, DTypeOK, MutexInv
<1>2. exe_que = <<>> /\ step = "receive" /\ result_que' = <<>>
  BY <1>0, ResultIsMine
<1>3. DTypeOK'
  BY <1>0, <1>1, <1>2 DEF DTypeOK
<1>4. MutexInv'
  BY <1>0, <1>1, DispatcherAssumption DEF DInv, MutexInv, DTypeOK
<1>5. CallInv'
  BY <1>0, <1>1 DEF DInv, CallInv, InCall, DTypeOK
<1>6. QueueInv' /\ RunInv' /\ ResultInv'
  BY <1>0, <1>2 DEF QueueInv, LastCmd, RunInv, ResultInv
<1>7. EndInv'
  BY <1>0, <1>1, <1>2 DEF DInv, EndInv, DTypeOK
<1> QED BY <1>3, <1>4, <1>5, <1>6, <1>7 DEF DInv

-----------------------------------------------------------------------------
(* The dispatcher task.                                                    *)

LEMMA RunKeeps ==
  ASSUME DInv, Run
  PROVE  DInv'
<1> DEFINE c == Head(exe_que)
<1>n. PICK n \in Nat : n = Len(exe_que)
  BY DEF DInv, DTypeOK
<1>0. /\ step = "receive" /\ exe_que # <<>> /\ exe_que' = Tail(exe_que) /\ running' = c
      /\ UNCHANGED <<mutex, stage, call, exe_list, alive, calls>>
      /\ \/ /\ c.type = "cmd" /\ step' = "gone" /\ result' = TaskEnd
            /\ result_que' = Append(result_que, TaskEnd) /\ UNCHANGED nvs
         \/ /\ c.type = "exe" /\ step' = "reply" /\ UNCHANGED result_que
            /\ Fails(c) \/ NvsSet(c) \/ NvsGet(c) \/ NvsErase(c)
  BY DEF Run, callers
<1>1. DTypeOK /\ calls \in Nat /\ exe_que \in Seq(Request \cup {Cmd}) /\ nvs \in Nat
  BY DEF DInv, DTypeOK
<1>2. /\ c = exe_que[1] /\ c \in Request \cup {Cmd} /\ n >= 1
      /\ exe_que' \in Seq(Request \cup {Cmd}) /\ Len(exe_que') = n - 1
      /\ \A m \in 1..n - 1 : exe_que'[m] = exe_que[m + 1]
  BY <1>0, <1>1, <1>n, TakeFromQueue
<1> HIDE DEF c
<1>3. Queued1(1) /\ (c = Cmd => n = 1 /\ \E t \in Task : stage[t] = "ended")
  BY <1>n, <1>2 DEF DInv, QueueInv, LastCmd
<1>4. result_que = <<>>
  BY <1>0 DEF DInv, ResultInv
<1>5. n = 1 => exe_que' = <<>>
  BY <1>2
<1>6. TaskEnd \in Result
  BY DEF TaskEnd, Result, NoValue
<1>7. c # Cmd => /\ c \in Request /\ c.id \in 1..calls
                 /\ c.api.waits => exe_que' = <<>> /\ stage[c.task] = "wait" /\ call[c.task] = c
  BY <1>n, <1>2, <1>3, <1>5, Messages DEF Queued1
<1>8. c.type = "exe" => c # Cmd /\ result' \in Result /\ result'.id = c.id /\ nvs' \in Nat
  <2> SUFFICES ASSUME c.type = "exe"
               PROVE  c # Cmd /\ result' \in Result /\ result'.id = c.id /\ nvs' \in Nat
    OBVIOUS
  <2>1. c # Cmd
    BY DEF Cmd
  <2>2. c.id \in Nat
    BY <1>7, <2>1, Messages
  <2>3. Fails(c) \/ NvsSet(c) \/ NvsGet(c) \/ NvsErase(c)
    BY <1>0
  <2> QED BY <1>1, <2>1, <2>2, <2>3 DEF Fails, NvsSet, NvsGet, NvsErase, Answer, Stored, Result, NoValue
<1>9. DTypeOK'
  <2>1. Len(exe_que') <= Size
    BY <1>1, <1>2, <1>n, DispatcherAssumption DEF DTypeOK
  <2>2. result_que' \in Seq(Result) /\ Len(result_que') <= 1
    <3>1. result_que' = <<>> \/ result_que' = <<TaskEnd>>
      BY <1>0, <1>4, <1>6, OnlyOne
    <3> QED BY <1>6, <3>1, OnlyOne, Zenon
  <2>3. result' \in Result /\ nvs' \in Nat /\ step' \in {"receive", "reply", "gone"}
    BY <1>0, <1>1, <1>6, <1>8
  <2> QED BY <1>0, <1>1, <1>2, <2>1, <2>2, <2>3 DEF DTypeOK
<1>10. MutexInv' /\ CallInv'
  BY <1>0 DEF DInv, MutexInv, CallInv, InCall
<1>11. LastCmd'
  <2> SUFFICES ASSUME NEW m \in 1..n - 1, exe_que'[m] = Cmd
               PROVE  m = n - 1 /\ \E t \in Task : stage[t] = "ended"
    BY <1>0, <1>2 DEF LastCmd
  <2>1. exe_que[m + 1] = Cmd /\ m + 1 \in 1..n
    BY <1>2
  <2>2. m + 1 = n /\ \E t \in Task : stage[t] = "ended"
    BY <1>n, <2>1 DEF DInv, QueueInv, LastCmd
  <2> QED BY <2>2
<1>12. ASSUME NEW m \in 1..n - 1 PROVE Queued1(m)'
  <2>1. m + 1 \in 1..n /\ exe_que'[m] = exe_que[m + 1]
    BY <1>2
  <2>2. Queued1(m + 1)
    BY <1>n, <2>1 DEF DInv, QueueInv
  <2> DEFINE x == exe_que[m + 1]
  <2> SUFFICES ASSUME x # Cmd PROVE Queued1(m)'
    BY <2>1 DEF Queued1
  <2>3. /\ x.id \in 1..calls
        /\ x.api.waits => m + 1 = n /\ stage[x.task] = "wait" /\ call[x.task] = x
        /\ stage[x.task] \in {"lock", "send", "relock"} => x.id < call[x.task].id
        /\ \A j \in m + 1 + 1..n : exe_que[j] # Cmd /\ exe_que[j].task = x.task => x.id < exe_que[j].id
    BY <1>n, <2>2 DEF Queued1, Asking
  <2>4. ASSUME NEW j \in m + 1..n - 1, exe_que'[j] # Cmd, exe_que'[j].task = x.task
        PROVE  x.id < exe_que'[j].id
    <3>1. exe_que'[j] = exe_que[j + 1] /\ j + 1 \in m + 1 + 1..n
      BY <1>2
    <3> QED BY <2>3, <2>4, <3>1
  <2>5. x.api.waits => m = n - 1 /\ stage[x.task] = "wait" /\ call[x.task] = x
    BY <2>3
  <2> HIDE DEF x
  <2> QED BY <1>0, <1>2, <2>1, <2>3, <2>4, <2>5 DEF Queued1, Asking, x
<1>13. QueueInv'
  BY <1>2, <1>11, <1>12 DEF QueueInv
<1>14. RunInv' /\ ResultInv'
  <2>1. CASE c.type = "cmd" /\ step' = "gone" /\ result_que' = Append(result_que, TaskEnd)
    <3>1. c = Cmd
      BY <1>2, <2>1, Messages
    <3>2. exe_que' = <<>> /\ result_que' = <<TaskEnd>> /\ \E t \in Task : stage[t] = "ended"
      BY <1>3, <1>4, <1>5, <2>1, <3>1
    <3>3. result_que'[1] = TaskEnd
      BY <3>2
    <3>4. ResultInv'
      BY <1>0, <2>1, <3>2, <3>3 DEF ResultInv
    <3> QED BY <2>1, <3>4 DEF RunInv
  <2>2. CASE c.type = "exe" /\ step' = "reply" /\ UNCHANGED result_que
    BY <1>0, <1>4, <1>7, <1>8, <2>2 DEF RunInv, ResultInv
  <2> QED BY <1>0, <2>1, <2>2
<1>15. EndInv'
  BY <1>0 DEF DInv, EndInv
<1> QED BY <1>9, <1>10, <1>13, <1>14, <1>15 DEF DInv

LEMMA ReplyKeeps ==
  ASSUME DInv, Reply
  PROVE  DInv'
<1>0. /\ step = "reply" /\ step' = "receive" /\ running' = NoCall /\ result' = TaskEnd
      /\ UNCHANGED <<exe_que, mutex, stage, call, exe_list, alive, nvs, calls>>
      /\ \/ ~running.api.waits /\ UNCHANGED result_que
         \/ running.api.waits /\ result_que' = IF result_que = <<>> THEN <<result>> ELSE result_que
  BY DEF Reply, callers
<1>1. /\ DTypeOK /\ result \in Result /\ running \in Request /\ running.id \in 1..calls
      /\ result.id = running.id
      /\ running.api.waits => /\ exe_que = <<>> /\ stage[running.task] = "wait"
                              /\ call[running.task] = running
  BY <1>0 DEF DInv, DTypeOK, RunInv
<1>2. result_que = <<>>
  BY <1>0 DEF DInv, ResultInv
<1>3. TaskEnd \in Result
  BY DEF TaskEnd, Result, NoValue
<1>4. DTypeOK'
  <2>1. result_que' = <<>> \/ result_que' = <<result>>
    BY <1>0, <1>2
  <2>2. result_que' \in Seq(Result) /\ Len(result_que') <= 1
    BY <1>1, <2>1, OnlyOne, Zenon
  <2> QED BY <1>0, <1>1, <1>3, <2>2 DEF DTypeOK
<1>5. MutexInv' /\ CallInv' /\ EndInv'
  BY <1>0 DEF DInv, MutexInv, CallInv, InCall, EndInv
<1>6. QueueInv'
  BY <1>0, SameQueue DEF DInv, DTypeOK
<1>7. RunInv'
  BY <1>0 DEF RunInv
<1>8. ResultInv'
  <2>1. CASE UNCHANGED result_que
    BY <1>2, <2>1 DEF ResultInv
  <2>2. CASE running.api.waits /\ result_que' = <<result>>
    <3>1. result_que'[1] = result /\ running.task \in Task
      BY <1>1, <2>2, Messages
    <3> QED BY <1>0, <1>1, <2>2, <3>1 DEF ResultInv
  <2> QED BY <1>0, <1>2, <2>1, <2>2
<1> QED BY <1>4, <1>5, <1>6, <1>7, <1>8 DEF DInv

-----------------------------------------------------------------------------
(* The end.                                                                *)

LEMMA DestroyKeeps ==
  ASSUME DInv, NEW t \in Task, Destroy(t)
  PROVE  DInv'
<1>0. /\ alive /\ \A u \in Task : stage[u] = "idle"
      /\ stage' = [stage EXCEPT ![t] = "end"]
      /\ UNCHANGED <<exe_que, result_que, mutex, call, exe_list, running, result, step, alive, nvs, calls>>
  BY DEF Destroy, queues, worker
<1>1. DTypeOK /\ calls \in Nat
  BY DEF DInv, DTypeOK
<1>2. DTypeOK'
  BY <1>0, <1>1 DEF DTypeOK
<1>3. MutexInv' /\ CallInv'
  BY <1>0, <1>1 DEF DInv, MutexInv, CallInv, InCall, DTypeOK
<1>4. QueueInv'
  BY <1>0, <1>1, SameQueue DEF DTypeOK
<1>5. RunInv'
  <2>1. step = "reply" => running.task \in Task
    BY Messages DEF DInv, RunInv
  <2> QED BY <1>0, <1>1, <2>1 DEF DInv, RunInv, DTypeOK
<1>6. ResultInv'
  BY <1>0, <1>1 DEF DInv, ResultInv, DTypeOK
<1>7. EndInv'
  BY <1>0, <1>1 DEF DInv, EndInv, DTypeOK
<1> QED BY <1>2, <1>3, <1>4, <1>5, <1>6, <1>7 DEF DInv

LEMMA EndSendKeeps ==
  ASSUME DInv, NEW t \in Task, EndSend(t)
  PROVE  DInv'
<1>n. PICK n \in Nat : n = Len(exe_que)
  BY DEF DInv, DTypeOK
<1>0. /\ stage[t] = "end" /\ n < Size /\ exe_que' = Append(exe_que, Cmd)
      /\ stage' = [stage EXCEPT ![t] = "ended"]
      /\ UNCHANGED <<result_que, mutex, call, exe_list, running, result, step, alive, nvs, calls>>
  BY <1>n DEF EndSend, Room, worker
<1>1. /\ DTypeOK /\ alive /\ exe_que \in Seq(Request \cup {Cmd})
      /\ stage \in [Task -> {"idle", "lock", "send", "wait", "relock", "end", "ended"}]
      /\ \A u \in Task \ {t} : stage[u] = "idle"
  BY <1>0 DEF DInv, DTypeOK, EndInv
<1>2. /\ exe_que' \in Seq(Request \cup {Cmd}) /\ Len(exe_que') = n + 1
      /\ exe_que'[n + 1] = Cmd /\ \A m \in 1..n : exe_que'[m] = exe_que[m]
  BY <1>0, <1>1, <1>n, AddToQueue
<1>3. result_que = <<>>
  BY <1>0, <1>1 DEF DInv, ResultInv
<1>4. ~(step = "reply" /\ running.api.waits)
  <2>1. step = "reply" => running.task \in Task
    BY Messages DEF DInv, RunInv
  <2> QED BY <1>0, <1>1, <2>1 DEF DInv, RunInv
<1>5. DTypeOK'
  <2>1. Len(exe_que') <= Size
    BY <1>0, <1>2, DispatcherAssumption
  <2> QED BY <1>0, <1>1, <1>2, <2>1 DEF DTypeOK
<1>6. MutexInv' /\ CallInv' /\ EndInv'
  BY <1>0, <1>1 DEF DInv, MutexInv, CallInv, InCall, EndInv
<1>7. \A m \in 1..n : /\ exe_que[m] # Cmd /\ Queued1(m)
                      /\ exe_que[m].task \in Task /\ ~exe_que[m].api.waits
  <2> SUFFICES ASSUME NEW m \in 1..n
               PROVE  /\ exe_que[m] # Cmd /\ Queued1(m)
                      /\ exe_que[m].task \in Task /\ ~exe_que[m].api.waits
    OBVIOUS
  <2>1. exe_que[m] \in Request \cup {Cmd} /\ Queued1(m)
    BY <1>1, <1>n DEF DInv, QueueInv
  <2>2. exe_que[m] # Cmd
    BY <1>0, <1>1, <1>n DEF DInv, QueueInv, LastCmd
  <2>3. exe_que[m].task \in Task
    BY <2>1, <2>2, Messages
  <2>4. ~exe_que[m].api.waits
    BY <1>0, <1>1, <2>1, <2>2, <2>3 DEF Queued1
  <2> QED BY <2>1, <2>2, <2>3, <2>4
<1>8. LastCmd'
  BY <1>0, <1>1, <1>2, <1>7 DEF LastCmd
<1>9. ASSUME NEW m \in 1..n PROVE Queued1(m)'
  <2> DEFINE c == exe_que[m]
  <2>1. c # Cmd /\ Queued1(m) /\ c.task \in Task /\ ~c.api.waits /\ exe_que'[m] = c
    BY <1>2, <1>7
  <2>2. c.id \in 1..calls'
    BY <1>0, <2>1 DEF Queued1
  <2>3. stage'[c.task] \in {"idle", "ended"}
    BY <1>0, <1>1, <2>1
  <2>4. ASSUME NEW j \in m + 1..n + 1, exe_que'[j] # Cmd, exe_que'[j].task = c.task
        PROVE  c.id < exe_que'[j].id
    <3>1. j \in m + 1..n /\ exe_que'[j] = exe_que[j]
      BY <1>2, <2>4
    <3> QED BY <1>n, <2>1, <2>4, <3>1 DEF Queued1
  <2> HIDE DEF c
  <2> QED BY <1>2, <2>1, <2>2, <2>3, <2>4 DEF Queued1, Asking
<1>10. Queued1(n + 1)'
  BY <1>2 DEF Queued1
<1>11. QueueInv'
  <2>1. \A m \in 1..n + 1 : m \in 1..n \/ m = n + 1
    OBVIOUS
  <2> QED BY <1>2, <1>8, <1>9, <1>10, <2>1 DEF QueueInv
<1>12. RunInv' /\ ResultInv'
  BY <1>0, <1>3, <1>4 DEF DInv, RunInv, ResultInv
<1> QED BY <1>5, <1>6, <1>11, <1>12 DEF DInv

\* The result that ends the dispatcher is that of its task.
LEMMA TaskEndIsMine ==
  ASSUME DInv, NEW t \in Task, stage[t] = "ended", result_que # <<>>
  PROVE  exe_que = <<>> /\ step = "gone" /\ result_que[1] = TaskEnd /\ Tail(result_que) = <<>>
<1>1. result_que \in Seq(Result) /\ Len(result_que) <= 1
  BY DEF DInv, DTypeOK
<1>2. Tail(result_que) = <<>>
  BY <1>1, OneInQueue
<1>3. PICK u \in Task :
         \/ stage[u] = "wait" /\ step = "receive" /\ result_que[1].id = call[u].id
         \/ stage[u] = "ended" /\ step = "gone" /\ result_que[1] = TaskEnd
  BY DEF DInv, ResultInv
<1>4. u = t
  BY <1>3 DEF DInv, EndInv
<1> QED BY <1>2, <1>3, <1>4 DEF DInv, ResultInv

LEMMA EndReceiveKeeps ==
  ASSUME DInv, NEW t \in Task, EndReceive(t)
  PROVE  DInv'
<1>0. /\ stage[t] = "ended" /\ result_que # <<>> /\ result_que' = Tail(result_que)
      /\ stage' = [stage EXCEPT ![t] = "idle"] /\ call' = [call EXCEPT ![t] = NoCall]
      /\ alive' = FALSE
      /\ UNCHANGED <<exe_que, mutex, exe_list, running, result, step, nvs, calls>>
  BY DEF EndReceive, TaskEnded, Return, worker
<1>1. /\ DTypeOK /\ \A u \in Task \ {t} : stage[u] = "idle"
  BY <1>0 DEF DInv, EndInv
<1>2. exe_que = <<>> /\ step = "gone" /\ result_que' = <<>>
  BY <1>0, TaskEndIsMine
<1>3. DTypeOK'
  <2>1. /\ stage' \in [Task -> {"idle", "lock", "send", "wait", "relock", "end", "ended"}]
        /\ call' \in [Task -> Request \cup {NoCall}] /\ alive' \in BOOLEAN
    BY <1>0, <1>1 DEF DTypeOK
  <2>2. result_que' \in Seq(Result) /\ Len(result_que') <= 1
    BY <1>2
  <2> QED BY <1>0, <1>1, <2>1, <2>2 DEF DTypeOK
<1>4. MutexInv' /\ CallInv'
  BY <1>0, <1>1 DEF DInv, MutexInv, CallInv, InCall, DTypeOK
<1>5. QueueInv' /\ RunInv' /\ ResultInv'
  BY <1>0, <1>2 DEF QueueInv, LastCmd, RunInv, ResultInv
<1>6. EndInv'
  BY <1>0, <1>1, <1>2 DEF DInv, EndInv, DTypeOK
<1> QED BY <1>3, <1>4, <1>5, <1>6 DEF DInv

LEMMA OtherKeeps ==
  ASSUME DInv, (\E fn \in Index : RegExeFunc(fn)) \/ UNCHANGED dvars
  PROVE  DInv'
<1>1. /\ exe_list' \subseteq Index
      /\ UNCHANGED <<exe_que, result_que, mutex, stage, call, running, result, step, alive, nvs, calls>>
  BY DEF DInv, DTypeOK, RegExeFunc, dvars, queues, callers, worker
<1>2. DTypeOK'
  BY <1>1 DEF DInv, DTypeOK
<1>3. MutexInv' /\ CallInv' /\ RunInv' /\ ResultInv' /\ EndInv'
  BY <1>1 DEF DInv, MutexInv, CallInv, InCall, RunInv, ResultInv, EndInv
<1>4. QueueInv'
  BY <1>1, SameQueue DEF DInv, DTypeOK
<1> QED BY <1>2, <1>3, <1>4 DEF DInv

LEMMA DInvariant == DSpec => []DInv
<1>1. DInv /\ [DNext]_dvars => DInv'
  BY CallKeeps, LockKeeps, SendKeeps, TimeoutKeeps, ReceiveKeeps, EndSendKeeps, EndReceiveKeeps,
     DestroyKeeps, RunKeeps, ReplyKeeps, OtherKeeps DEF DNext, Step, Worker
<1> QED BY <1>1, DInitInv, PTL DEF DSpec

\* The two queues never hold more than FreeRTOS gave them room for, and when
\* esp_dispatcher_destroy frees them the dispatcher task is gone, both are empty
\* and nobody has the mutex.
THEOREM QueuesKept == DSpec => []QueuesHold
<1>1. DInv => QueuesHold
  <2> SUFFICES ASSUME DInv, ~alive PROVE mutex = NoTask
    BY DEF DInv, EndInv, QueuesHold, EndsEmpty
  <2> QED BY DEF DInv, DTypeOK, EndInv, MutexInv
<1> QED BY <1>1, DInvariant, PTL

-----------------------------------------------------------------------------
(* The calls of one store.                                                 *)

Key(c) == [id |-> c.id, task |-> c.task, fn |-> c.fn]
Asked  == {Key(c) : c \in Pending \cup Queued}
Done   == Results \ {TaskEnd}


AskedOf(p, cs, q) ==
  {Key(cs[t]) : t \in {u \in Task : p[u] \in {"lock", "send", "relock"}}}
  \cup {Key(q[m]) : m \in {j \in 1..Len(q) : q[j] # Cmd}}

DoneOf(q, s, r) ==
  ({q[m] : m \in 1..Len(q)} \cup (IF s = "reply" THEN {r} ELSE {})) \ {TaskEnd}

LEMMA AbstractState ==
  ASSUME DInv, DInv'
  PROVE  /\ Asked = AskedOf(stage, call, exe_que) /\ Asked' = AskedOf(stage', call', exe_que')
         /\ Done = DoneOf(result_que, step, result)
         /\ Done' = DoneOf(result_que', step', result')
<1>1. /\ DOMAIN exe_que = 1..Len(exe_que) /\ DOMAIN exe_que' = 1..Len(exe_que')
      /\ DOMAIN result_que = 1..Len(result_que) /\ DOMAIN result_que' = 1..Len(result_que')
  BY DEF DInv, DTypeOK
<1>2. Asked = AskedOf(stage, call, exe_que)
  BY <1>1 DEF Asked, AskedOf, Pending, Queued
<1>3. Asked' = AskedOf(stage', call', exe_que')
  BY <1>1 DEF Asked, AskedOf, Pending, Queued
<1>4. Done = DoneOf(result_que, step, result) /\ Done' = DoneOf(result_que', step', result')
  BY <1>1 DEF Done, Results, DoneOf
<1> QED BY <1>2, <1>3, <1>4

\* The steps of NvsCalls
LEMMA AbstractSteps ==
  /\ \A c \in Asked' : c \notin Asked /\ Asked' = Asked \cup {c} /\ UNCHANGED <<Done, nvs, last>>
       => Calls!Next
  /\ \A c \in Asked : /\ Asked' = Asked \ {c} /\ UNCHANGED <<Done, nvs>>
                      /\ last' = [id |-> c.id, err |-> "refused", data |-> NoValue]
       => Calls!Next
  /\ \A d \in Done : Done' = Done \ {d} /\ last' = d /\ UNCHANGED <<Asked, nvs>> => Calls!Next
  /\ \A c \in Asked, d \in Done' : /\ d.id = c.id /\ \A b \in Asked : b.task = c.task => c.id <= b.id
                                   /\ Asked' = Asked \ {c} /\ Done' = Done \cup {d}
                                   /\ Calls!Effect(c, d) /\ UNCHANGED last
       => Calls!Next
  /\ UNCHANGED <<Asked, Done, nvs, last>> => UNCHANGED Calls!vars
<1>1. \A c \in Asked' : c \notin Asked /\ Asked' = Asked \cup {c} /\ UNCHANGED <<Done, nvs, last>>
       => Calls!Next
  BY DEF Calls!Next, Calls!Call, Asked, Done, Key
<1>2. \A c \in Asked : /\ Asked' = Asked \ {c} /\ UNCHANGED <<Done, nvs>>
                      /\ last' = [id |-> c.id, err |-> "refused", data |-> NoValue]
       => Calls!Next
  BY DEF Calls!Next, Calls!Refuse, Asked, Done, Key, NoValue, Calls!NoValue
<1>3. \A d \in Done : Done' = Done \ {d} /\ last' = d /\ UNCHANGED <<Asked, nvs>> => Calls!Next
  BY DEF Calls!Next, Calls!Answer, Asked, Done, Key
<1>4. \A c \in Asked, d \in Done' : /\ d.id = c.id /\ \A b \in Asked : b.task = c.task => c.id <= b.id
                                   /\ Asked' = Asked \ {c} /\ Done' = Done \cup {d}
                                   /\ Calls!Effect(c, d) /\ UNCHANGED last
       => Calls!Next
  BY DEF Calls!Next, Calls!CarryOut, Asked, Done, Key
<1>5. UNCHANGED <<Asked, Done, nvs, last>> => UNCHANGED Calls!vars
  BY DEF Calls!vars, Asked, Done, Key
<1> QED BY <1>1, <1>2, <1>3, <1>4, <1>5

\* What is asked is told apart by the task and the number of the call.
LEMMA AskedOnce ==
  ASSUME DInv
  PROVE  /\ \A k \in AskedOf(stage, call, exe_que) : k.id \in 1..calls
         /\ \A t \in Task : Asking(t) =>
              /\ \A u \in Task : Asking(u) /\ Key(call[u]) = Key(call[t]) => u = t
              /\ \A m \in 1..Len(exe_que) : exe_que[m] # Cmd => Key(exe_que[m]) # Key(call[t])
<1>1. exe_que \in Seq(Request \cup {Cmd})
  BY DEF DInv, DTypeOK
<1>2. ASSUME NEW m \in 1..Len(exe_que), exe_que[m] # Cmd
      PROVE  /\ exe_que[m] \in Request /\ exe_que[m].id \in 1..calls /\ exe_que[m].task \in Task
             /\ Asking(exe_que[m].task) => exe_que[m].id < call[exe_que[m].task].id
  <2>1. exe_que[m] \in Request \cup {Cmd} /\ Queued1(m)
    BY <1>1 DEF DInv, QueueInv
  <2> QED BY <1>2, <2>1, Messages DEF Queued1
<1>3. \A t \in Task : Asking(t) => call[t].id \in 1..calls /\ call[t].task = t
  BY DEF Asking, DInv, CallInv, InCall
<1>4. \A k \in AskedOf(stage, call, exe_que) : k.id \in 1..calls
  BY <1>2, <1>3 DEF AskedOf, Key, Asking
<1>5. ASSUME NEW t \in Task, Asking(t), NEW u \in Task, Asking(u), Key(call[u]) = Key(call[t])
      PROVE  u = t
  BY <1>3, <1>5 DEF Key
<1>6. ASSUME NEW t \in Task, Asking(t), NEW m \in 1..Len(exe_que), exe_que[m] # Cmd,
             Key(exe_que[m]) = Key(call[t])
      PROVE  FALSE
  <2>1. exe_que[m].id = call[t].id /\ exe_que[m].task = t
    BY <1>3, <1>6 DEF Key
  <2> QED BY <1>2, <1>3, <1>6, <2>1
<1> QED BY <1>4, <1>5, <1>6

\* Steps that neither change what is asked nor give an answer.
LEMMA QuietSteps ==
  ASSUME DInv, DInv', UNCHANGED <<nvs, last>>, result_que' = result_que, step' = step, result' = result,
         AskedOf(stage', call', exe_que') = AskedOf(stage, call, exe_que)
  PROVE  UNCHANGED Calls!vars
<1>1. UNCHANGED <<Asked, Done, nvs, last>>
  BY AbstractState DEF DoneOf
<1> QED BY <1>1, AbstractSteps

\* The call of a task that asks no longer is one less asked.
LEMMA CallMapped ==
  ASSUME DInv, DInv', NEW t \in Task, Call(t)
  PROVE  Calls!Next
<1>1. PICK c : /\ call' = [call EXCEPT ![t] = c] /\ c.id = calls + 1 /\ c.task = t
  <2>1. PICK fn \in Func, api \in Api :
          call' = [call EXCEPT ![t] = [type |-> "exe", id |-> calls + 1, task |-> t,
                                       fn |-> fn, api |-> api]]
    BY DEF Call
  <2> DEFINE c == [type |-> "exe", id |-> calls + 1, task |-> t, fn |-> fn, api |-> api]
  <2>2. c.id = calls + 1 /\ c.task = t /\ call' = [call EXCEPT ![t] = c]
    BY <2>1
  <2> HIDE DEF c
  <2> QED BY <2>2
<1>2. /\ stage' = [stage EXCEPT ![t] = "lock"] /\ stage[t] = "idle" /\ stage \in [Task -> {"idle", "lock", "send", "wait", "relock", "end", "ended"}]
      /\ UNCHANGED <<exe_que, result_que, result, step, nvs, last>> /\ calls \in Nat
      /\ call \in [Task -> Request \cup {NoCall}]
  BY DEF Call, queues, worker, DInv, DTypeOK
<1>3. Asked' = Asked \cup {Key(c)}
  <2>1. AskedOf(stage', call', exe_que) = AskedOf(stage, call, exe_que) \cup {Key(c)}
    BY <1>1, <1>2 DEF AskedOf
  <2> QED BY <1>2, <2>1, AbstractState
<1>4. Key(c) \notin Asked
  <2>1. Key(c).id = calls + 1
    BY <1>1 DEF Key
  <2> QED BY <1>2, <2>1, AskedOnce, AbstractState
<1>5. Done' = Done
  BY <1>2, AbstractState
<1> QED BY <1>2, <1>3, <1>4, <1>5, AbstractSteps

LEMMA SendMapped ==
  ASSUME DInv, DInv', NEW t \in Task, Send(t)
  PROVE  UNCHANGED Calls!vars
<1>n. PICK n \in Nat : n = Len(exe_que)
  BY DEF DInv, DTypeOK
<1>1. /\ stage[t] = "send" /\ exe_que' = Append(exe_que, call[t])
      /\ UNCHANGED <<result_que, step, result, nvs, last>>
      /\ stage'[t] \notin {"lock", "send", "relock"}
      /\ \A u \in Task : u # t => stage'[u] = stage[u] /\ call'[u] = call[u]
      /\ exe_que \in Seq(Request \cup {Cmd})
  BY DEF Send, Sent, Unlock, Return, worker, DInv, DTypeOK
<1>2. call[t] \in Request /\ call[t] # Cmd
  BY <1>1, Messages DEF DInv, CallInv, InCall
<1>3. /\ Len(exe_que') = n + 1 /\ exe_que'[n + 1] = call[t]
      /\ \A m \in 1..n : exe_que'[m] = exe_que[m]
  BY <1>n, <1>1, <1>2, AddToQueue
<1>4. ASSUME NEW k \in AskedOf(stage', call', exe_que')
      PROVE  k \in AskedOf(stage, call, exe_que)
  <2>1. CASE \E u \in Task : stage'[u] \in {"lock", "send", "relock"} /\ k = Key(call'[u])
    BY <1>1, <2>1 DEF AskedOf
  <2>2. CASE \E m \in 1..n + 1 : exe_que'[m] # Cmd /\ k = Key(exe_que'[m])
    <3>1. PICK m \in 1..n + 1 : exe_que'[m] # Cmd /\ k = Key(exe_que'[m])
      BY <2>2
    <3>2. CASE m = n + 1
      BY <1>1, <1>3, <3>1, <3>2 DEF AskedOf
    <3>3. CASE m \in 1..n
      BY <1>n, <1>3, <3>1, <3>3 DEF AskedOf
    <3> QED BY <3>2, <3>3
  <2> QED BY <1>3, <1>4, <2>1, <2>2 DEF AskedOf
<1>5. ASSUME NEW k \in AskedOf(stage, call, exe_que)
      PROVE  k \in AskedOf(stage', call', exe_que')
  <2>1. CASE \E u \in Task : stage[u] \in {"lock", "send", "relock"} /\ k = Key(call[u])
    <3>1. PICK u \in Task : stage[u] \in {"lock", "send", "relock"} /\ k = Key(call[u])
      BY <2>1
    <3>2. CASE u = t
      <4>1. n + 1 \in 1..Len(exe_que') /\ exe_que'[n + 1] # Cmd /\ k = Key(exe_que'[n + 1])
        BY <1>2, <1>3, <3>1, <3>2
      <4> QED BY <4>1 DEF AskedOf
    <3>3. CASE u # t
      BY <1>1, <3>1, <3>3 DEF AskedOf
    <3> QED BY <3>2, <3>3
  <2>2. CASE \E m \in 1..n : exe_que[m] # Cmd /\ k = Key(exe_que[m])
    <3>1. PICK m \in 1..n : exe_que[m] # Cmd /\ k = Key(exe_que[m])
      BY <2>2
    <3>2. m \in 1..Len(exe_que') /\ exe_que'[m] # Cmd /\ k = Key(exe_que'[m])
      BY <1>3, <3>1
    <3> QED BY <3>2 DEF AskedOf
  <2> QED BY <1>n, <1>5, <2>1, <2>2 DEF AskedOf
<1> QED BY <1>1, <1>4, <1>5, QuietSteps

LEMMA TimeoutMapped ==
  ASSUME DInv, DInv', NEW t \in Task, SendTimesOut(t)
  PROVE  Calls!Next \/ UNCHANGED Calls!vars
<1>1. /\ stage[t] = "send" /\ UNCHANGED <<exe_que, result_que, result, step, nvs>>
      /\ \A u \in Task : u # t => stage'[u] = stage[u] /\ call'[u] = call[u]
      /\ \/ stage'[t] = "relock" /\ UNCHANGED <<call, last>>
         \/ stage'[t] = "idle" /\ Refused(call[t])
  BY DEF SendTimesOut, GiveUp, Unlock, Return, worker, queues, DInv, DTypeOK
<1>2. CASE stage'[t] = "relock" /\ UNCHANGED <<call, last>>
  <2>1. AskedOf(stage', call', exe_que') = AskedOf(stage, call, exe_que)
    BY <1>1, <1>2 DEF AskedOf
  <2> QED BY <1>1, <1>2, <2>1, QuietSteps
<1>3. CASE stage'[t] = "idle" /\ Refused(call[t])
  <2> DEFINE k == Key(call[t])
  <2>1. Asking(t)
    BY <1>1 DEF Asking
  <2>2. k \in AskedOf(stage, call, exe_que)
    BY <2>1 DEF AskedOf, Asking
  <2>3. /\ \A u \in Task : Asking(u) /\ Key(call[u]) = k => u = t
        /\ \A m \in 1..Len(exe_que) : exe_que[m] # Cmd => Key(exe_que[m]) # k
    BY <2>1, AskedOnce
  <2>4. k.id = call[t].id
    BY DEF Key
  <2> HIDE DEF k
  <2>5. AskedOf(stage', call', exe_que') = AskedOf(stage, call, exe_que) \ {k}
    <3>1. ASSUME NEW u \in Task, u # t, Asking(u) PROVE Key(call[u]) # k
      BY <2>3, <3>1
    <3>2. {Key(call'[u]) : u \in {v \in Task : stage'[v] \in {"lock", "send", "relock"}}}
            = {Key(call[u]) : u \in {v \in Task : stage[v] \in {"lock", "send", "relock"}}} \ {k}
      BY <1>1, <1>3, <3>1 DEF Asking, k
    <3>3. {Key(exe_que[m]) : m \in {j \in 1..Len(exe_que) : exe_que[j] # Cmd}} \ {k}
            = {Key(exe_que[m]) : m \in {j \in 1..Len(exe_que) : exe_que[j] # Cmd}}
      BY <2>3
    <3> QED BY <1>1, <3>2, <3>3 DEF AskedOf
  <2>6. k \in Asked /\ Asked' = Asked \ {k} /\ UNCHANGED <<Done, nvs>>
    BY <1>1, <2>2, <2>5, AbstractState
  <2>7. last' = [id |-> k.id, err |-> "refused", data |-> NoValue]
    BY <1>3, <2>4 DEF Refused
  <2> QED BY <2>6, <2>7, AbstractSteps
<1> QED BY <1>1, <1>2, <1>3

LEMMA ReceiveMapped ==
  ASSUME DInv, DInv', NEW t \in Task, Receive(t)
  PROVE  Calls!Next
<1> DEFINE d == Head(result_que)
<1>1. /\ stage[t] = "wait" /\ result_que # <<>> /\ result_que' = Tail(result_que)
      /\ last' = [d EXCEPT !.id = call[t].id]
      /\ stage'[t] = "idle" /\ \A u \in Task : u # t => stage'[u] = stage[u] /\ call'[u] = call[u]
      /\ UNCHANGED <<exe_que, step, result, nvs>>
  BY DEF Receive, Return, worker, DInv, DTypeOK
<1>2. /\ step = "receive" /\ d = result_que[1] /\ d \in Result /\ d.id = call[t].id
      /\ Tail(result_que) = <<>>
  BY <1>1, ResultIsMine
<1>3. call[t].id \in 1..calls
  BY <1>1 DEF DInv, CallInv, InCall
<1>4. last' = d
  BY <1>1, <1>2 DEF Result
<1>5. d # TaskEnd
  BY <1>2, <1>3 DEF TaskEnd
<1>6. Len(result_que) = 1
  BY <1>1, OneInQueue DEF DInv, DTypeOK
<1> HIDE DEF d
<1>7. Done = {d} /\ Done' = {}
  <2>1. result_que' = <<>> /\ step' # "reply" /\ step # "reply"
    BY <1>1, <1>2
  <2>2. DoneOf(result_que, step, result) = {d}
    BY <1>2, <1>5, <1>6, <2>1 DEF DoneOf
  <2>3. DoneOf(result_que', step', result') = {}
    BY <2>1 DEF DoneOf
  <2> QED BY <2>2, <2>3, AbstractState
<1>8. Asked' = Asked
  <2>1. AskedOf(stage', call', exe_que') = AskedOf(stage, call, exe_que)
    BY <1>1 DEF AskedOf
  <2> QED BY <2>1, AbstractState
<1> QED BY <1>1, <1>4, <1>7, <1>8, AbstractSteps

LEMMA RunMapped ==
  ASSUME DInv, DInv', Run
  PROVE  Calls!Next \/ UNCHANGED Calls!vars
<1> DEFINE c == Head(exe_que)
<1>n. PICK n \in Nat : n = Len(exe_que)
  BY DEF DInv, DTypeOK
<1>1. /\ step = "receive" /\ exe_que # <<>> /\ exe_que' = Tail(exe_que)
      /\ UNCHANGED <<stage, call, calls, last>>
      /\ \/ /\ c.type = "cmd" /\ step' = "gone"
            /\ result_que' = Append(result_que, TaskEnd) /\ UNCHANGED nvs
         \/ /\ c.type = "exe" /\ step' = "reply" /\ UNCHANGED result_que
            /\ Fails(c) \/ NvsSet(c) \/ NvsGet(c) \/ NvsErase(c)
  BY DEF Run, callers
<1>2. exe_que \in Seq(Request \cup {Cmd})
  BY DEF DInv, DTypeOK
<1>3. /\ c = exe_que[1] /\ c \in Request \cup {Cmd} /\ n >= 1 /\ Len(exe_que') = n - 1
      /\ \A m \in 1..n - 1 : exe_que'[m] = exe_que[m + 1]
  BY <1>1, <1>2, <1>n, TakeFromQueue
<1> HIDE DEF c
<1>4. result_que = <<>> /\ Len(result_que) = 0
  BY <1>1 DEF DInv, ResultInv
<1>5. Done = {}
  <2>1. DoneOf(result_que, step, result) = {}
    BY <1>1, <1>4 DEF DoneOf
  <2> QED BY <2>1, AbstractState
<1>6. \A k : k \in Asked <=> k \in Asked' \/ (c # Cmd /\ k = Key(c))
  <2>1. \A m \in 1..n : m = 1 \/ (m - 1 \in 1..n - 1 /\ exe_que[m] = exe_que'[m - 1])
    BY <1>3
  <2>2. \A m \in 1..n - 1 : m + 1 \in 1..n /\ exe_que'[m] = exe_que[m + 1]
    BY <1>3
  <2>3. 1 \in 1..n
    BY <1>3
  <2>4. ASSUME NEW k
        PROVE  (\E m \in 1..n : exe_que[m] # Cmd /\ k = Key(exe_que[m]))
                 <=> \/ \E m \in 1..n - 1 : exe_que'[m] # Cmd /\ k = Key(exe_que'[m])
                     \/ c # Cmd /\ k = Key(c)
    BY <1>3, <2>1, <2>2, <2>3
  <2>5. ASSUME NEW k
        PROVE  k \in AskedOf(stage, call, exe_que)
                 <=> k \in AskedOf(stage', call', exe_que') \/ (c # Cmd /\ k = Key(c))
    <3>1. k \in AskedOf(stage, call, exe_que)
            <=> \/ \E t \in Task : stage[t] \in {"lock", "send", "relock"} /\ k = Key(call[t])
                \/ \E m \in 1..n : exe_que[m] # Cmd /\ k = Key(exe_que[m])
      BY <1>n, Zenon DEF AskedOf
    <3>2. k \in AskedOf(stage', call', exe_que')
            <=> \/ \E t \in Task : stage'[t] \in {"lock", "send", "relock"} /\ k = Key(call'[t])
                \/ \E m \in 1..n - 1 : exe_que'[m] # Cmd /\ k = Key(exe_que'[m])
      BY <1>3, Zenon DEF AskedOf
    <3> QED BY <1>1, <2>4, <3>1, <3>2, Zenon
  <2> QED BY <2>5, AbstractState
<1>7. CASE c.type = "cmd" /\ step' = "gone" /\ result_que' = Append(result_que, TaskEnd)
  <2>1. c = Cmd
    BY <1>3, <1>7, Messages
  <2>2. Asked' = Asked
    BY <1>6, <2>1
  <2>3. Done' = {}
    <3>1. Len(result_que') = 1 /\ result_que'[1] = TaskEnd
      BY <1>4, <1>7
    <3>2. DoneOf(result_que', step', result') = {}
      BY <1>7, <3>1 DEF DoneOf
    <3> QED BY <3>2, AbstractState
  <2>4. UNCHANGED <<nvs, last>>
    BY <1>1, <1>7
  <2> QED BY <1>5, <2>2, <2>3, <2>4, AbstractSteps
<1>8. CASE c.type = "exe" /\ step' = "reply" /\ UNCHANGED result_que
  <2> DEFINE k == Key(c)
  <2>1. c # Cmd /\ c \in Request /\ Queued1(1) /\ 1 \in 1..n
    BY <1>n, <1>3, <1>8, Messages DEF DInv, QueueInv
  <2>2. /\ c.id \in 1..calls /\ c.task \in Task
        /\ stage[c.task] \in {"lock", "send", "relock"} => c.id < call[c.task].id
        /\ \A j \in 2..n : exe_que[j] # Cmd /\ exe_que[j].task = c.task => c.id < exe_que[j].id
    BY <1>n, <1>3, <2>1, Messages DEF Queued1, Asking
  <2>3. Fails(c) \/ NvsSet(c) \/ NvsGet(c) \/ NvsErase(c)
    BY <1>1, <1>8
  <2>4. result'.id = c.id /\ result' # TaskEnd
    <3>1. result'.id = c.id
      BY <2>3 DEF Fails, NvsSet, NvsGet, NvsErase, Answer
    <3> QED BY <2>2, <3>1 DEF TaskEnd
  <2>5. Done' = {result'}
    <3>1. DoneOf(result_que', step', result') = {result'}
      BY <1>4, <1>8, <2>4 DEF DoneOf
    <3> QED BY <3>1, AbstractState
  <2>6. k.id = c.id /\ k.task = c.task /\ k.fn = c.fn
    BY DEF Key
  <2>7. \A b \in Asked : b.task = c.task => b = k \/ c.id < b.id
    <3>1. ASSUME NEW t \in Task, stage[t] \in {"lock", "send", "relock"}, Key(call[t]).task = c.task
          PROVE  c.id < Key(call[t]).id
      <4>1. call[t].task = t /\ call[t].task = c.task
        BY <3>1 DEF DInv, CallInv, InCall, Key
      <4> QED BY <2>2, <3>1, <4>1 DEF Key
    <3>2. ASSUME NEW m \in 1..n, exe_que[m] # Cmd, Key(exe_que[m]).task = c.task
          PROVE  Key(exe_que[m]) = k \/ c.id < Key(exe_que[m]).id
      <4>1. CASE m = 1
        BY <1>3, <4>1
      <4>2. CASE m \in 2..n
        BY <2>2, <3>2, <4>2 DEF Key
      <4> QED BY <4>1, <4>2
    <3>3. \A b \in AskedOf(stage, call, exe_que) :
            \/ \E t \in Task : stage[t] \in {"lock", "send", "relock"} /\ b = Key(call[t])
            \/ \E m \in 1..n : exe_que[m] # Cmd /\ b = Key(exe_que[m])
      BY <1>n DEF AskedOf
    <3> QED BY <3>1, <3>2, <3>3, AbstractState
  <2>8. k \notin Asked'
    <3>1. ASSUME NEW t \in Task, stage[t] \in {"lock", "send", "relock"} PROVE Key(call[t]) # k
      <4>1. call[t].task = t /\ call[t].id \in 1..calls
        BY <3>1 DEF DInv, CallInv, InCall
      <4> QED BY <2>2, <3>1, <4>1 DEF Key
    <3>2. ASSUME NEW m \in 1..n - 1, exe_que'[m] # Cmd PROVE Key(exe_que'[m]) # k
      <4>1. m + 1 \in 2..n /\ exe_que'[m] = exe_que[m + 1]
        BY <1>3
      <4>2. exe_que[m + 1].task = c.task => c.id < exe_que[m + 1].id
        BY <2>2, <3>2, <4>1
      <4> QED BY <2>2, <4>1, <4>2 DEF Key
    <3>3. k \notin AskedOf(stage', call', exe_que')
      BY <1>1, <1>3, <3>1, <3>2 DEF AskedOf
    <3> QED BY <3>3, AbstractState
  <2>9. Calls!Effect(k, result')
    BY <2>3, <2>6 DEF Calls!Effect, Fails, NvsSet, NvsGet, NvsErase, Answer, Stored, NoValue, Calls!NoValue
  <2> HIDE DEF k
  <2>10. /\ k \in Asked /\ Asked' = Asked \ {k}
    BY <1>6, <2>1, <2>8 DEF k
  <2>11. \A b \in Asked : b.task = k.task => k.id <= b.id
    BY <2>2, <2>6, <2>7, AskedOnce, AbstractState
  <2> QED BY <1>1, <1>5, <2>4, <2>5, <2>6, <2>9, <2>10, <2>11, AbstractSteps
<1> QED BY <1>1, <1>7, <1>8

LEMMA ReplyMapped ==
  ASSUME DInv, DInv', Reply
  PROVE  Calls!Next \/ UNCHANGED Calls!vars
<1>1. /\ step = "reply" /\ step' = "receive" /\ UNCHANGED <<exe_que, stage, call, nvs>>
      /\ \/ ~running.api.waits /\ last' = result /\ UNCHANGED result_que
         \/ /\ result_que' = IF result_que = <<>> THEN <<result>> ELSE result_que
            /\ UNCHANGED last
  BY DEF Reply, callers
<1>2. result_que = <<>> /\ Len(result_que) = 0
  BY <1>1 DEF DInv, ResultInv
<1>3. result # TaskEnd
  <2>1. running.id \in 1..calls /\ result.id = running.id
    BY <1>1 DEF DInv, RunInv
  <2> QED BY <2>1 DEF TaskEnd
<1>4. Done = {result}
  <2>1. DoneOf(result_que, step, result) = {result}
    BY <1>1, <1>2, <1>3 DEF DoneOf
  <2> QED BY <2>1, AbstractState
<1>5. Asked' = Asked
  BY <1>1, AbstractState
<1>6. CASE last' = result /\ UNCHANGED result_que
  <2>1. DoneOf(result_que', step', result') = {}
    BY <1>1, <1>2, <1>6 DEF DoneOf
  <2> QED BY <1>1, <1>4, <1>5, <1>6, <2>1, AbstractState, AbstractSteps
<1>7. CASE result_que' = <<result>> /\ UNCHANGED last
  <2>1. Len(result_que') = 1 /\ result_que'[1] = result
    BY <1>7
  <2>2. DoneOf(result_que', step', result') = {result}
    BY <1>1, <1>3, <2>1 DEF DoneOf
  <2> QED BY <1>1, <1>4, <1>5, <1>7, <2>2, AbstractState, AbstractSteps
<1> QED BY <1>1, <1>2, <1>6, <1>7

LEMMA EndMapped ==
  ASSUME DInv, DInv', NEW t \in Task, EndSend(t) \/ EndReceive(t) \/ Destroy(t) \/ Lock(t)
  PROVE  UNCHANGED Calls!vars
<1>1. CASE EndSend(t)
  <2>n. PICK n \in Nat : n = Len(exe_que)
    BY DEF DInv, DTypeOK
  <2>1. /\ exe_que' = Append(exe_que, Cmd) /\ stage[t] = "end" /\ stage'[t] = "ended"
        /\ \A u \in Task : u # t => stage'[u] = stage[u]
        /\ UNCHANGED <<call, result_que, step, result, nvs, last>>
        /\ exe_que \in Seq(Request \cup {Cmd})
    BY <1>1 DEF EndSend, worker, DInv, DTypeOK
  <2>2. /\ Len(exe_que') = n + 1 /\ exe_que'[n + 1] = Cmd
        /\ \A m \in 1..n : exe_que'[m] = exe_que[m]
    BY <2>n, <2>1, AddToQueue
  <2>3. {Key(exe_que'[m]) : m \in {j \in 1..n + 1 : exe_que'[j] # Cmd}}
          = {Key(exe_que[m]) : m \in {j \in 1..n : exe_que[j] # Cmd}}
    <3>1. \A m \in 1..n + 1 : m \in 1..n \/ m = n + 1
      OBVIOUS
    <3>2. \A m \in 1..n : m \in 1..n + 1
      OBVIOUS
    <3> QED BY <2>2, <3>1, <3>2
  <2>4. {Key(call'[u]) : u \in {v \in Task : stage'[v] \in {"lock", "send", "relock"}}}
          = {Key(call[u]) : u \in {v \in Task : stage[v] \in {"lock", "send", "relock"}}}
    BY <2>1
  <2>5. AskedOf(stage', call', exe_que') = AskedOf(stage, call, exe_que)
    BY <2>n, <2>2, <2>3, <2>4 DEF AskedOf
  <2> QED BY <2>1, <2>5, QuietSteps
<1>2. CASE EndReceive(t)
  <2>1. /\ stage[t] = "ended" /\ stage'[t] = "idle" /\ result_que # <<>> /\ result_que' = Tail(result_que)
        /\ \A u \in Task : u # t => stage'[u] = stage[u] /\ call'[u] = call[u]
        /\ UNCHANGED <<exe_que, step, result, nvs, last>>
    BY <1>2 DEF EndReceive, TaskEnded, Return, worker, DInv, DTypeOK
  <2>2. step = "gone" /\ result_que[1] = TaskEnd /\ Tail(result_que) = <<>>
    BY <2>1, TaskEndIsMine
  <2>3. Len(result_que) = 1
    BY <2>1, OneInQueue DEF DInv, DTypeOK
  <2>4. Done = {} /\ Done' = {}
    <3>1. DoneOf(result_que, step, result) = {}
      BY <2>2, <2>3 DEF DoneOf
    <3>2. Len(result_que') = 0
      BY <2>1, <2>2
    <3>3. DoneOf(result_que', step', result') = {}
      BY <2>1, <2>2, <3>2 DEF DoneOf
    <3> QED BY <3>1, <3>3, AbstractState
  <2>5. AskedOf(stage', call', exe_que') = AskedOf(stage, call, exe_que)
    BY <2>1 DEF AskedOf
  <2> QED BY <2>1, <2>4, <2>5, AbstractState, AbstractSteps
<1>3. CASE Destroy(t) \/ Lock(t)
  <2>1. /\ \A u \in Task : stage'[u] \in {"lock", "send", "relock"} <=> stage[u] \in {"lock", "send", "relock"}
        /\ UNCHANGED <<exe_que, result_que, call, step, result, nvs, last>>
    BY <1>3 DEF Destroy, Lock, queues, worker, DInv, DTypeOK
  <2>2. AskedOf(stage', call', exe_que') = AskedOf(stage, call, exe_que)
    BY <2>1 DEF AskedOf
  <2> QED BY <2>1, <2>2, QuietSteps
<1> QED BY <1>1, <1>2, <1>3

\* For any tasks, any length of exe_que and any functions registered, the calls
\* of dispatcher and delegate are those of NvsCalls: each step of a caller or of
\* dispatcher_event_task maps to a step of it or to a stutter.
THEOREM CallsAreServed == DSpec => ServesCalls
<1>1. DInit => Calls!Init
  <2> SUFFICES ASSUME DInit PROVE Calls!Init
    OBVIOUS
  <2>1. Pending = {} /\ Queued = {} /\ Results = {} /\ nvs = Calls!NoValue /\ last = TaskEnd
    BY DEF DInit, Pending, Queued, Results, NoValue, Calls!NoValue
  <2> QED BY <2>1 DEF Calls!Init, TaskEnd, NoValue, Calls!NoValue
<1>2. DInv /\ DInv' /\ [DNext]_dvars => [Calls!Next]_Calls!vars
  <2> SUFFICES ASSUME DInv, DInv', [DNext]_dvars PROVE Calls!Next \/ UNCHANGED Calls!vars
    OBVIOUS
  <2>1. CASE (\E fn \in Index : RegExeFunc(fn)) \/ UNCHANGED dvars
    BY <2>1, QuietSteps DEF RegExeFunc, dvars, queues, callers, worker
  <2>2. CASE Worker
    BY <2>2, RunMapped, ReplyMapped DEF Worker
  <2>3. CASE \E t \in Task : Call(t) \/ Lock(t) \/ Step(t) \/ Destroy(t)
    BY <2>3, CallMapped, SendMapped, TimeoutMapped, ReceiveMapped, EndMapped DEF Step
  <2> QED BY <2>1, <2>2, <2>3 DEF DNext
<1> QED BY <1>1, <1>2, DInvariant, PTL DEF DSpec, ServesCalls, Calls!Spec
=============================================================================
