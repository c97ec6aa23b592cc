---------------------------- MODULE SsidManager -----------------------------
(***************************************************************************)
(* The list of known networks in flash, wifi_ssid_manager.c, and the       *)
(* station mode that connects from it, sys_wifi.c.  Saving a network is a  *)
(* row of commits to NVS - the record, one counter after the other, the    *)
(* configuration - and power may fail after each.  In every boot a single  *)
(* task uses the manager: the event task (BluFi and station mode) or the   *)
(* web server's (soft-AP), so calls do not overlap.                        *)
(***************************************************************************)
EXTENDS Integers, FiniteSets

CONSTANTS
  Net,       \* networks that may be saved: records [ssid, pwd]
  NoNet,     \* no network
  Max,       \* WIFI_MAX_STATION_NUM
  Wrap,      \* values of the uint8_t that the eviction scan keeps
  Sights,    \* bound: the sets of names that may be in range at a time
  MaxCnt,    \* bound: no save begins with a counter beyond this
  MaxLoss    \* bound on the power failures in the middle of a save

ASSUME SsidAssumption ==
  /\ Max \in Nat \ {0}
  /\ Wrap \in Nat \ {0}
  /\ MaxCnt \in Nat /\ MaxLoss \in Nat
  /\ NoNet \notin Net
  /\ Sights \subseteq SUBSET {n.ssid : n \in Net}

-----------------------------------------------------------------------------
VARIABLES
  \* flash
  slot,    \* the records KEY0, KEY1, ...: net, cnt, choosen
  num,     \* exsit_ssid_num of MANAGER_CONF: how many of them count
  creds,   \* g_nvs_setting_data.wifi
  \* RAM
  driver,  \* the station configuration the driver was given in this boot
  mode,    \* "off", "setup" (BluFi, web page) or "station"
  op,      \* where wifi_ssid_manager_save is, and its local variables
  link,    \* the station interface in station mode
  \* the world
  range,   \* names of the networks in range in station mode
  \* history
  losses,  \* saves cut short after their first commit
  order,   \* pairs of names kept, the first saved before the second (while
           \* losses = 0)
  last,    \* name of the network saved last without a power failure
  wrapped  \* an eviction scan has met a counter its uint8_t does not hold

hist == <<losses, order, last, wrapped>>
vars == <<slot, num, creds, driver, mode, op, link, range, hist>>

Id       == 0..Max-1
SsidName == {n.ssid : n \in Net}
NoSlot   == [net |-> NoNet, cnt |-> 0, choosen |-> FALSE]
Idle     == [at |-> "none", net |-> NoNet, id |-> 0, num |-> 0, i |-> 0, max |-> 0]

\* The records a reader of MANAGER_CONF sees
Counted   == 0..num-1
Kept      == {slot[i].net : i \in Counted}
Stored(s) == {i \in Counted : slot[i].net.ssid = s}

SlotRec == [net : Net \cup {NoNet}, cnt : Nat, choosen : BOOLEAN]
OpRec   == [at : {"none", "scan", "write", "count", "conf"},
            net : Net \cup {NoNet}, id : Id, num : 0..Max, i : 0..Max,
            max : 0..Wrap-1]

TypeOK ==
  /\ slot \in [Id -> SlotRec]
  /\ num \in 0..Max
  /\ creds \in Net \cup {NoNet}
  /\ driver \in Net \cup {NoNet}
  /\ mode \in {"off", "setup", "station"}
  /\ op \in OpRec
  /\ link \in {"down", "trying", "up"}
  /\ range \in SUBSET SsidName
  /\ losses \in 0..MaxLoss
  /\ wrapped \in BOOLEAN

Init ==
  /\ slot = [i \in Id |-> NoSlot]
  /\ num = 0
  /\ creds = NoNet /\ driver = NoNet
  /\ mode = "off" /\ op = Idle /\ link = "down"
  /\ range = {}
  /\ losses = 0 /\ order = {} /\ last = {} /\ wrapped = FALSE

-----------------------------------------------------------------------------
\* nvs_reset_choosen_flag: of the records that count
ResetChoosen(s, k) ==
  [i \in Id |-> IF i < k THEN [s[i] EXCEPT !.choosen = FALSE] ELSE s[i]]

\* wifi_ssid_manager_create at boot.  Flags left by a boot cut short here are
\* reset by the next one.  A station boot gives the driver the stored network.
Boot(m) ==
  /\ mode = "off"
  /\ m = "station" => creds # NoNet
  /\ mode' = m
  /\ slot' = ResetChoosen(slot, num)
  /\ driver' = IF m = "station" THEN creds ELSE driver
  /\ range' \in IF m = "station" THEN Sights ELSE {{}}
  /\ UNCHANGED <<num, creds, op, link, hist>>

\* Power failure and esp_restart.  Before the first commit of a save it is as
\* if the save had not been asked for.
PowerLoss ==
  /\ mode # "off"
  /\ op.at \in {"count", "conf"} => losses < MaxLoss
  /\ mode' = "off" /\ op' = Idle /\ link' = "down" /\ range' = {} /\ driver' = NoNet
  /\ losses' = IF op.at \in {"count", "conf"} THEN losses + 1 ELSE losses
  /\ order' = IF losses' = 0 THEN order ELSE {}
  /\ UNCHANGED <<slot, num, creds, last, wrapped>>

-----------------------------------------------------------------------------
(* wifi_ssid_manager_save.                                                 *)

\* The callers store the network they are connected to in the settings and
\* then save it.  The record it goes to: its own, a new one, or what the scan
\* of a full list picks.
SaveBegin(n) ==
  /\ mode = "setup" /\ op.at = "none"
  /\ \A i \in Id : slot[i].cnt <= MaxCnt
  /\ creds' = n /\ driver' = n
  /\ \/ \E i \in Stored(n.ssid) :
          op' = [Idle EXCEPT !.at = "write", !.net = n, !.id = i, !.num = num]
     \/ /\ Stored(n.ssid) = {} /\ num < Max
        /\ op' = [Idle EXCEPT !.at = "write", !.net = n, !.id = num,
                              !.num = num + 1]
     \/ /\ Stored(n.ssid) = {} /\ num = Max
        /\ op' = [Idle EXCEPT !.at = "scan", !.net = n, !.num = num]
  /\ UNCHANGED <<slot, num, mode, link, range, hist>>

\* Mutation: the first of several equal counters wins.
Scan_FirstOfEquals ==
  /\ op.at = "scan"
  /\ LET c == slot[op.i].cnt
         found == c > op.max
     IN  op' = [op EXCEPT !.max = IF found THEN c % Wrap ELSE @,
                          !.id  = IF found THEN op.i ELSE @,
                          !.i   = IF op.i + 1 < num THEN @ + 1 ELSE 0,
                          !.at  = IF op.i + 1 < num THEN "scan" ELSE "write"]
         /\ wrapped' = (wrapped \/ c >= Wrap)
  /\ UNCHANGED <<slot, num, creds, driver, mode, link, range, losses, order, last>>

\* One turn of nvs_get_write_id: the int counter is compared with, and then
\* kept in, a uint8_t.
Scan ==
  /\ op.at = "scan"
  /\ LET c == slot[op.i].cnt
         found == c >= op.max
     IN  op' = [op EXCEPT !.max = IF found THEN c % Wrap ELSE @,
                          !.id  = IF found THEN op.i ELSE @,
                          !.i   = IF op.i + 1 < num THEN @ + 1 ELSE 0,
                          !.at  = IF op.i + 1 < num THEN "scan" ELSE "write"]
         /\ wrapped' = (wrapped \/ c >= Wrap)
  /\ UNCHANGED <<slot, num, creds, driver, mode, link, range, losses, order, last>>

\* Mutation: the configuration is committed with the record of a new network
\* still to be written.
SaveInfo_ConfFirst ==
  /\ op.at = "write"
  /\ IF num < op.num THEN num' = op.num /\ UNCHANGED <<op, slot>>
     ELSE /\ slot' = [slot EXCEPT ![op.id] = [NoSlot EXCEPT !.net = op.net]]
          /\ op' = [op EXCEPT !.at = "count", !.i = 0]
          /\ UNCHANGED num
  /\ UNCHANGED <<creds, driver, mode, link, range, hist>>

\* The first commit
SaveInfo ==
  /\ op.at = "write"
  /\ slot' = [slot EXCEPT ![op.id] = [NoSlot EXCEPT !.net = op.net]]
  /\ op' = [op EXCEPT !.at = "count", !.i = 0]
  /\ order' = IF losses > 0 THEN {}
              ELSE LET others == {slot[i].net.ssid : i \in Counted \ {op.id}}
                   IN  (order \cap (others \X others)) \cup (others \X {op.net.ssid})
  /\ UNCHANGED <<num, creds, driver, mode, link, range, losses, last, wrapped>>

\* Mutation: only the new record is counted.
SetCounter_OnlyNew ==
  /\ op.at = "count"
  /\ slot' = [slot EXCEPT ![op.id].cnt = @ + 1]
  /\ op' = [op EXCEPT !.at = "conf"]
  /\ UNCHANGED <<num, creds, driver, mode, link, range, hist>>

\* nvs_set_counter, one record after the other, the new one included
SetCounter ==
  /\ op.at = "count"
  /\ slot' = [slot EXCEPT ![op.i].cnt = @ + 1]
  /\ op' = [op EXCEPT !.i  = @ + 1,
                      !.at = IF op.i + 1 < op.num THEN "count" ELSE "conf"]
  /\ UNCHANGED <<num, creds, driver, mode, link, range, hist>>

\* nvs_ssid_list_conf_save, and the flags: those of a power failure in between
\* are reset by the boot.
SaveConf ==
  /\ op.at = "conf"
  /\ num' = op.num
  /\ slot' = ResetChoosen(slot, op.num)
  /\ op' = Idle
  /\ last' = {op.net.ssid}
  /\ UNCHANGED <<creds, driver, mode, link, range, losses, order, wrapped>>

-----------------------------------------------------------------------------
(* wifi_ssid_manager_get_best_config and the station mode that calls it.   *)

\* Records whose network is in sight and was not chosen since the flags were
\* reset.  The strongest wins, so any may.
Candidates(sight) == {i \in Counted : slot[i].net.ssid \in sight /\ ~slot[i].choosen}

\* Mutation: the choice is not marked.
Choose_Unmarked(i) ==
  /\ driver' = slot[i].net
  /\ UNCHANGED slot

Choose(i) ==
  /\ slot' = [slot EXCEPT ![i].choosen = TRUE]
  /\ driver' = slot[i].net

\* sys_wifi_connect(NULL, NULL), at STA_START and whenever the link is lost.
\* With no candidate the driver connects with the configuration it has.
Connect ==
  /\ mode = "station" /\ link = "down"
  /\ \/ \E i \in Candidates(range) : Choose(i)
     \/ Candidates(range) = {} /\ UNCHANGED <<slot, driver>>
  /\ link' = "trying"
  /\ UNCHANGED <<num, creds, mode, op, range, hist>>

\* BluFi, too, falls back on the list when its connection is lost, once for
\* each network the phone names.  Bound: one network is chosen so between two
\* saves.
Fallback ==
  /\ mode = "setup" /\ op.at = "none"
  /\ \A i \in Counted : ~slot[i].choosen
  /\ \E i \in Candidates(SsidName) : Choose(i)
  /\ UNCHANGED <<num, creds, mode, op, link, range, hist>>

\* GOT_IP
Associate ==
  /\ link = "trying" /\ driver # NoNet /\ driver.ssid \in range
  /\ link' = "up"
  /\ UNCHANGED <<slot, num, creds, driver, mode, op, range, hist>>

\* STA_DISCONNECTED: out of range, refused, or no address
Disconnect ==
  /\ link \in {"trying", "up"}
  /\ link' = "down"
  /\ UNCHANGED <<slot, num, creds, driver, mode, op, range, hist>>

\* Routers are switched on and off.
RangeChanges ==
  /\ mode = "station"
  /\ range' \in Sights
  /\ UNCHANGED <<slot, num, creds, driver, mode, op, link, hist>>

-----------------------------------------------------------------------------
Save == (\E n \in Net : SaveBegin(n)) \/ Scan \/ SaveInfo \/ SetCounter \/ SaveConf

Next == \/ \E m \in {"setup", "station"} : Boot(m)
        \/ PowerLoss \/ Save \/ Connect \/ Fallback \/ Associate \/ Disconnect
        \/ RangeChanges

Spec == Init /\ [][Next]_vars

Fails == Disconnect /\ (link = "trying" \/ driver.ssid \notin range)

\* The event task answers every event; every attempt ends in one, and so does
\* a link whose router is gone.
LiveSpec == /\ Spec
            /\ WF_vars(Connect)
            /\ WF_vars(Associate \/ Fails)

-----------------------------------------------------------------------------
(* Properties.                                                             *)

\* However the commits of a save are cut short, the list the next boot reads
\* is one that whole saves make: no name twice, nobody lost but the one that
\* gave way.
List == INSTANCE SsidList WITH kept <- Kept
IsAList == List!Spec

Evicting == /\ op.at = "write" /\ op'.at = "count"
            /\ op.id < num /\ slot[op.id].net.ssid # op.net.ssid

\* "An indicator to measure the storage time" (wifi_ssid_manager.c:63): as long
\* as no save was cut short, the network that gives way to a new one is the one
\* that was saved the longest ago.
CounterTellsAge ==
  [][losses = 0 /\ Evicting =>
       \A i \in Counted \ {op.id} :
         <<slot[op.id].net.ssid, slot[i].net.ssid>> \in order]_vars

\* The same until a scan meets a counter that its uint8_t does not hold.
OldestGivesWay ==
  [][losses = 0 /\ ~wrapped /\ Evicting =>
       \A i \in Counted \ {op.id} :
         <<slot[op.id].net.ssid, slot[i].net.ssid>> \in order]_vars

\* Counters that power failures left uneven cost the network saved last its
\* place only if they cut half of Max saves, each of which may take the oldest of
\* the others away and make the last one older, or once a counter does not fit
\* the scan's uint8_t.
LatestSurvives ==
  2 * losses < Max /\ ~wrapped => last \subseteq {n.ssid : n \in Kept}

\* From a boot on, a known network is given its turn as long as it stays in range
\* and the link does not come up, however strong the others are.
Waiting(s) == mode = "station" /\ link # "up" /\ s \in range
EachIsTried ==
  \A s \in SsidName :
    Waiting(s) /\ (\E i \in Stored(s) : ~slot[i].choosen)
      ~> ~Waiting(s) \/ (driver # NoNet /\ driver.ssid = s)

=============================================================================
