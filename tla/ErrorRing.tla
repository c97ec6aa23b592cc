------------------------------ MODULE ErrorRing ------------------------------
(***************************************************************************)
(* The record of errors (bsp_error.c): a ring of codes kept in NVS, filled *)
(* whenever an NVS operation fails, sent to AWS once in a boot             *)
(* (sys_aws_send_error_code) and shortened by one with every update AWS    *)
(* accepts (m_shadow_update_status_callback).  Saving the ring is itself   *)
(* an NVS operation that may fail, and then adds an error; so is loading   *)
(* the settings, of which the ring is the last.                            *)
(* One call into the ring at a time: the tasks that make them do not lock. *)
(***************************************************************************)
EXTENDS Integers, FiniteSets, Sequences

CONSTANTS
  Size,   \* BSP_ERROR_CNT_MAX
  Code,   \* the codes of bsp_error_code_t other than BSP_ERR_NONE
  None,   \* BSP_ERR_NONE, what memset leaves in a slot
  Comm    \* BSP_ERR_NVS_COMMUNICATION

ASSUME RingAssumption ==
  /\ Size \in Nat /\ Size >= 2
  /\ Comm \in Code
  /\ None \notin Code

Slot == 0..Size-1

-----------------------------------------------------------------------------
VARIABLES
  ring,     \* bsp_error.nvs in RAM: code, idx (err_idx), cnt (err_cnt), and
            \* as history: removed, whether a code was removed since the ring
            \* was last empty; log, the newest codes recorded, oldest first,
            \* until one is removed; lost, whether RAM started over blank while
            \* flash held some of them
  stored,   \* bsp_error.nvs in flash
  open,     \* NVS could be opened in this boot
  nest,     \* calls on the stack of the chain that is saving the ring
  phase,    \* sys_boot: "off", "load" or "blank"; then the AWS task: "connect",
            \* "send" or "done"
  start,    \* err_start
  left,     \* err_num, the codes sys_aws_send_error_code has still to send
  waiting,  \* updates AWS has not answered
  flight    \* the slots whose code is in one of them

task == <<phase, start, left, waiting, flight>>
rvars == <<ring, stored, open, nest, task>>

Ring  == [code : [Slot -> Code \cup {None}], idx : Slot, cnt : 0..Size,
          removed : BOOLEAN, lost : BOOLEAN, log : Seq(Code)]
Empty == [code |-> [i \in Slot |-> None], idx |-> 0, cnt |-> 0,
          removed |-> FALSE, lost |-> FALSE, log |-> <<>>]

RTypeOK ==
  /\ ring \in Ring
  /\ stored \in Ring
  /\ open \in BOOLEAN
  /\ nest \in Nat
  /\ phase \in {"off", "load", "blank", "connect", "send", "done"}
  /\ start \in Slot
  /\ left \in 0..Size
  /\ waiting \in 0..Size
  /\ flight \in SUBSET Slot

RInit ==
  /\ ring = Empty /\ stored = Empty
  /\ open = FALSE /\ nest = 0
  /\ phase = "off" /\ start = 0 /\ left = 0 /\ waiting = 0 /\ flight = {}

-----------------------------------------------------------------------------
\* err_idx and err_start wrap at the size.
Next1(i) == IF i + 1 >= Size THEN 0 ELSE i + 1

\* The newest Size codes
Recent(l) == IF Len(l) > Size THEN SubSeq(l, Len(l) - Size + 1, Len(l)) ELSE l

\* bsp_error_add, up to bsp_error_sync
Write(e) ==
  /\ ring' = [ring EXCEPT !.code[ring.idx] = e,
                          !.idx = Next1(@),
                          !.cnt = IF @ < Size THEN @ + 1 ELSE @,
                          !.log = IF ring.removed THEN @ ELSE Recent(Append(@, e))]
  /\ flight' = flight \ {ring.idx}
  /\ nest' = nest + 1
  /\ UNCHANGED <<stored, open, phase, start, left, waiting>>

\* "The same with previous error -->ignore".  At index 0 the comparison reads
\* code[-1], which may hold anything.
Same(e)    == ring.idx > 0 /\ ring.code[ring.idx - 1] = e
Ignored(e) == Same(e) \/ ring.idx = 0
Added(e)   == ~Same(e) /\ Write(e)

\* Some NVS operation fails while the ring is at rest.
Add ==
  /\ phase \notin {"off", "load"} /\ nest = 0
  /\ \E e \in Code : Added(e)

\* bsp_error_sync: the store succeeds ...
SyncOk ==
  /\ nest > 0 /\ open
  /\ stored' = ring
  /\ nest' = 0
  /\ UNCHANGED <<ring, open, task>>

\* Mutation: repeated errors are recorded, too.
SyncFails_KeepsRepeats ==
  /\ nest > 0
  /\ Write(Comm)

\* ... or fails, and sys_nvs_store adds an error on its way out.
SyncFails ==
  /\ nest > 0
  /\ \/ Added(Comm)
     \/ /\ Ignored(Comm)
        /\ nest' = 0
        /\ UNCHANGED <<ring, stored, open, task>>

-----------------------------------------------------------------------------
(* A boot.                                                                 *)

\* RAM before sys_nvs_init has loaded anything: the ring is blank.
Blank(s) == [Empty EXCEPT !.log = s.log, !.lost = s.log # <<>>]

\* bsp_error_init clears a ring that counts nothing.
ErrorInit(r) ==
  IF r.cnt > 0 THEN r
  ELSE IF r.removed THEN Empty
  ELSE [Empty EXCEPT !.log = r.log, !.lost = r.lost]

\* sys_nvs_init: NVS is opened ...
Boot ==
  /\ phase = "off"
  /\ phase' = "load" /\ open' = TRUE
  /\ UNCHANGED <<ring, stored, nest, start, left, waiting, flight>>

\* ... or not, which adds an error that cannot be saved.
OpenFails ==
  /\ phase = "off"
  /\ phase' = "blank" /\ open' = FALSE
  /\ UNCHANGED <<ring, stored, nest, start, left, waiting, flight>>

\* sys_nvs_load_all: a setting ahead of the ring cannot be loaded (or the store
\* not be erased), and the error goes into a ring that is not loaded yet.
LoadFails ==
  /\ phase = "load" /\ nest = 0
  /\ Added(Comm)

\* The ring is loaded, the last key of nvs_data_list; bsp_error_init follows.
LoadRing ==
  /\ phase = "load" /\ nest = 0
  /\ phase' = "connect"
  /\ ring' = ErrorInit(stored)
  /\ UNCHANGED <<stored, open, nest, start, left, waiting, flight>>

\* It cannot be loaded, and RAM keeps what it has.
LoadRingFails ==
  /\ phase = "load" /\ nest = 0
  /\ phase' = "blank"
  /\ UNCHANGED <<ring, stored, open, nest, start, left, waiting, flight>>

\* The data are of another version: sys_nvs_factory_reset, sys_nvs_reset_data
\* and sys_nvs_store_all, each of which may fail.
FactoryReset ==
  /\ phase = "load" /\ nest = 0
  /\ phase' = "blank"
  /\ ring' = Empty
  /\ stored' \in {stored, Empty}
  /\ UNCHANGED <<open, nest, start, left, waiting, flight>>

\* sys_nvs_init ends without a stored ring, once the error this adds is dealt
\* with (at index 0 it may be taken for a repeated one).
BlankBoot ==
  /\ phase = "blank" /\ nest = 0
  /\ phase' = "connect"
  /\ ring' = ErrorInit(ring)
  /\ UNCHANGED <<stored, open, nest, start, left, waiting, flight>>

\* A restart or a power failure: what was not saved is lost.
Restart ==
  /\ phase # "off"
  /\ phase' = "off" /\ start' = 0 /\ left' = 0 /\ waiting' = 0 /\ flight' = {}
  /\ ring' = Blank(stored)
  /\ open' = FALSE /\ nest' = 0
  /\ UNCHANGED stored

-----------------------------------------------------------------------------
(* Sending.                                                                *)

\* Mutation: reading starts at slot 0 whether the ring has wrapped or not.
ReadStart_AtZero ==
  /\ phase = "connect" /\ nest = 0
  /\ phase' = "send"
  /\ start' = 0
  /\ left' = ring.cnt
  /\ UNCHANGED <<ring, stored, open, nest, waiting, flight>>

\* Mutation: the codes are sent again after a reconnection.
ReadStart_OnReconnect ==
  /\ phase \in {"connect", "done"} /\ nest = 0
  /\ phase' = "send"
  /\ start' = IF ring.cnt >= Size THEN ring.idx ELSE 0
  /\ left' = ring.cnt
  /\ UNCHANGED <<ring, stored, open, nest, waiting, flight>>

\* sys_aws_send_error_code begins: bsp_error_read_start
ReadStart ==
  /\ phase = "connect" /\ nest = 0
  /\ phase' = "send"
  /\ start' = IF ring.cnt >= Size THEN ring.idx ELSE 0
  /\ left' = ring.cnt
  /\ UNCHANGED <<ring, stored, open, nest, waiting, flight>>

\* bsp_error_read: the next code
ReadCode == left' = left - 1 /\ start' = Next1(start)

\* It is read and given to sys_aws_shadow_update, which may fail.
SendOne ==
  /\ phase = "send" /\ left > 0 /\ nest = 0
  /\ ReadCode
  /\ \/ waiting' = waiting + 1 /\ flight' = flight \cup {start}
     \/ UNCHANGED <<waiting, flight>>
  /\ UNCHANGED <<ring, stored, open, nest, phase>>

SendDone ==
  /\ phase = "send" /\ left = 0
  /\ phase' = "done"
  /\ UNCHANGED <<ring, stored, open, nest, start, left, waiting, flight>>

\* An answer, read while sys_aws_shadow_update yields between two codes or by
\* the AWS task afterwards.  It is about a code that is still in its slot or
\* about one that was overwritten meanwhile.
Answered(i) ==
  /\ phase \in {"send", "done"} /\ nest = 0
  /\ waiting > 0
  /\ waiting' = waiting - 1
  /\ i \in flight \/ (i = -1 /\ waiting > Cardinality(flight))
  /\ flight' = flight \ {i}
  /\ UNCHANGED <<stored, open, phase, start, left>>

\* bsp_error_remove, up to bsp_error_sync: only the count knows of it.
Remove ==
  /\ ring' = [ring EXCEPT !.cnt = @ - 1, !.removed = TRUE, !.log = <<>>]
  /\ nest' = 1

\* SHADOW_ACK_ACCEPTED
UpdateAccepted == \E i \in Slot \cup {-1} : Answered(i) /\ Remove

\* SHADOW_ACK_REJECTED and SHADOW_ACK_TIMEOUT
NotAccepted ==
  \E i \in Slot \cup {-1} : Answered(i) /\ UNCHANGED <<ring, nest>>

-----------------------------------------------------------------------------
RNext ==
  \/ Add \/ SyncOk \/ SyncFails
  \/ Boot \/ OpenFails \/ LoadFails \/ LoadRing \/ LoadRingFails \/ FactoryReset
  \/ BlankBoot \/ Restart
  \/ ReadStart \/ SendOne \/ SendDone \/ UpdateAccepted \/ NotAccepted

RSpec == RInit /\ [][RNext]_rvars

-----------------------------------------------------------------------------
(* Safety.                                                                 *)

\* err_cnt, a uint16_t that bsp_error_remove decrements unchecked, never drops
\* below zero: the answers that may still come are no more than the codes
\* counted, even when new errors overwrite codes that are under way.
CountCoversAnswers == left + waiting <= ring.cnt

\* bsp_error_add and sys_nvs_store call each other when NVS keeps failing; the
\* repeated code cuts the chain short, also across the wrap of the index, where
\* the comparison does not see the previous code.
RecursionBounded == nest <= 3

\* Until a first code is removed, what sys_aws_send_error_code starts to read
\* are the newest codes recorded, oldest first and none left out in between,
\* also after the ring has wrapped and after a load that failed.  They are all
\* that the ring has room for, unless it was started over in RAM while flash
\* held codes, as an earlier setting that cannot be loaded makes the code do.
ReadsInOrder ==
  [][phase = "connect" /\ phase' = "send" /\ ~ring.removed =>
       /\ left' <= Len(ring.log)
       /\ ~ring.lost => left' = Len(ring.log)
       /\ \A k \in 1..left' :
            ring.code[(start' + k - 1) % Size] = ring.log[Len(ring.log) - left' + k]]_rvars

-----------------------------------------------------------------------------
(* What a comment of the code says and the code does not do.               *)

\* The slots bsp_error_read_start and err_num make the next boot read
Window == IF ring.cnt >= Size THEN Slot ELSE 0..ring.cnt-1

\* sys_aws_shadow.c:409 "Delete error code have been sent out": when AWS accepts
\* a code, no other code stops being among those the next boot sends.
OnlySentIsDeleted ==
  [][\A i \in Slot : Answered(i) /\ Remove => Window \ Window' \subseteq {i}]_rvars
=============================================================================
