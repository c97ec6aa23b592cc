-------------------------- MODULE SsidManagerProofs --------------------------
(***************************************************************************)
(* SsidManager implements SsidList for any set of networks, any capacity   *)
(* and any number of power failures in the middle of a save.  Without such *)
(* failures the oldest network gives way; with them, the one saved last    *)
(* keeps its place as long as they are fewer than half the capacity.       *)
(***************************************************************************)
EXTENDS SsidManager, FiniteSetTheorems, FunctionTheorems, TLAPS

\* No name twice among the records that count.  It is what makes the lookup of
\* the next save find the record, and the set of networks as large as num.
NamesDistinct ==
  /\ \A i \in Counted : slot[i].net \in Net
  /\ \A i, j \in Counted : slot[i].net.ssid = slot[j].net.ssid => i = j

\* A save knows where its network goes: the record of that name, the one after
\* the last, or, the list being full, any.
Target(n, i, k) ==
  \/ i \in Stored(n.ssid) /\ k = num
  \/ Stored(n.ssid) = {} /\ num < Max /\ i = num /\ k = num + 1
  \/ Stored(n.ssid) = {} /\ num = Max /\ i \in Counted /\ k = num

SaveInv ==
  /\ op.at # "none" => op.net \in Net
  /\ op.at = "scan" => /\ Stored(op.net.ssid) = {}
                       /\ num = Max /\ op.num = num
                       /\ op.i \in Counted /\ op.id \in Counted
  /\ op.at = "write" => Target(op.net, op.id, op.num)
  /\ op.at \in {"count", "conf"} =>
       /\ op.num \in 1..Max
       /\ op.at = "count" => op.i < op.num
       /\ \/ op.num = num
          \/ /\ op.num = num + 1
             /\ Stored(op.net.ssid) = {}
             /\ slot[num].net = op.net

ListInv == TypeOK /\ NamesDistinct /\ SaveInv

-----------------------------------------------------------------------------
\* The set that a reader sees has as many networks as records that count.
LEMMA KeptSize ==
  ASSUME num \in Nat, NamesDistinct
  PROVE  Cardinality(Kept) = num
<1> DEFINE f == [i \in Counted |-> slot[i].net]
<1>1. f \in Bijection(Counted, Kept)
  <2>1. f \in [Counted -> Kept]
    BY DEF Kept
  <2>2. \A i, j \in Counted : f[i] = f[j] => i = j
    BY DEF NamesDistinct
  <2>3. \A n \in Kept : \E i \in Counted : f[i] = n
    BY DEF Kept
  <2> QED
    BY <2>1, <2>2, <2>3 DEF Bijection, Injection, Surjection, IsInjective
<1>2. ExistsBijection(Counted, Kept)
  BY <1>1 DEF ExistsBijection
<1>3. IsFiniteSet(Counted) /\ Cardinality(Counted) = num
  <2>1. 0 \in Int /\ num - 1 \in Int
    OBVIOUS
  <2>2. /\ IsFiniteSet(0..(num - 1))
        /\ Cardinality(0..(num - 1)) = IF 0 > num - 1 THEN 0 ELSE (num - 1) - 0 + 1
    BY <2>1, FS_Interval
  <2> QED
    BY <2>2 DEF Counted
<1> QED
  BY <1>2, <1>3, FS_Bijection

LEMMA InitListInv == Init => ListInv
<1> SUFFICES ASSUME Init PROVE ListInv
  OBVIOUS
<1>1. 0 \in Id /\ 0 \in 0..Max /\ 0 \in 0..(Wrap-1) /\ 0 \in 0..MaxLoss
  BY SsidAssumption DEF Id
<1>2. TypeOK
  BY <1>1 DEF Init, TypeOK, NoSlot, Idle, SlotRec, OpRec
<1>3. Counted = {}
  BY DEF Init, Counted
<1>4. NamesDistinct
  BY <1>3 DEF NamesDistinct
<1>5. SaveInv
  BY DEF Init, SaveInv, Idle
<1> QED
  BY <1>2, <1>4, <1>5 DEF ListInv
-----------------------------------------------------------------------------
(* Steps that leave the networks of the records alone.                     *)

SameNets == num' = num /\ \A i \in Id : slot'[i].net = slot[i].net

LEMMA CountedAreIds == TypeOK => Counted \subseteq Id
BY SsidAssumption DEF TypeOK, Counted, Id

LEMMA SameNetsKeeps ==
  ASSUME TypeOK, NamesDistinct, SameNets
  PROVE  /\ NamesDistinct'
         /\ Counted' = Counted
         /\ Kept' = Kept
         /\ \A t : Stored(t)' = Stored(t)
<1>1. Counted' = Counted
  BY DEF SameNets, Counted
<1>2. \A i \in Counted : slot'[i].net = slot[i].net
  BY CountedAreIds DEF SameNets
<1>3. NamesDistinct'
  BY <1>1, <1>2 DEF NamesDistinct
<1>4. Kept' = Kept
  BY <1>1, <1>2 DEF Kept
<1>5. \A t : Stored(t)' = Stored(t)
  BY <1>1, <1>2 DEF Stored
<1> QED
  BY <1>1, <1>3, <1>4, <1>5

LEMMA ResetKeepsNets ==
  ASSUME TypeOK, NEW k \in 0..Max
  PROVE  /\ ResetChoosen(slot, k) \in [Id -> SlotRec]
         /\ \A i \in Id : ResetChoosen(slot, k)[i].net = slot[i].net
BY DEF TypeOK, ResetChoosen, SlotRec

-----------------------------------------------------------------------------
(* Type correctness.                                                       *)

LEMMA TypeStep == ListInv /\ [Next]_vars => TypeOK'
<1> SUFFICES ASSUME ListInv, [Next]_vars PROVE TypeOK'
  OBVIOUS
<1>a. /\ Max \in Nat /\ Max > 0 /\ Wrap \in Nat /\ Wrap > 0 /\ MaxLoss \in Nat
      /\ 0 \in Id /\ \A k \in Id : k \in Nat /\ k + 1 \in 0..Max
      /\ \A k \in 0..Max : k < Max => k \in Id
  BY SsidAssumption DEF Id
<1>b. TypeOK /\ SaveInv /\ Counted \subseteq Id
  BY CountedAreIds DEF ListInv
<1>c. slot \in [Id -> SlotRec] /\ num \in 0..Max /\ op \in OpRec
  BY <1>b DEF TypeOK
<1>d. /\ op.net \in Net \cup {NoNet} /\ op.id \in Id /\ op.num \in 0..Max
      /\ op.i \in 0..Max /\ op.max \in 0..(Wrap-1)
  BY <1>c DEF OpRec
<1>e. \A i \in Id : slot[i].net \in Net \cup {NoNet} /\ slot[i].cnt \in Nat
  BY <1>c DEF SlotRec
<1>f. Idle \in OpRec
  BY <1>a DEF Idle, OpRec
<1>g. {} \in SUBSET SsidName /\ \A r \in Sights : r \in SUBSET SsidName
  BY SsidAssumption DEF SsidName
<1>1. ASSUME NEW m \in {"setup", "station"}, Boot(m) PROVE TypeOK'
  <2>1. slot' \in [Id -> SlotRec]
    BY <1>1, <1>b, <1>c, ResetKeepsNets DEF Boot
  <2>2. range' \in SUBSET SsidName
    BY <1>1, <1>g DEF Boot
  <2> QED
    BY <1>1, <1>b, <2>1, <2>2 DEF Boot, TypeOK, hist
<1>2. CASE PowerLoss
  <2>1. losses' \in 0..MaxLoss
    BY <1>2, <1>a, <1>b DEF PowerLoss, TypeOK
  <2> QED
    BY <1>2, <1>b, <1>f, <1>g, <2>1 DEF PowerLoss, TypeOK
<1>3. ASSUME NEW n \in Net, SaveBegin(n) PROVE TypeOK'
  <2>1. ASSUME NEW i \in Id, NEW k \in 0..Max
        PROVE  /\ [Idle EXCEPT !.at = "write", !.net = n, !.id = i, !.num = k] \in OpRec
               /\ [Idle EXCEPT !.at = "scan", !.net = n, !.num = k] \in OpRec
    BY <1>f DEF OpRec
  <2>2. Stored(n.ssid) \subseteq Id
    BY <1>b DEF Stored
  <2>3. num < Max => num \in Id /\ num + 1 \in 0..Max
    BY <1>a, <1>c
  <2>4. op' \in OpRec
    <3>1. CASE \E i \in Stored(n.ssid) :
                 op' = [Idle EXCEPT !.at = "write", !.net = n, !.id = i, !.num = num]
      <4>1. PICK i \in Stored(n.ssid) :
                   op' = [Idle EXCEPT !.at = "write", !.net = n, !.id = i, !.num = num]
        BY <3>1
      <4> QED
        BY <1>c, <2>1, <2>2, <4>1
    <3>2. CASE num < Max /\ op' = [Idle EXCEPT !.at = "write", !.net = n,
                                              !.id = num, !.num = num + 1]
      BY <2>1, <2>3, <3>2
    <3>3. CASE op' = [Idle EXCEPT !.at = "scan", !.net = n, !.num = num]
      BY <1>a, <1>c, <2>1, <3>3
    <3> QED
      BY <1>3, <3>1, <3>2, <3>3 DEF SaveBegin
  <2> QED
    BY <1>3, <1>b, <2>4 DEF SaveBegin, TypeOK, hist
<1>4. CASE Scan
  <2>1. op.i \in Id /\ slot[op.i].cnt \in Nat
    BY <1>4, <1>b, <1>e DEF Scan, SaveInv
  <2>2. slot[op.i].cnt % Wrap \in 0..(Wrap-1)
    BY <2>1, <1>a
  <2>3. op.i + 1 \in 0..Max /\ 0 \in 0..Max
    BY <2>1, <1>a
  <2>4. op' \in OpRec
    <3> DEFINE c == slot[op.i].cnt
               more == op.i + 1 < num
    <3>1. \E x \in 0..(Wrap-1), y \in Id, z \in 0..Max, w \in {"scan", "write"} :
            op' = [op EXCEPT !.max = x, !.id = y, !.i = z, !.at = w]
      <4>1. /\ (IF c >= op.max THEN c % Wrap ELSE op.max) \in 0..(Wrap-1)
            /\ (IF c >= op.max THEN op.i ELSE op.id) \in Id
            /\ (IF more THEN op.i + 1 ELSE 0) \in 0..Max
            /\ (IF more THEN "scan" ELSE "write") \in {"scan", "write"}
        BY <1>d, <2>1, <2>2, <2>3
      <4> QED
        BY <1>4, <4>1 DEF Scan
    <3> QED
      BY <1>c, <3>1 DEF OpRec
  <2>5. wrapped' \in BOOLEAN
    BY <1>4, <1>b, Zenon DEF Scan, TypeOK
  <2> QED
    BY <1>4, <1>b, <2>4, <2>5 DEF Scan, TypeOK
<1>5. CASE SaveInfo
  <2>1. [NoSlot EXCEPT !.net = op.net] \in SlotRec
    BY <1>d DEF NoSlot, SlotRec
  <2>2. slot' \in [Id -> SlotRec]
    BY <1>5, <1>c, <2>1 DEF SaveInfo
  <2>3. op' \in OpRec
    <3>1. op' = [op EXCEPT !.at = "count", !.i = 0]
      BY <1>5 DEF SaveInfo
    <3>2. 0 \in 0..Max
      BY <1>a
    <3> QED
      BY <1>c, <3>1, <3>2 DEF OpRec
  <2> QED
    BY <1>5, <1>b, <2>2, <2>3 DEF SaveInfo, TypeOK
<1>6. CASE SetCounter
  <2>1. op.i \in Id /\ op.i + 1 \in 0..Max
    <3>1. op.i < op.num
      BY <1>6, <1>b DEF SetCounter, SaveInv
    <3> QED
      BY <1>a, <1>d, <3>1
  <2>2. slot' \in [Id -> SlotRec]
    <3>1. [slot[op.i] EXCEPT !.cnt = @ + 1] \in SlotRec
      BY <1>c, <2>1 DEF SlotRec
    <3> QED
      BY <1>6, <1>c, <2>1, <3>1 DEF SetCounter
  <2>3. op' \in OpRec
    BY <1>6, <1>c, <2>1 DEF SetCounter, OpRec
  <2> QED
    BY <1>6, <1>b, <2>2, <2>3 DEF SetCounter, TypeOK, hist
<1>7. CASE SaveConf
  <2>1. slot' \in [Id -> SlotRec]
    BY <1>7, <1>b, <1>d, ResetKeepsNets DEF SaveConf
  <2> QED
    BY <1>7, <1>b, <1>d, <1>f, <2>1 DEF SaveConf, TypeOK
<1>8. ASSUME NEW i \in Counted, Choose(i)
      PROVE  slot' \in [Id -> SlotRec] /\ driver' \in Net \cup {NoNet}
  <2>1. i \in Id /\ [slot[i] EXCEPT !.choosen = TRUE] \in SlotRec
    BY <1>b, <1>c DEF SlotRec
  <2> QED
    BY <1>8, <1>c, <1>e, <2>1 DEF Choose
<1>9. CASE Connect
  <2>1. slot' \in [Id -> SlotRec] /\ driver' \in Net \cup {NoNet}
    BY <1>9, <1>8, <1>b DEF Connect, Candidates, TypeOK
  <2> QED
    BY <1>9, <1>b, <2>1 DEF Connect, TypeOK, hist
<1>10. CASE Fallback
  <2>1. slot' \in [Id -> SlotRec] /\ driver' \in Net \cup {NoNet}
    BY <1>10, <1>8 DEF Fallback, Candidates
  <2> QED
    BY <1>10, <1>b, <2>1 DEF Fallback, TypeOK, hist
<1>11. CASE Associate
  BY <1>11, <1>b DEF Associate, TypeOK, hist
<1>12. CASE Disconnect
  BY <1>12, <1>b DEF Disconnect, TypeOK, hist
<1>13. CASE RangeChanges
  BY <1>13, <1>b, <1>g DEF RangeChanges, TypeOK, hist
<1>14. CASE UNCHANGED vars
  BY <1>14, <1>b DEF vars, TypeOK, hist
<1> QED
  BY <1>1, <1>2, <1>3, <1>4, <1>5, <1>6, <1>7, <1>9, <1>10, <1>11, <1>12,
     <1>13, <1>14 DEF Next, Save
-----------------------------------------------------------------------------
(* The list and the save under way.                                        *)

LEMMA ListStep == ListInv /\ [Next]_vars => NamesDistinct' /\ SaveInv'
<1> SUFFICES ASSUME ListInv, [Next]_vars PROVE NamesDistinct' /\ SaveInv'
  OBVIOUS
<1>a. /\ Max \in Nat /\ Max > 0 /\ 0 \in Id
      /\ \A k \in 0..Max : k < Max => k \in Id
  BY SsidAssumption DEF Id
<1>b. TypeOK /\ NamesDistinct /\ SaveInv /\ Counted \subseteq Id
  BY CountedAreIds DEF ListInv
<1>c. slot \in [Id -> SlotRec] /\ num \in 0..Max /\ op \in OpRec
  BY <1>b DEF TypeOK
<1>d. /\ op.id \in Id /\ op.num \in 0..Max /\ op.i \in 0..Max
      /\ \A i \in Id : slot[i] \in SlotRec
  BY <1>c DEF OpRec
<1>z. ASSUME SameNets, op' = Idle \/ op' = op PROVE NamesDistinct' /\ SaveInv'
  <2>1. /\ NamesDistinct'
        /\ Counted' = Counted
        /\ \A t : Stored(t)' = Stored(t)
    BY <1>b, <1>z, SameNetsKeeps
  <2>2. CASE op' = Idle
    BY <2>1, <2>2 DEF SaveInv, Idle
  <2>3. CASE op' = op
    <3>1. num < Max => slot'[num].net = slot[num].net
      BY <1>a, <1>c, <1>z DEF SameNets
    <3>2. num' = num /\ (op.num = num + 1 => num < Max)
      BY <1>a, <1>c, <1>d, <1>z DEF SameNets
    <3> QED
      BY <1>b, <2>1, <2>3, <3>1, <3>2 DEF SaveInv, Target
  <2> QED
    BY <1>z, <2>1, <2>2, <2>3
<1>1. ASSUME NEW m \in {"setup", "station"}, Boot(m)
      PROVE  NamesDistinct' /\ SaveInv'
  BY <1>1, <1>b, <1>c, <1>z, ResetKeepsNets DEF Boot, SameNets
<1>2. CASE PowerLoss
  BY <1>2, <1>z DEF PowerLoss, SameNets
<1>3. ASSUME NEW n \in Net, SaveBegin(n) PROVE NamesDistinct' /\ SaveInv'
  <2>1. /\ NamesDistinct'
        /\ Counted' = Counted
        /\ \A t : Stored(t)' = Stored(t)
        /\ num' = num
    BY <1>3, <1>b, SameNetsKeeps DEF SaveBegin, SameNets
  <2>2. ASSUME NEW i \in Id, NEW k \in 0..Max,
               op' = [Idle EXCEPT !.at = "write", !.net = n, !.id = i, !.num = k],
               Target(n, i, k)
        PROVE  SaveInv'
    <3>1. Target(n, i, k)'
      BY <2>1, <2>2 DEF Target
    <3>2. op'.at = "write" /\ op'.net = n /\ op'.id = i /\ op'.num = k
      BY <2>2 DEF Idle
    <3> QED
      BY <3>1, <3>2 DEF SaveInv
  <2>3. CASE \E i \in Stored(n.ssid) :
               op' = [Idle EXCEPT !.at = "write", !.net = n, !.id = i, !.num = num]
    <3>1. PICK i \in Stored(n.ssid) :
                 op' = [Idle EXCEPT !.at = "write", !.net = n, !.id = i, !.num = num]
      BY <2>3
    <3>2. i \in Id /\ num \in 0..Max /\ Target(n, i, num)
      BY <1>b, <1>c, <3>1 DEF Stored, Target
    <3> QED
      BY <2>1, <2>2, <3>1, <3>2
  <2>4. CASE /\ Stored(n.ssid) = {} /\ num < Max
             /\ op' = [Idle EXCEPT !.at = "write", !.net = n,
                                   !.id = num, !.num = num + 1]
    <3>1. num \in Id /\ num + 1 \in 0..Max
      BY <1>a, <1>c, <2>4
    <3>2. Target(n, num, num + 1)
      BY <2>4 DEF Target
    <3> QED
      BY <2>1, <2>2, <2>4, <3>1, <3>2
  <2>5. CASE /\ Stored(n.ssid) = {} /\ num = Max
             /\ op' = [Idle EXCEPT !.at = "scan", !.net = n, !.num = num]
    <3>1. /\ op'.at = "scan" /\ op'.net = n /\ op'.num = num
          /\ op'.i = 0 /\ op'.id = 0
      BY <2>5 DEF Idle
    <3>2. 0 \in Counted
      BY <1>a, <2>5 DEF Counted
    <3> QED
      BY <2>1, <2>5, <3>1, <3>2 DEF SaveInv
  <2> QED
    BY <1>3, <2>1, <2>3, <2>4, <2>5 DEF SaveBegin
<1>4. CASE Scan
  <2>1. /\ NamesDistinct'
        /\ Counted' = Counted
        /\ \A t : Stored(t)' = Stored(t)
        /\ num' = num
    BY <1>4, <1>b, SameNetsKeeps DEF Scan, SameNets
  <2>2. /\ op.net \in Net /\ Stored(op.net.ssid) = {}
        /\ num = Max /\ op.num = num /\ op.i \in Counted /\ op.id \in Counted
    BY <1>4, <1>b DEF Scan, SaveInv
  <2>3. /\ op'.net = op.net /\ op'.num = op.num /\ op'.id \in Counted
        /\ \/ op'.at = "scan" /\ op'.i = op.i + 1 /\ op.i + 1 < num
           \/ op'.at = "write"
    BY <1>4, <1>c, <2>2 DEF Scan, OpRec
  <2>4. op.i + 1 < num => op.i + 1 \in Counted
    BY <1>c, <2>2 DEF Counted
  <2> QED
    BY <2>1, <2>2, <2>3, <2>4 DEF SaveInv, Target
<1>5. CASE SaveInfo
  <2>1. /\ op.net \in Net /\ Target(op.net, op.id, op.num)
        /\ num' = num /\ Counted' = Counted
        /\ op' = [op EXCEPT !.at = "count", !.i = 0]
        /\ slot' = [slot EXCEPT ![op.id] = [NoSlot EXCEPT !.net = op.net]]
    BY <1>5, <1>b DEF SaveInfo, SaveInv, Counted
  <2>2. /\ op'.at = "count" /\ op'.net = op.net /\ op'.num = op.num /\ op'.i = 0
    BY <1>c, <2>1 DEF OpRec
  <2>3. /\ slot'[op.id].net = op.net
        /\ \A i \in Id \ {op.id} : slot'[i] = slot[i]
    BY <1>c, <1>d, <2>1 DEF NoSlot
  <2>4. CASE op.id \in Counted /\ op.num = num
             /\ \A i \in Stored(op.net.ssid) : i = op.id
    <3>1. NamesDistinct'
      BY <1>b, <2>1, <2>3, <2>4 DEF NamesDistinct, Stored
    <3>2. num \in 1..Max
      BY <1>c, <2>4 DEF Counted
    <3> QED
      BY <2>1, <2>2, <2>4, <3>1, <3>2 DEF SaveInv
  <2>5. CASE /\ Stored(op.net.ssid) = {} /\ num < Max
             /\ op.id = num /\ op.num = num + 1
    <3>1. op.id \notin Counted
      BY <1>c, <2>5 DEF Counted
    <3>2. \A i \in Counted : slot'[i] = slot[i]
      BY <1>b, <2>3, <3>1
    <3>3. NamesDistinct'
      <4>1. Counted' = Counted /\ \A i \in Counted : slot'[i].net = slot[i].net
        BY <2>1, <3>2
      <4> QED
        BY <1>b, <4>1 DEF NamesDistinct
    <3>4. \A t : Stored(t)' = Stored(t)
      BY <2>1, <3>2 DEF Stored
    <3>5. Stored(op.net.ssid)' = {}
      BY <2>2, <2>5, <3>4
    <3>6. num + 1 \in 1..Max
      BY <1>a, <1>c, <2>5
    <3> QED
      BY <2>1, <2>2, <2>3, <2>5, <3>3, <3>5, <3>6 DEF SaveInv
  <2>6. Target(op.net, op.id, op.num) =>
          \/ op.id \in Counted /\ op.num = num
             /\ \A i \in Stored(op.net.ssid) : i = op.id
          \/ /\ Stored(op.net.ssid) = {} /\ num < Max
             /\ op.id = num /\ op.num = num + 1
    BY <1>b DEF Target, Stored, NamesDistinct
  <2> QED
    BY <2>1, <2>4, <2>5, <2>6
<1>6. CASE SetCounter
  <2>1. /\ op' = [op EXCEPT !.i  = op.i + 1,
                          !.at = IF op.i + 1 < op.num THEN "count" ELSE "conf"]
        /\ op.at = "count" /\ num' = num
        /\ slot' = [slot EXCEPT ![op.i].cnt = @ + 1]
    BY <1>6 DEF SetCounter
  <2>2. op.i \in Id /\ op.num \in 1..Max
    BY <1>a, <1>b, <1>d, <2>1 DEF SaveInv
  <2>3. SameNets
    BY <1>c, <1>d, <2>1, <2>2 DEF SameNets, SlotRec
  <2>4. /\ NamesDistinct'
        /\ Counted' = Counted
        /\ \A t : Stored(t)' = Stored(t)
    BY <1>b, <2>3, SameNetsKeeps
  <2>5. /\ op'.net = op.net /\ op'.num = op.num /\ op'.i = op.i + 1
        /\ op'.at = IF op.i + 1 < op.num THEN "count" ELSE "conf"
    BY <1>c, <2>1 DEF OpRec
  <2>6. op.num = num + 1 => slot'[num].net = slot[num].net
    BY <1>a, <1>c, <1>d, <2>2, <2>3 DEF SameNets
  <2> QED
    BY <1>b, <2>1, <2>2, <2>4, <2>5, <2>6 DEF SaveInv
<1>7. CASE SaveConf
  <2>1. /\ op.at = "conf" /\ num' = op.num /\ op' = Idle
        /\ slot' = ResetChoosen(slot, op.num)
    BY <1>7 DEF SaveConf
  <2>2. \A i \in Id : slot'[i].net = slot[i].net
    BY <1>b, <1>d, <2>1, ResetKeepsNets
  <2>3. SaveInv'
    BY <2>1 DEF SaveInv, Idle
  <2>4. CASE op.num = num
    BY <1>b, <1>z, <2>1, <2>2, <2>4 DEF SameNets
  <2>5. CASE /\ op.num = num + 1 /\ Stored(op.net.ssid) = {}
             /\ slot[num].net = op.net /\ op.net \in Net
    <3>1. /\ Counted' = Counted \cup {num} /\ num \notin Counted
          /\ Counted' \subseteq Id
      BY <1>a, <1>c, <1>d, <2>1, <2>5 DEF Counted, Id
    <3>2. \A i \in Counted' : slot'[i].net = slot[i].net
      BY <2>2, <3>1
    <3>3. \A i \in Counted : slot[i].net.ssid # slot[num].net.ssid
      BY <2>5 DEF Stored
    <3>4. NamesDistinct'
      BY <1>b, <2>5, <3>1, <3>2, <3>3 DEF NamesDistinct
    <3> QED
      BY <2>3, <3>4
  <2> QED
    BY <1>b, <2>1, <2>4, <2>5 DEF SaveInv
<1>8. ASSUME NEW i \in Counted, Choose(i), num' = num PROVE SameNets
  BY <1>8, <1>b, <1>c, <1>d DEF Choose, SameNets, SlotRec
<1>9. CASE Connect
  BY <1>9, <1>8, <1>z DEF Connect, Candidates, SameNets
<1>10. CASE Fallback
  BY <1>10, <1>8, <1>z DEF Fallback, Candidates
<1>11. CASE Associate \/ Disconnect \/ RangeChanges \/ UNCHANGED vars
  BY <1>11, <1>z DEF Associate, Disconnect, RangeChanges, vars, SameNets
<1> QED
  BY <1>1, <1>2, <1>3, <1>4, <1>5, <1>6, <1>7, <1>9, <1>10, <1>11
  DEF Next, Save

THEOREM ListInvariant == Spec => []ListInv
<1>1. ListInv /\ [Next]_vars => ListInv'
  BY TypeStep, ListStep DEF ListInv
<1> QED
  BY InitListInv, <1>1, PTL DEF Spec

\* Every reachable state is well typed: no record beyond the capacity is
\* written, and what the uint8_t of the scan holds fits it.
THEOREM TypeCorrect == Spec => []TypeOK
BY ListInvariant, PTL DEF ListInv
-----------------------------------------------------------------------------
(* The refinement of SsidList.                                             *)

LEMMA OtherSteps ==
  ListInv /\ [Next]_vars => SameNets \/ SaveInfo \/ (SaveConf /\ op.num # num)
<1> SUFFICES ASSUME ListInv, [Next]_vars, ~SaveInfo, ~(SaveConf /\ op.num # num)
             PROVE  SameNets
  OBVIOUS
<1>a. TypeOK /\ SaveInv /\ Counted \subseteq Id
  BY CountedAreIds DEF ListInv
<1>b. slot \in [Id -> SlotRec] /\ num \in 0..Max /\ op.num \in 0..Max
  BY <1>a DEF TypeOK, OpRec
<1>c. \A i \in Id : slot[i] \in SlotRec
  BY <1>b
<1>1. ASSUME NEW m \in {"setup", "station"}, Boot(m) PROVE SameNets
  BY <1>1, <1>a, <1>b, ResetKeepsNets DEF Boot, SameNets
<1>2. CASE PowerLoss \/ (\E n \in Net : SaveBegin(n)) \/ Scan
  BY <1>2 DEF PowerLoss, SaveBegin, Scan, SameNets
<1>3. CASE SetCounter
  BY <1>3, <1>b, <1>c DEF SetCounter, SameNets, SlotRec
<1>4. CASE SaveConf
  BY <1>4, <1>a, <1>b, ResetKeepsNets DEF SaveConf, SameNets
<1>5. ASSUME NEW i \in Counted, Choose(i), num' = num PROVE SameNets
  BY <1>5, <1>a, <1>b, <1>c DEF Choose, SameNets, SlotRec
<1>6. CASE Connect
  BY <1>6, <1>5 DEF Connect, Candidates, SameNets
<1>7. CASE Fallback
  BY <1>7, <1>5 DEF Fallback, Candidates
<1>8. CASE Associate \/ Disconnect \/ RangeChanges \/ UNCHANGED vars
  BY <1>8 DEF Associate, Disconnect, RangeChanges, vars, SameNets
<1> QED
  BY <1>1, <1>2, <1>3, <1>4, <1>6, <1>7, <1>8 DEF Next, Save

\* SsidList counts with the operator this module counts with.
LEMMA SameCardinality == \A S : List!Cardinality(S) = Cardinality(S)
BY DEF List!Cardinality, Cardinality, List!IsFiniteSet, IsFiniteSet

LEMMA ListSteps == ListInv /\ [Next]_vars => [List!Next]_Kept
<1> SUFFICES ASSUME ListInv, [Next]_vars PROVE [List!Next]_Kept
  OBVIOUS
<1>a. TypeOK /\ NamesDistinct /\ SaveInv /\ Counted \subseteq Id
  BY CountedAreIds DEF ListInv
<1>b. /\ slot \in [Id -> SlotRec] /\ num \in 0..Max /\ num \in Nat
      /\ op.id \in Id /\ op.num \in 0..Max /\ Max \in Nat
  BY <1>a, SsidAssumption DEF TypeOK, OpRec
<1>c. List!Cardinality(Kept) = num
  BY <1>a, <1>b, KeptSize, SameCardinality
<1>d. \A t : List!Named(t) = {slot[i].net : i \in Stored(t)}
  BY DEF List!Named, Kept, Stored
<1>1. CASE SameNets
  BY <1>a, <1>1, SameNetsKeeps
<1>2. CASE SaveInfo
  <2> DEFINE n == op.net
             v == slot[op.id].net
  <2>1. n \in Net /\ Target(n, op.id, op.num)
    BY <1>2, <1>a DEF SaveInfo, SaveInv
  <2>2. /\ Counted' = Counted
        /\ slot'[op.id].net = n
        /\ \A i \in Id \ {op.id} : slot'[i] = slot[i]
    <3>1. slot' = [slot EXCEPT ![op.id] = [NoSlot EXCEPT !.net = n]] /\ num' = num
      BY <1>2 DEF SaveInfo
    <3> QED
      BY <1>b, <3>1 DEF NoSlot, Counted
  <2>3. ASSUME op.id \in Counted PROVE Kept' = (Kept \ {v}) \cup {n}
    <3>1. \A i \in Counted : i # op.id <=> slot[i].net # v
      BY <1>a, <2>3 DEF NamesDistinct
    <3>2. ASSUME NEW x PROVE x \in Kept' <=> x \in (Kept \ {v}) \cup {n}
      <4>1. x \in Kept' <=> \E i \in Counted : x = slot'[i].net
        BY <2>2 DEF Kept
      <4>2. x \in Kept' <=> x = n \/ \E i \in Counted : i # op.id /\ x = slot[i].net
        BY <1>a, <2>2, <2>3, <4>1
      <4> QED
        BY <3>1, <4>2 DEF Kept
    <3> QED
      BY <3>2
  <2>4. CASE op.id \in Stored(n.ssid)
    <3>1. op.id \in Counted /\ Stored(n.ssid) = {op.id}
      BY <1>a, <2>4 DEF Stored, NamesDistinct
    <3>2. List!Named(n.ssid) = {v}
      BY <1>d, <3>1
    <3>3. List!Update(n)
      BY <2>3, <3>1, <3>2 DEF List!Update
    <3> QED
      BY <2>1, <3>3 DEF List!Next
  <2>5. CASE Stored(n.ssid) = {} /\ op.id = num
    <3>1. op.id \notin Counted
      BY <1>b, <2>5 DEF Counted
    <3>2. \A i \in Counted : slot'[i] = slot[i]
      BY <1>a, <2>2, <3>1
    <3> QED
      BY <2>2, <3>2 DEF Kept
  <2>6. CASE Stored(n.ssid) = {} /\ num = Max /\ op.id \in Counted
    <3>1. List!Named(n.ssid) = {}
      BY <1>d, <2>6
    <3>2. v \in Kept
      BY <2>6 DEF Kept
    <3>3. List!Evict(n)
      BY <1>c, <2>3, <2>6, <3>1, <3>2 DEF List!Evict
    <3> QED
      BY <2>1, <3>3 DEF List!Next
  <2> QED
    BY <2>1, <2>4, <2>5, <2>6 DEF Target
<1>3. CASE SaveConf /\ op.num # num
  <2> DEFINE n == op.net
  <2>1. /\ n \in Net /\ op.num = num + 1 /\ Stored(n.ssid) = {}
        /\ slot[num].net = n /\ num' = num + 1
        /\ slot' = ResetChoosen(slot, op.num)
    BY <1>3, <1>a DEF SaveConf, SaveInv
  <2>2. Counted' = Counted \cup {num} /\ Counted' \subseteq Id
    BY <1>b, <2>1 DEF Counted, Id
  <2>3. \A i \in Counted' : slot'[i].net = slot[i].net
    BY <1>a, <1>b, <2>1, <2>2, ResetKeepsNets
  <2>4. Kept' = Kept \cup {n}
    <3>1. ASSUME NEW x PROVE x \in Kept' <=> x \in Kept \cup {n}
      <4>1. x \in Kept' <=> \E i \in Counted' : x = slot[i].net
        BY <2>3 DEF Kept
      <4> QED
        BY <2>1, <2>2, <4>1 DEF Kept
    <3> QED
      BY <3>1
  <2>5. List!Named(n.ssid) = {} /\ List!Cardinality(Kept) < Max
    BY <1>b, <1>c, <1>d, <2>1
  <2>6. List!Append(n)
    BY <2>4, <2>5 DEF List!Append
  <2> QED
    BY <2>1, <2>6 DEF List!Next
<1> QED
  BY <1>1, <1>2, <1>3, OtherSteps

\* However the commits of a save are cut short, a reader of the flash sees the
\* list that whole saves make.
THEOREM Implements == Spec => IsAList
<1>1. Init => List!Init
  BY DEF Init, List!Init, Kept, Counted
<1>2. ListInv /\ [Next]_vars => [List!Next]_Kept
  BY ListSteps
<1> QED
  BY <1>1, <1>2, ListInvariant, PTL DEF Spec, IsAList, List!Spec
-----------------------------------------------------------------------------
(* Which network gives way.                                                *)

\* The records of the list that the save under way will leave, and their
\* counters when it has counted all of them
InList == IF op.at \in {"count", "conf"} THEN 0..op.num-1 ELSE Counted
Age(i) == slot[i].cnt + (IF op.at = "count" /\ i >= op.i THEN 1 ELSE 0)

\* While no save was cut short, counters differ and are ordered as the saves were.
AgeInv ==
  losses = 0 =>
    /\ \A i \in InList : Age(i) >= 1
    /\ \A i, j \in InList :
         i # j => /\ Age(i) # Age(j)
                  /\ Age(i) > Age(j) => <<slot[i].net.ssid, slot[j].net.ssid>> \in order

\* What the scan has found among the records it has seen, as long as none had a
\* counter that its uint8_t does not hold, and what a full list then gives up: the
\* last of the largest counters
ScanFinds ==
  /\ op.at = "scan" => /\ op.i = 0 => op.max = 0
                       /\ op.i > 0 => op.id < op.i /\ op.max = slot[op.id].cnt
                       /\ \A j \in 0..op.i-1 : slot[j].cnt <= op.max
                       /\ \A j \in 0..op.i-1 : j > op.id => slot[j].cnt < op.max
  /\ op.at = "write" /\ Stored(op.net.ssid) = {} /\ num = Max =>
       /\ \A j \in Counted : slot[j].cnt <= slot[op.id].cnt
       /\ \A j \in Counted : j > op.id => slot[j].cnt < slot[op.id].cnt

ScanInv == ~wrapped => ScanFinds

SameCounts == \A i \in Id : slot'[i].cnt = slot[i].cnt

LEMMA ResetKeepsCounts ==
  ASSUME TypeOK, NEW k \in 0..Max
  PROVE  \A i \in Id : ResetChoosen(slot, k)[i].cnt = slot[i].cnt
BY DEF TypeOK, ResetChoosen, SlotRec

\* The steps that leave counters alone
LEMMA CountSteps ==
  ListInv /\ [Next]_vars => (SameNets /\ SameCounts) \/ SaveInfo \/ SetCounter \/ SaveConf
<1> SUFFICES ASSUME ListInv, [Next]_vars, ~SaveInfo, ~SetCounter, ~SaveConf
             PROVE  SameNets /\ SameCounts
  OBVIOUS
<1>a. TypeOK /\ Counted \subseteq Id
  BY CountedAreIds DEF ListInv
<1>b. slot \in [Id -> SlotRec] /\ num \in 0..Max
  BY <1>a DEF TypeOK
<1>c. SameNets
  BY OtherSteps
<1>s. slot' = slot => SameCounts
  BY DEF SameCounts
<1>1. ASSUME NEW m \in {"setup", "station"}, Boot(m) PROVE SameCounts
  BY <1>1, <1>a, <1>b, ResetKeepsCounts DEF Boot, SameCounts
<1>2. CASE PowerLoss \/ (\E n \in Net : SaveBegin(n)) \/ Scan
  BY <1>2, <1>c, <1>s DEF PowerLoss, SaveBegin, Scan
<1>3. ASSUME NEW i \in Counted, Choose(i) PROVE SameCounts
  BY <1>3, <1>a, <1>b DEF Choose, SameCounts, SlotRec
<1>4. CASE Connect
  BY <1>4, <1>3, <1>c, <1>s DEF Connect, Candidates
<1>5. CASE Fallback
  BY <1>5, <1>3, <1>c DEF Fallback, Candidates
<1>6. CASE Associate \/ Disconnect \/ RangeChanges \/ UNCHANGED vars
  BY <1>6, <1>c, <1>s DEF Associate, Disconnect, RangeChanges, vars
<1> QED
  BY <1>c, <1>1, <1>2, <1>4, <1>5, <1>6 DEF Next, Save

\* A counter that a scan's uint8_t did not hold is not forgotten.
LEMMA WrapSteps ==
  ASSUME [Next]_vars
  PROVE  /\ wrapped' = wrapped \/ (Scan /\ wrapped' = (wrapped \/ slot[op.i].cnt >= Wrap))
         /\ wrapped => wrapped'
<1>1. CASE Scan
  BY <1>1, Zenon DEF Scan
<1>2. CASE ~Scan
  <2>1. wrapped' = wrapped
    BY <1>2 DEF Next, Save, Boot, PowerLoss, SaveBegin, SaveInfo, SetCounter, SaveConf,
       Connect, Fallback, Associate, Disconnect, RangeChanges, hist, vars
  <2> QED
    BY <2>1
<1> QED
  BY <1>1, <1>2

\* A call moves on, or is cut short, or nothing happens to it.
LEMMA OpSteps ==
  ASSUME ListInv, [Next]_vars, ~SaveInfo, ~SetCounter, ~SaveConf
  PROVE  \/ op' = op /\ losses' = losses /\ order' = order
         \/ PowerLoss
         \/ \E n \in Net : SaveBegin(n)
         \/ Scan
BY DEF Next, Save, Boot, Connect, Fallback, Associate, Disconnect, RangeChanges, hist, vars

LEMMA AgeStep == ListInv /\ AgeInv /\ [Next]_vars => AgeInv'
<1> SUFFICES ASSUME ListInv, AgeInv, [Next]_vars, losses' = 0 PROVE AgeInv'
  BY DEF AgeInv
<1>a. TypeOK /\ SaveInv /\ Counted \subseteq Id
  BY CountedAreIds DEF ListInv
<1>b. /\ slot \in [Id -> SlotRec] /\ num \in 0..Max /\ op \in OpRec
      /\ op.num \in 0..Max /\ op.i \in 0..Max /\ op.id \in Id /\ Max \in Nat
      /\ losses \in Nat
      /\ \A i \in Id : slot[i].cnt \in Nat
  BY <1>a, SsidAssumption DEF TypeOK, OpRec, SlotRec
<1>c. InList \subseteq Id
  <2>1. op.num \in 0..Max /\ Max \in Nat
    BY <1>b
  <2>2. 0..op.num-1 \subseteq Id
    BY <2>1 DEF Id
  <2> QED
    BY <1>a, <2>2 DEF InList
<1>d. losses = 0
  <2>1. PowerLoss \/ losses' = losses
    BY DEF Next, Save, Boot, SaveBegin, Scan, SaveInfo, SetCounter, SaveConf,
       Connect, Fallback, Associate, Disconnect, RangeChanges, hist, vars
  <2>2. losses' \in {losses, losses + 1}
    BY <2>1 DEF PowerLoss
  <2> QED
    BY <1>b, <2>2
<1>e. /\ \A i \in InList : Age(i) >= 1
      /\ \A i, j \in InList :
           i # j => /\ Age(i) # Age(j)
                    /\ Age(i) > Age(j) => <<slot[i].net.ssid, slot[j].net.ssid>> \in order
  BY <1>d DEF AgeInv
<1>z. ASSUME \A i \in Id : slot'[i].net = slot[i].net, order' = order, InList' = InList,
             \A i \in InList : Age(i)' = Age(i)
      PROVE  AgeInv'
  <2>1. \A i \in InList : slot'[i].net.ssid = slot[i].net.ssid
    BY <1>c, <1>z
  <2> DEFINE ages == [i \in InList |-> Age(i)']
  <2>2. \A i \in InList : Age(i)' = ages[i] /\ ages[i] = Age(i)
    BY <1>z
  <2> HIDE DEF ages
  <2>3. \A i \in InList' : Age(i)' >= 1
    BY <1>e, <1>z
  <2>4. ASSUME NEW i \in InList', NEW j \in InList', i # j
        PROVE  /\ Age(i)' # Age(j)'
               /\ Age(i)' > Age(j)' =>
                    <<slot'[i].net.ssid, slot'[j].net.ssid>> \in order'
    <3>1. i \in InList /\ j \in InList
      BY <1>z, <2>4
    <3>2. Age(i)' = Age(i) /\ Age(j)' = Age(j)
      BY <1>z, <3>1
    <3> QED
      BY <1>e, <1>z, <2>1, <2>4, <3>1, <3>2
  <2> QED
    BY <2>3, <2>4 DEF AgeInv
<1>1. CASE SaveInfo
  <2> DEFINE n == op.net
             others == {slot[i].net.ssid : i \in Counted \ {op.id}}
  <2>1. /\ op.at = "write" /\ Target(n, op.id, op.num) /\ InList = Counted
        /\ \A i \in Counted : Age(i) = slot[i].cnt
    BY <1>1, <1>a, <1>b DEF SaveInfo, SaveInv, InList, Age
  <2>2. /\ op'.at = "count" /\ op'.i = 0 /\ op'.num = op.num
        /\ slot'[op.id].net = n /\ slot'[op.id].cnt = 0
        /\ \A i \in Id \ {op.id} : slot'[i] = slot[i]
    <3>1. op' = [op EXCEPT !.at = "count", !.i = 0]
      BY <1>1 DEF SaveInfo
    <3>2. slot' = [slot EXCEPT ![op.id] = [NoSlot EXCEPT !.net = n]]
      BY <1>1 DEF SaveInfo
    <3> QED
      BY <1>b, <3>1, <3>2 DEF OpRec, NoSlot
  <2>3. order' = (order \cap (others \X others)) \cup (others \X {n.ssid})
    BY <1>1, <1>d DEF SaveInfo
  <2>4. InList' = 0..op.num-1 /\ InList' = Counted \cup {op.id}
    <3>1. InList' = 0..op.num-1
      BY <2>2 DEF InList
    <3> QED
      BY <1>b, <2>1, <3>1 DEF Target, Stored, Counted
  <2>5. \A i \in InList' : Age(i)' = IF i = op.id THEN 1 ELSE slot[i].cnt + 1
    <3>1. ASSUME NEW i \in InList' PROVE Age(i)' = slot'[i].cnt + 1
      BY <1>b, <2>2, <2>4, <3>1 DEF Age
    <3> QED
      BY <1>a, <1>b, <2>2, <2>4, <3>1
  <2>6. \A i \in Counted : slot[i].cnt >= 1 /\ slot[i].cnt \in Nat
    BY <1>a, <1>b, <1>e, <2>1
  <2>7. \A i \in InList' : Age(i)' >= 1
    BY <2>4, <2>5, <2>6
  <2>8. ASSUME NEW i \in InList', NEW j \in InList', i # j
        PROVE  /\ Age(i)' # Age(j)'
               /\ Age(i)' > Age(j)' =>
                    <<slot'[i].net.ssid, slot'[j].net.ssid>> \in order'
    <3>1. CASE i = op.id
      <4>1. j \in Counted /\ Age(i)' = 1 /\ Age(j)' = slot[j].cnt + 1
        BY <2>4, <2>5, <2>8, <3>1
      <4> QED
        BY <2>6, <4>1
    <3>2. CASE j = op.id
      <4>1. i \in Counted \ {op.id} /\ Age(j)' = 1 /\ Age(i)' = slot[i].cnt + 1
        BY <2>4, <2>5, <2>8, <3>2
      <4>2. slot'[i].net.ssid \in others /\ slot'[j].net.ssid = n.ssid
        BY <1>a, <2>2, <3>2, <4>1
      <4> QED
        BY <2>3, <2>6, <4>1, <4>2
    <3>3. CASE i # op.id /\ j # op.id
      <4>1. /\ i \in Counted \ {op.id} /\ j \in Counted \ {op.id}
            /\ Age(i)' = slot[i].cnt + 1 /\ Age(j)' = slot[j].cnt + 1
        BY <2>4, <2>5, <3>3
      <4>2. /\ slot'[i].net.ssid = slot[i].net.ssid /\ slot[i].net.ssid \in others
            /\ slot'[j].net.ssid = slot[j].net.ssid /\ slot[j].net.ssid \in others
        BY <1>a, <2>2, <4>1
      <4>3. /\ slot[i].cnt # slot[j].cnt
            /\ slot[i].cnt > slot[j].cnt =>
                 <<slot[i].net.ssid, slot[j].net.ssid>> \in order
        BY <1>e, <2>1, <2>8, <4>1
      <4> QED
        BY <2>3, <2>6, <4>1, <4>2, <4>3
    <3> QED
      BY <3>1, <3>2, <3>3
  <2> QED
    BY <2>7, <2>8 DEF AgeInv
<1>2. CASE SetCounter
  <2>1. /\ op.at = "count" /\ op.i < op.num /\ op.i \in Id
        /\ slot' = [slot EXCEPT ![op.i].cnt = @ + 1] /\ order' = order
        /\ op' = [op EXCEPT !.i  = op.i + 1,
                            !.at = IF op.i + 1 < op.num THEN "count" ELSE "conf"]
    BY <1>2, <1>a, <1>b DEF SetCounter, SaveInv, Id, hist
  <2>2. /\ op'.i = op.i + 1 /\ op'.num = op.num
        /\ op'.at = IF op.i + 1 < op.num THEN "count" ELSE "conf"
    BY <1>b, <2>1 DEF OpRec
  <2>3. \A i \in Id : /\ slot'[i].net = slot[i].net
                      /\ slot'[i].cnt = IF i = op.i THEN slot[i].cnt + 1 ELSE slot[i].cnt
    BY <1>b, <2>1 DEF SlotRec
  <2>4. InList = 0..op.num-1 /\ InList' = 0..op.num-1
    BY <2>1, <2>2 DEF InList
  <2>5. ASSUME NEW i \in InList PROVE Age(i)' = Age(i)
    <3>1. Age(i) = slot[i].cnt + (IF i >= op.i THEN 1 ELSE 0)
      BY <2>1 DEF Age
    <3>2. Age(i)' = slot'[i].cnt + (IF i >= op.i + 1 THEN 1 ELSE 0)
      BY <1>b, <2>2, <2>4 DEF Age
    <3>3. i \in Id /\ i \in Nat /\ slot[i].cnt \in Nat
      BY <1>b, <1>c, <2>4
    <3> QED
      BY <1>b, <2>3, <3>1, <3>2, <3>3
  <2> QED
    BY <1>z, <2>1, <2>3, <2>4, <2>5
<1>3. CASE SaveConf
  <2>1. /\ op.at = "conf" /\ num' = op.num /\ op' = Idle /\ order' = order
        /\ slot' = ResetChoosen(slot, op.num)
    BY <1>3 DEF SaveConf
  <2>2. \A i \in Id : slot'[i].net = slot[i].net /\ slot'[i].cnt = slot[i].cnt
    BY <1>a, <1>b, <2>1, ResetKeepsNets, ResetKeepsCounts
  <2>3. InList' = InList
    BY <2>1 DEF InList, Counted, Idle
  <2>4. \A i \in InList : Age(i)' = Age(i)
    BY <1>c, <2>1, <2>2 DEF Age, Idle
  <2> QED
    BY <1>z, <2>1, <2>2, <2>3, <2>4
<1>4. CASE ~SaveInfo /\ ~SetCounter /\ ~SaveConf
  <2>1. SameNets /\ SameCounts
    BY <1>4, CountSteps
  <2>2. CASE op' = op /\ losses' = losses /\ order' = order
    <3>1. InList' = InList
      BY <2>1, <2>2 DEF InList, Counted, SameNets
    <3>2. \A i \in InList : Age(i)' = Age(i)
      BY <1>c, <2>1, <2>2 DEF Age, SameCounts
    <3> QED
      BY <1>z, <2>1, <2>2, <3>1, <3>2 DEF SameNets
  <2>3. CASE op.at \notin {"count", "conf"} /\ op'.at \notin {"count", "conf"} /\ order' = order
    <3>1. InList' = InList
      BY <2>1, <2>3 DEF InList, Counted, SameNets
    <3>2. \A i \in InList : Age(i)' = Age(i)
      BY <1>c, <2>1, <2>3 DEF Age, SameCounts
    <3> QED
      BY <1>z, <2>1, <2>3, <3>1, <3>2 DEF SameNets
  <2>4. CASE PowerLoss
    <3>1. op.at \notin {"count", "conf"} /\ order' = order
      BY <1>d, <2>4 DEF PowerLoss
    <3>2. op'.at = "none"
      BY <2>4 DEF PowerLoss, Idle
    <3> QED
      BY <2>3, <3>1, <3>2
  <2>5. CASE \E n \in Net : SaveBegin(n)
    <3>1. op.at = "none" /\ op'.at \in {"write", "scan"} /\ order' = order
      BY <2>5 DEF SaveBegin, Idle, hist
    <3> QED
      BY <2>3, <3>1
  <2>6. CASE Scan
    <3>1. op.at = "scan" /\ op'.at \in {"write", "scan"} /\ order' = order
      BY <1>b, <2>6 DEF Scan, OpRec, hist
    <3> QED
      BY <2>3, <3>1
  <2> QED
    BY <1>4, <2>2, <2>4, <2>5, <2>6, OpSteps
<1> QED
  BY <1>1, <1>2, <1>3, <1>4

LEMMA ScanStep ==
  ASSUME ListInv, ScanInv, [Next]_vars
  PROVE  ScanInv'
<1> SUFFICES ASSUME ~wrapped' PROVE ScanFinds'
  BY DEF ScanInv
<1>c. ~wrapped /\ ScanFinds
  BY WrapSteps DEF ScanInv
<1>a. TypeOK /\ NamesDistinct /\ SaveInv /\ Counted \subseteq Id
  BY CountedAreIds DEF ListInv
<1>b. /\ slot \in [Id -> SlotRec] /\ num \in 0..Max /\ op \in OpRec
      /\ op.i \in 0..Max /\ op.id \in Id /\ op.max \in 0..Wrap-1
      /\ Max \in Nat /\ Wrap \in Nat /\ Wrap > 0
      /\ \A i \in Id : slot[i].cnt \in Nat
  BY <1>a, SsidAssumption DEF TypeOK, OpRec, SlotRec
<1>1. CASE SaveInfo \/ SetCounter \/ SaveConf
  <2>1. CASE SaveInfo
    <3>1. op' = [op EXCEPT !.at = "count", !.i = 0]
      BY <2>1 DEF SaveInfo
    <3>2. op'.at = "count"
      BY <1>b, <3>1 DEF OpRec
    <3> QED
      BY <3>2 DEF ScanFinds
  <2>2. CASE SetCounter
    <3>1. op' = [op EXCEPT !.i  = op.i + 1,
                           !.at = IF op.i + 1 < op.num THEN "count" ELSE "conf"]
      BY <2>2 DEF SetCounter
    <3>2. op'.at \in {"count", "conf"}
      BY <1>b, <3>1 DEF OpRec
    <3> QED
      BY <3>2 DEF ScanFinds
  <2>3. CASE SaveConf
    <3>1. op'.at = "none"
      BY <2>3 DEF SaveConf, Idle
    <3> QED
      BY <3>1 DEF ScanFinds
  <2> QED
    BY <1>1, <2>1, <2>2, <2>3
<1>2. CASE ~SaveInfo /\ ~SetCounter /\ ~SaveConf
  <2>1. SameNets /\ SameCounts
    BY <1>2, CountSteps
  <2>2. /\ Counted' = Counted /\ num' = num
        /\ \A t : Stored(t)' = Stored(t)
        /\ \A i \in Id : slot'[i].cnt = slot[i].cnt
    BY <1>a, <2>1, SameNetsKeeps DEF SameNets, SameCounts
  <2>3. CASE op' = op
    <3>1. op.at = "scan" => \A j \in 0..op.i-1 : j \in Id
      BY <1>b DEF Id
    <3> QED
      BY <1>a, <1>b, <1>c, <2>2, <2>3, <3>1 DEF ScanFinds
  <2>4. CASE PowerLoss
    BY <2>4 DEF PowerLoss, Idle, ScanFinds
  <2>5. ASSUME NEW n \in Net, SaveBegin(n) PROVE ScanFinds'
    <3>2. CASE op'.at = "scan" /\ op'.i = 0 /\ op'.max = 0
      BY <1>b, <3>2 DEF ScanFinds
    <3>3. CASE op'.at = "write" /\ op'.net = n /\ (Stored(n.ssid) # {} \/ num < Max)
      <4>1. ~(Stored(op.net.ssid)' = {} /\ num' = Max)
        <5>1. Stored(n.ssid)' # {} \/ num' # Max
          BY <1>b, <2>2, <3>3
        <5>2. Stored(op.net.ssid)' = Stored(n.ssid)'
          BY <3>3 DEF Stored
        <5> QED
          BY <5>1, <5>2
      <4> QED
        BY <3>3, <4>1 DEF ScanFinds
    <3> QED
      BY <2>5, <3>2, <3>3 DEF SaveBegin, Idle
  <2>6. CASE Scan
    <3> DEFINE c == slot[op.i].cnt
               found == c >= op.max
    <3>1. /\ op.at = "scan" /\ op.i \in Counted /\ num = Max
          /\ op.i \in Id /\ c \in Nat
          /\ op.i = 0 => op.max = 0
          /\ op.i > 0 => op.id < op.i /\ op.max = slot[op.id].cnt
          /\ \A j \in 0..op.i-1 : slot[j].cnt <= op.max
          /\ \A j \in 0..op.i-1 : j > op.id => slot[j].cnt < op.max
      BY <1>a, <1>b, <1>c, <2>6 DEF Scan, SaveInv, ScanFinds
    <3>2. c % Wrap = c
      <4>1. ~(c >= Wrap)
        BY <2>6 DEF Scan
      <4> QED
        BY <1>b, <3>1, <4>1
    <3>3. /\ op'.max = IF found THEN c ELSE op.max
          /\ op'.id = IF found THEN op.i ELSE op.id
          /\ op'.i = IF op.i + 1 < num THEN op.i + 1 ELSE 0
          /\ op'.at = IF op.i + 1 < num THEN "scan" ELSE "write"
      BY <1>b, <2>6, <3>2 DEF Scan, OpRec
    <3>4. op'.id < op.i + 1 /\ op'.id \in Id /\ op'.max = slot[op'.id].cnt
      BY <1>b, <3>1, <3>3 DEF Id
    <3>5. \A j \in 0..op.i : slot[j].cnt <= op'.max
      <4>1. op.max <= op'.max /\ c <= op'.max
        BY <1>b, <3>1, <3>3
      <4>2. ASSUME NEW j \in 0..op.i PROVE slot[j].cnt <= op'.max
        <5>1. j \in Id /\ slot[j].cnt \in Nat /\ op'.max \in Nat /\ op.max \in Nat
          BY <1>b, <3>1, <3>3 DEF Id
        <5>2. CASE j = op.i
          BY <4>1, <5>2
        <5>3. CASE j \in 0..op.i-1
          BY <3>1, <4>1, <5>1, <5>3
        <5> QED
          BY <1>b, <5>2, <5>3
      <4> QED
        BY <4>2
    <3>6. ASSUME NEW j \in 0..op.i, j > op'.id PROVE slot[j].cnt < op'.max
      <4>1. j \in Id /\ slot[j].cnt \in Nat /\ op.i \in Nat /\ j \in Nat
        BY <1>b, <3>1 DEF Id
      <4>2. ~found /\ op'.id = op.id /\ op'.max = op.max
        BY <1>b, <3>3, <3>6, <4>1
      <4>3. CASE j = op.i
        BY <1>b, <3>1, <4>2, <4>3
      <4>4. CASE j \in 0..op.i-1
        BY <3>1, <3>6, <4>2, <4>4
      <4> QED
        BY <4>1, <4>3, <4>4
    <3>7. CASE op.i + 1 < num
      <4>1. op'.at = "scan" /\ op'.i = op.i + 1 /\ op'.i > 0
        BY <1>b, <3>3, <3>7
      <4>2. \A j \in 0..op'.i-1 : /\ j \in Id /\ slot'[j].cnt <= op'.max
                                  /\ j > op'.id => slot'[j].cnt < op'.max
        BY <1>b, <2>2, <3>1, <3>5, <3>6, <4>1 DEF Id
      <4> QED
        BY <1>b, <2>2, <3>1, <3>4, <4>1, <4>2 DEF ScanFinds
    <3>8. CASE ~(op.i + 1 < num)
      <4>1. op'.at = "write" /\ \A j \in Counted : j \in 0..op.i
        BY <1>b, <3>1, <3>3, <3>8 DEF Counted
      <4>2. \A j \in Counted : /\ slot'[j].cnt <= slot'[op'.id].cnt
                               /\ j > op'.id => slot'[j].cnt < slot'[op'.id].cnt
        BY <1>a, <2>2, <3>4, <3>5, <3>6, <4>1
      <4> QED
        BY <1>b, <2>2, <3>1, <4>1, <4>2 DEF ScanFinds
    <3> QED
      BY <3>7, <3>8
  <2> QED
    BY <1>2, <2>3, <2>4, <2>5, <2>6, OpSteps
<1> QED
  BY <1>1, <1>2

LEMMA EvictsOldest ==
  ASSUME ListInv, AgeInv, ScanInv, losses = 0, ~wrapped, Evicting
  PROVE  \A i \in Counted \ {op.id} : <<slot[op.id].net.ssid, slot[i].net.ssid>> \in order
<1> SUFFICES ASSUME NEW i \in Counted \ {op.id}
             PROVE  <<slot[op.id].net.ssid, slot[i].net.ssid>> \in order
  OBVIOUS
<1>1. TypeOK /\ SaveInv /\ Counted \subseteq Id
  BY CountedAreIds DEF ListInv
<1>2. /\ op.at = "write" /\ op.id < num /\ slot[op.id].net.ssid # op.net.ssid
      /\ Target(op.net, op.id, op.num)
  BY <1>1 DEF Evicting, SaveInv
<1>3. op.id \in Counted /\ Stored(op.net.ssid) = {} /\ num = Max
  BY <1>1, <1>2 DEF Target, Stored, TypeOK
<1>4. slot[i].cnt <= slot[op.id].cnt /\ slot[i].cnt \in Nat /\ slot[op.id].cnt \in Nat
  BY <1>1, <1>2, <1>3 DEF ScanInv, ScanFinds, TypeOK, SlotRec
<1>5. InList = Counted /\ Age(i) = slot[i].cnt /\ Age(op.id) = slot[op.id].cnt
  BY <1>2, <1>4 DEF InList, Age
<1> QED
  BY <1>3, <1>4, <1>5 DEF AgeInv

\* As long as no save was cut short and no scan has met a counter that its uint8_t
\* does not hold, the network that gives way is the one saved the longest ago
\* (OldestGivesWay), for any capacity of the list and any width of the scan.
THEOREM OldestFirst == Spec => OldestGivesWay
<1>1. Init => AgeInv /\ ScanInv
  BY DEF Init, AgeInv, ScanInv, ScanFinds, InList, Counted, Idle
<1>2. ListInv /\ AgeInv /\ ScanInv /\ [Next]_vars => AgeInv' /\ ScanInv'
  BY AgeStep, ScanStep
<1>3. ListInv /\ AgeInv /\ ScanInv /\ [Next]_vars =>
        [losses = 0 /\ ~wrapped /\ Evicting =>
           \A i \in Counted \ {op.id} :
             <<slot[op.id].net.ssid, slot[i].net.ssid>> \in order]_vars
  BY EvictsOldest
<1> QED
  BY <1>1, <1>2, <1>3, ListInvariant, PTL DEF Spec, OldestGivesWay

-----------------------------------------------------------------------------
(* The network saved last.  A save cut short puts its own record in front  *)
(* and counts some of the others only, so counters get closer; but not all *)
(* of them at once.                                                        *)

LEMMA Smaller ==
  ASSUME NEW S, NEW T, IsFiniteSet(T), S \subseteq T, NEW k \in Int, Cardinality(T) <= k
  PROVE  Cardinality(S) <= k
<1>1. /\ IsFiniteSet(S) /\ Cardinality(S) <= Cardinality(T)
      /\ Cardinality(S) \in Nat /\ Cardinality(T) \in Nat
  BY FS_Subset, FS_CardinalityType
<1> QED BY <1>1

LEMMA OneMore ==
  ASSUME NEW S, NEW T, NEW x, IsFiniteSet(T), S \subseteq T \cup {x},
         NEW k \in Int, Cardinality(T) <= k
  PROVE  Cardinality(S) <= k + 1
<1> DEFINE U == T \cup {x}
<1>1. /\ IsFiniteSet(U) /\ Cardinality(T) \in Nat
      /\ Cardinality(U) = Cardinality(T) \/ Cardinality(U) = Cardinality(T) + 1
  BY FS_AddElement, FS_CardinalityType
<1>2. S \subseteq U /\ k + 1 \in Int
  OBVIOUS
<1> HIDE DEF U
<1>3. Cardinality(U) <= k + 1
  BY <1>1
<1> QED BY <1>1, <1>2, <1>3, Smaller

LEMMA OneLess ==
  ASSUME NEW S, NEW T, NEW x \in T, IsFiniteSet(T), S \subseteq T \ {x},
         NEW k \in Int, Cardinality(T) <= k
  PROVE  Cardinality(S) <= k - 1
<1> DEFINE U == T \ {x}
<1>1. IsFiniteSet(U) /\ Cardinality(U) = Cardinality(T) - 1 /\ Cardinality(T) \in Nat
  BY FS_RemoveElement, FS_CardinalityType
<1>2. S \subseteq U /\ k - 1 \in Int
  OBVIOUS
<1> HIDE DEF U
<1>3. Cardinality(U) <= k - 1
  BY <1>1
<1> QED BY <1>1, <1>2, <1>3, Smaller

\* The save between its first commit and its last
Committing == op.at \in {"count", "conf"}

\* The counters before that save, of the records it does not write
Old(j) == IF Committing /\ j < op.i THEN slot[j].cnt - 1 ELSE slot[j].cnt
Spared == IF Committing THEN Counted \ {op.id} ELSE Counted

\* The records that give way after the one with counter v and index l
Low(v)      == {j \in Spared : Old(j) <= v}
Below(l, v) == {j \in Spared \ {l} : Old(j) < v \/ (Old(j) = v /\ j < l)}

\* What a save has done to the counters so far
CommitInv ==
  Committing =>
    /\ op.id < op.num /\ slot[op.id].net = op.net
    /\ op.num = num \/ (op.num = num + 1 /\ op.id = num)
    /\ slot[op.id].cnt = IF op.id < op.i THEN 1 ELSE 0
    /\ \A j \in Id : j < op.i => slot[j].cnt >= 1
    /\ op.at = "conf" => op.i = op.num

\* Each cut adds one low counter at most, and brings the network saved last one
\* step closer to the others at most; where each cut did, the others it has
\* passed are bounded apart.
CutInv ==
  /\ \A v \in Nat : Cardinality(Low(v)) <= v + losses
  /\ \A l \in Spared : slot[l].net.ssid \in last =>
       /\ Old(l) <= 1 + losses
       /\ Old(l) = 1 + losses /\ losses >= 1 =>
            \A v \in Nat : v >= Old(l) =>
              Cardinality(Below(l, v)) <= 2 * losses - 1 + (v - Old(l))

LEMMA SparedTypes ==
  ASSUME ListInv, CommitInv
  PROVE  /\ Spared \subseteq Id /\ IsFiniteSet(Spared) /\ losses \in Nat
         /\ \A j \in Spared : Old(j) \in Nat /\ j \in Nat
         /\ \A v : IsFiniteSet(Low(v)) /\ \A l : IsFiniteSet(Below(l, v))
<1>1. /\ Counted \subseteq Id /\ slot \in [Id -> SlotRec] /\ num \in 0..Max /\ Max \in Nat
      /\ losses \in 0..MaxLoss /\ MaxLoss \in Nat
  BY CountedAreIds, SsidAssumption DEF ListInv, TypeOK
<1>2. Spared \subseteq Counted
  BY DEF Spared
<1>3. IsFiniteSet(Counted)
  BY <1>1, FS_Interval DEF Counted
<1>4. \A j \in Id : slot[j].cnt \in Nat /\ j \in Nat
  BY <1>1 DEF SlotRec, Id
<1>5. \A j \in Spared : Old(j) \in Nat
  <2> SUFFICES ASSUME NEW j \in Spared PROVE Old(j) \in Nat
    OBVIOUS
  <2>1. j \in Id /\ slot[j].cnt \in Nat
    BY <1>1, <1>2, <1>4
  <2>2. Committing /\ j < op.i => slot[j].cnt >= 1
    BY <2>1 DEF CommitInv
  <2> QED BY <2>1, <2>2 DEF Old
<1>6. IsFiniteSet(Spared)
  BY <1>2, <1>3, FS_Subset
<1>7. \A v : Low(v) \subseteq Spared /\ \A l : Below(l, v) \subseteq Spared
  BY DEF Low, Below
<1> QED BY <1>1, <1>2, <1>4, <1>5, <1>6, <1>7, FS_Subset

\* Nothing happens to the records that are spared.
LEMMA CutStays ==
  ASSUME ListInv, CommitInv, CutInv, Spared' \subseteq Spared, losses' = losses, last' = last,
         \A j \in Spared' : Old(j)' = Old(j) /\ slot'[j].net.ssid = slot[j].net.ssid
  PROVE  CutInv'
<1>1. /\ losses \in Nat /\ \A j \in Spared : Old(j) \in Nat
      /\ \A v : IsFiniteSet(Low(v)) /\ \A l : IsFiniteSet(Below(l, v))
  BY SparedTypes
<1>2. ASSUME NEW v \in Nat PROVE Cardinality(Low(v)') <= v + losses'
  <2>1. Low(v)' \subseteq Low(v)
    BY DEF Low
  <2>2. Cardinality(Low(v)) <= v + losses /\ v + losses \in Int
    BY <1>1 DEF CutInv
  <2> QED BY <1>1, <2>1, <2>2, Smaller
<1>3. ASSUME NEW l \in Spared', slot'[l].net.ssid \in last'
      PROVE  /\ Old(l)' <= 1 + losses'
             /\ Old(l)' = 1 + losses' /\ losses' >= 1 =>
                  \A v \in Nat : v >= Old(l)' =>
                    Cardinality(Below(l, v)') <= 2 * losses' - 1 + (v - Old(l)')
  <2>1. /\ l \in Spared /\ slot[l].net.ssid \in last /\ Old(l)' = Old(l)
    BY <1>3
  <2>2. Old(l) <= 1 + losses /\ Old(l) \in Nat
    BY <1>1, <2>1 DEF CutInv
  <2>3. ASSUME Old(l) = 1 + losses, losses >= 1, NEW v \in Nat, v >= Old(l)
        PROVE  Cardinality(Below(l, v)') <= 2 * losses - 1 + (v - Old(l))
    <3>1. Below(l, v)' \subseteq Below(l, v)
      BY DEF Below
    <3>2. /\ Cardinality(Below(l, v)) <= 2 * losses - 1 + (v - Old(l))
          /\ 2 * losses - 1 + (v - Old(l)) \in Int
      BY <1>1, <2>1, <2>2, <2>3 DEF CutInv
    <3> QED BY <1>1, <3>1, <3>2, Smaller
  <2> QED BY <2>1, <2>2, <2>3
<1> QED BY <1>2, <1>3 DEF CutInv

\* Power fails in the middle of a save.
LEMMA CutByPowerLoss ==
  ASSUME ListInv, CommitInv, CutInv, Committing, PowerLoss
  PROVE  CutInv'
<1>1. /\ losses \in Nat /\ Spared \subseteq Id
      /\ \A j \in Spared : Old(j) \in Nat /\ j \in Nat
      /\ \A v : IsFiniteSet(Low(v)) /\ \A l : IsFiniteSet(Below(l, v))
  BY SparedTypes
<1>d. PICK d \in Id : d = op.id
  BY DEF ListInv, TypeOK, OpRec, Id
<1>2. /\ slot' = slot /\ num' = num /\ last' = last /\ losses' = losses + 1 /\ ~Committing'
  BY DEF PowerLoss, Committing, Idle
<1>3. Spared' \subseteq Spared \cup {d} /\ \A j : Old(j)' = slot[j].cnt
  BY <1>d, <1>2 DEF Spared, Counted, Old
<1>4. \A j \in Spared : Old(j)' = IF j < op.i THEN Old(j) + 1 ELSE Old(j)
  <2> SUFFICES ASSUME NEW j \in Spared PROVE Old(j)' = IF j < op.i THEN Old(j) + 1 ELSE Old(j)
    OBVIOUS
  <2>1. slot[j].cnt \in Nat
    BY <1>1 DEF ListInv, TypeOK, SlotRec
  <2> QED BY <1>3, <2>1 DEF Old
<1>5. Old(d)' <= 1 /\ Old(d)' \in Nat /\ d \in Nat
  BY <1>d, <1>3 DEF CommitInv, ListInv, TypeOK, SlotRec, Id
<1>6. op.i \in Nat
  BY DEF ListInv, TypeOK, OpRec
<1>7. ASSUME NEW v \in Nat PROVE Cardinality(Low(v)') <= v + losses'
  <2>1. Low(v)' \subseteq Low(v) \cup {d}
    BY <1>1, <1>3, <1>4 DEF Low
  <2>2. Cardinality(Low(v)) <= v + losses /\ v + losses \in Int
    BY <1>1 DEF CutInv
  <2>3. Cardinality(Low(v)') <= v + losses + 1
    BY <1>1, <2>1, <2>2, OneMore
  <2> QED BY <1>1, <1>2, <2>3
<1>8. ASSUME NEW l \in Spared', slot'[l].net.ssid \in last'
      PROVE  Old(l)' <= 1 + losses'
  <2>1. CASE l = d
    BY <1>1, <1>2, <1>3, <1>5, <2>1
  <2>2. CASE l \in Spared
    <3>1. Old(l) <= 1 + losses
      BY <1>2, <1>8, <2>2 DEF CutInv
    <3> QED BY <1>1, <1>2, <1>4, <2>2, <3>1
  <2> QED BY <1>3, <2>1, <2>2
<1>9. ASSUME NEW l \in Spared', slot'[l].net.ssid \in last', Old(l)' = 1 + losses', losses' >= 1,
             NEW v \in Nat, v >= Old(l)'
      PROVE  Cardinality(Below(l, v)') <= 2 * losses' - 1 + (v - Old(l)')
  <2>1. l \in Spared /\ l # d
    BY <1>1, <1>2, <1>3, <1>5, <1>9
  <2>2. /\ slot[l].net.ssid \in last /\ Old(l) = 1 + losses /\ Old(l)' = 2 + losses
        /\ l < op.i /\ Old(l) \in Nat /\ l \in Nat
    <3>1. Old(l) <= 1 + losses
      BY <1>2, <1>9, <2>1 DEF CutInv
    <3> QED BY <1>1, <1>2, <1>4, <1>9, <2>1, <3>1
  <2>3. ASSUME NEW j \in Below(l, v)', j # d
        PROVE  /\ j \in Spared /\ j # l /\ Old(j) \in Nat /\ j \in Nat
               /\ Old(j) < v
    <3>1. j \in Spared /\ j # l /\ (Old(j)' < v \/ (Old(j)' = v /\ j < l))
      BY <1>3, <2>3 DEF Below
    <3>2. Old(j) \in Nat /\ j \in Nat
      BY <1>1, <3>1
    <3> QED BY <1>4, <1>6, <2>2, <3>1, <3>2
  <2>4. CASE losses >= 1
    <3>1. Below(l, v)' \subseteq Below(l, v) \cup {d}
      BY <2>3 DEF Below
    <3>2. /\ Cardinality(Below(l, v)) <= 2 * losses - 1 + (v - Old(l))
          /\ 2 * losses - 1 + (v - Old(l)) \in Int
      BY <1>1, <1>9, <2>1, <2>2, <2>4 DEF CutInv
    <3>3. Cardinality(Below(l, v)') <= 2 * losses - 1 + (v - Old(l)) + 1
      BY <1>1, <3>1, <3>2, OneMore
    <3> QED BY <1>1, <1>2, <2>2, <3>3
  <2>5. CASE losses = 0
    <3> DEFINE X == Low(v - 1) \ {l}
    <3>1. v - 1 \in Nat /\ l \in Low(v - 1)
      BY <1>9, <2>1, <2>2, <2>5 DEF Low
    <3>2. Below(l, v)' \subseteq X \cup {d}
      <4> SUFFICES ASSUME NEW j \in Below(l, v)', j # d PROVE j \in X
        OBVIOUS
      <4>1. j \in Spared /\ j # l /\ Old(j) <= v - 1
        BY <2>3, <3>1
      <4> QED BY <4>1 DEF Low
    <3>3. Cardinality(Low(v - 1)) <= v - 1 /\ IsFiniteSet(Low(v - 1)) /\ v - 1 \in Int
      BY <1>1, <2>5, <3>1 DEF CutInv
    <3>4. IsFiniteSet(X) /\ X \subseteq Low(v - 1) \ {l}
      BY <3>3, FS_Subset
    <3> HIDE DEF X
    <3>5. Cardinality(X) <= v - 1 - 1 /\ v - 1 - 1 \in Int
      BY <3>1, <3>3, <3>4, OneLess
    <3>6. Cardinality(Below(l, v)') <= v - 1 - 1 + 1
      BY <3>2, <3>4, <3>5, OneMore
    <3> QED BY <1>2, <2>2, <2>5, <3>6
  <2> QED BY <1>1, <2>4, <2>5
<1> QED BY <1>7, <1>8, <1>9 DEF CutInv

\* A save ends: every record was counted, and its own last of all.
LEMMA CutBySaveConf ==
  ASSUME ListInv, NamesDistinct', CommitInv, CutInv, SaveConf
  PROVE  CutInv'
<1>1. /\ losses \in Nat /\ Spared \subseteq Id
      /\ \A j \in Spared : Old(j) \in Nat /\ j \in Nat
      /\ \A v : IsFiniteSet(Low(v))
  BY SparedTypes
<1>d. PICK d \in Id : d = op.id
  BY DEF ListInv, TypeOK, OpRec, Id
<1>2. /\ Committing /\ op.at = "conf" /\ op.i = op.num /\ op.id < op.num
      /\ op.id \in Id /\ op.num \in 0..Max /\ num \in 0..Max /\ Max \in Nat
      /\ slot[op.id].cnt = 1 /\ slot[op.id].net = op.net
      /\ op.num = num \/ (op.num = num + 1 /\ op.id = num)
  BY SsidAssumption DEF SaveConf, Committing, CommitInv, ListInv, TypeOK, OpRec
<1>3. /\ num' = op.num /\ ~Committing' /\ last' = {op.net.ssid} /\ losses' = losses
      /\ \A j \in Id : slot'[j].cnt = slot[j].cnt /\ slot'[j].net = slot[j].net
  BY <1>2, ResetKeepsNets, ResetKeepsCounts DEF SaveConf, Committing, Idle, ListInv
<1>4. Spared' = Spared \cup {d} /\ Spared' = Counted' /\ d \in Counted'
  <2>1. Spared' = 0..op.num-1 /\ Counted' = 0..op.num-1
    BY <1>3 DEF Spared, Counted
  <2>2. Spared = (0..num-1) \ {d}
    BY <1>d, <1>2 DEF Spared, Counted
  <2> QED BY <1>d, <1>2, <2>1, <2>2 DEF Id
<1>5. \A j \in Spared : Old(j)' = Old(j) + 1
  <2> SUFFICES ASSUME NEW j \in Spared PROVE Old(j)' = Old(j) + 1
    OBVIOUS
  <2>1. j \in Id /\ slot[j].cnt \in Nat /\ Old(j)' = slot[j].cnt
    BY <1>1, <1>3 DEF ListInv, TypeOK, SlotRec, Old
  <2>2. j < op.i
    BY <1>d, <1>2, <1>4 DEF Counted, Spared
  <2> QED BY <1>2, <2>1, <2>2 DEF Old
<1>6. Old(d)' = 1
  BY <1>d, <1>2, <1>3 DEF Old
<1>7. ASSUME NEW v \in Nat PROVE Cardinality(Low(v)') <= v + losses'
  <2>1. CASE v = 0
    <3>1. Low(v)' = {}
      BY <1>1, <1>4, <1>5, <1>6, <2>1 DEF Low
    <3> QED BY <1>1, <1>3, <3>1, FS_EmptySet
  <2>2. CASE v >= 1
    <3>1. v - 1 \in Nat
      BY <2>2
    <3>2. Low(v)' \subseteq Low(v - 1) \cup {d}
      BY <1>1, <1>4, <1>5, <3>1 DEF Low
    <3>3. Cardinality(Low(v - 1)) <= v - 1 + losses /\ v - 1 + losses \in Int
      BY <1>1, <3>1 DEF CutInv
    <3>4. Cardinality(Low(v)') <= v - 1 + losses + 1
      BY <1>1, <3>2, <3>3, OneMore
    <3> QED BY <1>1, <1>3, <3>4
  <2> QED BY <2>1, <2>2
<1>8. ASSUME NEW l \in Spared', slot'[l].net.ssid \in last' PROVE l = d
  <2>1. slot'[l].net.ssid = slot'[d].net.ssid
    BY <1>d, <1>2, <1>3, <1>8
  <2> QED BY <1>4, <2>1 DEF NamesDistinct
<1>9. ASSUME NEW l \in Spared', slot'[l].net.ssid \in last'
      PROVE  Old(l)' <= 1 + losses' /\ ~(Old(l)' = 1 + losses' /\ losses' >= 1)
  <2>1. l = d
    BY <1>8, <1>9
  <2> QED BY <1>1, <1>3, <1>6, <2>1
<1> QED BY <1>7, <1>9 DEF CutInv

LEMMA CommitStep ==
  ASSUME ListInv, CommitInv, [Next]_vars
  PROVE  CommitInv'
<1>a. TypeOK /\ SaveInv /\ Counted \subseteq Id
  BY CountedAreIds DEF ListInv
<1>b. /\ slot \in [Id -> SlotRec] /\ num \in 0..Max /\ Max \in Nat /\ op \in OpRec
      /\ op.id \in Id /\ op.i \in 0..Max /\ op.num \in 0..Max
      /\ \A j \in Id : slot[j].cnt \in Nat /\ j \in Nat
  BY <1>a, SsidAssumption DEF TypeOK, OpRec, SlotRec, Id
<1>1. CASE SaveInfo
  <2>1. op.at = "write" /\ Target(op.net, op.id, op.num)
    BY <1>1, <1>a DEF SaveInfo, SaveInv
  <2>2. op.id < op.num /\ (op.num = num \/ (op.num = num + 1 /\ op.id = num))
    BY <1>b, <2>1 DEF Target, Stored, Counted
  <2>3. /\ op' = [op EXCEPT !.at = "count", !.i = 0] /\ num' = num
        /\ slot' = [slot EXCEPT ![op.id] = [NoSlot EXCEPT !.net = op.net]]
    BY <1>1 DEF SaveInfo
  <2>4. op'.at = "count" /\ op'.i = 0 /\ op'.id = op.id /\ op'.num = op.num /\ op'.net = op.net
    BY <1>b, <2>3 DEF OpRec
  <2>5. slot'[op.id].net = op.net /\ slot'[op.id].cnt = 0
    BY <1>b, <2>3 DEF NoSlot
  <2> QED BY <1>b, <2>2, <2>3, <2>4, <2>5 DEF CommitInv
<1>2. CASE SetCounter
  <2>1. op.at = "count" /\ op.i < op.num /\ op.i \in Id /\ Committing
    BY <1>2, <1>a, <1>b DEF SetCounter, SaveInv, Id, Committing
  <2>2. /\ slot' = [slot EXCEPT ![op.i].cnt = @ + 1] /\ num' = num
        /\ op' = [op EXCEPT !.i  = op.i + 1,
                            !.at = IF op.i + 1 < op.num THEN "count" ELSE "conf"]
    BY <1>2 DEF SetCounter
  <2>3. /\ op'.i = op.i + 1 /\ op'.id = op.id /\ op'.num = op.num /\ op'.net = op.net
        /\ op'.at = IF op.i + 1 < op.num THEN "count" ELSE "conf"
    BY <1>b, <2>2 DEF OpRec
  <2>4. \A j \in Id : /\ slot'[j].net = slot[j].net
                      /\ slot'[j].cnt = IF j = op.i THEN slot[j].cnt + 1 ELSE slot[j].cnt
    BY <1>b, <2>1, <2>2 DEF SlotRec
  <2>5. /\ op.id < op.num /\ slot[op.id].net = op.net
        /\ op.num = num \/ (op.num = num + 1 /\ op.id = num)
        /\ slot[op.id].cnt = IF op.id < op.i THEN 1 ELSE 0
        /\ \A j \in Id : j < op.i => slot[j].cnt >= 1
    BY <2>1 DEF CommitInv
  <2>6. slot'[op.id].cnt = IF op.id < op.i + 1 THEN 1 ELSE 0
    BY <1>b, <2>1, <2>4, <2>5
  <2>7. \A j \in Id : j < op.i + 1 => slot'[j].cnt >= 1
    BY <1>b, <2>1, <2>4, <2>5
  <2>8. op'.at = "conf" => op'.i = op'.num
    BY <1>b, <2>1, <2>3
  <2> QED BY <1>b, <2>2, <2>3, <2>4, <2>5, <2>6, <2>7, <2>8 DEF CommitInv
<1>3. CASE ~Committing'
  BY <1>3 DEF CommitInv
<1>4. CASE SaveConf \/ PowerLoss
  BY <1>4, <1>3 DEF SaveConf, PowerLoss, Idle, Committing
<1>5. CASE ~SaveInfo /\ ~SetCounter /\ ~SaveConf
  <2>1. SameNets /\ SameCounts
    BY <1>5, CountSteps
  <2>2. CASE op' = op
    <3>1. /\ num' = num /\ Committing' = Committing
          /\ \A j \in Id : slot'[j].net = slot[j].net /\ slot'[j].cnt = slot[j].cnt
      BY <2>1, <2>2 DEF SameNets, SameCounts, Committing
    <3> QED BY <1>b, <2>2, <3>1 DEF CommitInv
  <2>3. CASE \E n \in Net : SaveBegin(n)
    <3>1. op'.at \in {"write", "scan"}
      BY <2>3 DEF SaveBegin, Idle
    <3> QED BY <1>3, <3>1 DEF Committing
  <2>4. CASE Scan
    <3>1. op'.at \in {"write", "scan"}
      BY <1>b, <2>4 DEF Scan, OpRec
    <3> QED BY <1>3, <3>1 DEF Committing
  <2> QED BY <1>4, <1>5, <2>2, <2>3, <2>4, OpSteps
<1> QED BY <1>1, <1>2, <1>4, <1>5

\* Saves cut short are counted, and only a whole one is the last.
LEMMA HistorySteps ==
  ASSUME [Next]_vars
  PROVE  /\ last' = last \/ SaveConf
         /\ losses' = losses \/ (PowerLoss /\ Committing /\ losses' = losses + 1)
BY DEF Next, Save, Boot, PowerLoss, SaveBegin, Scan, SaveInfo, SetCounter, SaveConf, Connect,
  Fallback, Associate, Disconnect, RangeChanges, hist, vars, Committing

LEMMA CutStep ==
  ASSUME ListInv, NamesDistinct', CommitInv, CutInv, [Next]_vars
  PROVE  CutInv'
<1>a. TypeOK /\ SaveInv /\ Counted \subseteq Id
  BY CountedAreIds DEF ListInv
<1>b. /\ slot \in [Id -> SlotRec] /\ num \in 0..Max /\ Max \in Nat /\ op \in OpRec
      /\ op.id \in Id /\ op.i \in 0..Max /\ op.num \in 0..Max
      /\ \A j \in Id : slot[j].cnt \in Nat /\ j \in Nat
  BY <1>a, SsidAssumption DEF TypeOK, OpRec, SlotRec, Id
<1>c. Spared \subseteq Id
  BY <1>a DEF Spared
<1>1. CASE SaveInfo
  <2>1. op.at = "write" /\ ~Committing
    BY <1>1 DEF SaveInfo, Committing
  <2>2. /\ op' = [op EXCEPT !.at = "count", !.i = 0] /\ num' = num
        /\ slot' = [slot EXCEPT ![op.id] = [NoSlot EXCEPT !.net = op.net]]
        /\ losses' = losses /\ last' = last
    BY <1>1 DEF SaveInfo
  <2>3. op'.at = "count" /\ op'.i = 0 /\ op'.id = op.id
    BY <1>b, <2>2 DEF OpRec
  <2>4. Spared' = Counted \ {op.id} /\ Spared = Counted
    BY <2>1, <2>2, <2>3 DEF Spared, Committing, Counted
  <2>5. \A j \in Spared' : slot'[j] = slot[j] /\ ~(j < op'.i)
    BY <1>a, <1>b, <2>2, <2>3, <2>4
  <2>6. \A j \in Spared' : Old(j)' = Old(j)
    BY <2>1, <2>5 DEF Old
  <2> QED BY <2>2, <2>4, <2>5, <2>6, CutStays
<1>2. CASE SetCounter
  <2>1. op.at = "count" /\ op.i < op.num /\ op.i \in Id /\ Committing
    BY <1>2, <1>a, <1>b DEF SetCounter, SaveInv, Id, Committing
  <2>2. /\ slot' = [slot EXCEPT ![op.i].cnt = @ + 1] /\ num' = num
        /\ op' = [op EXCEPT !.i  = op.i + 1,
                            !.at = IF op.i + 1 < op.num THEN "count" ELSE "conf"]
        /\ losses' = losses /\ last' = last
    BY <1>2 DEF SetCounter, hist
  <2>3. op'.i = op.i + 1 /\ op'.id = op.id /\ Committing'
    BY <1>b, <2>2 DEF OpRec, Committing
  <2>4. \A j \in Id : /\ slot'[j].net = slot[j].net
                      /\ slot'[j].cnt = IF j = op.i THEN slot[j].cnt + 1 ELSE slot[j].cnt
    BY <1>b, <2>1, <2>2 DEF SlotRec
  <2>5. Spared' = Spared
    BY <2>1, <2>2, <2>3 DEF Spared, Counted
  <2>6. ASSUME NEW j \in Spared' PROVE Old(j)' = Old(j)
    <3>1. /\ Old(j) = IF j < op.i THEN slot[j].cnt - 1 ELSE slot[j].cnt
          /\ Old(j)' = IF j < op.i + 1 THEN slot'[j].cnt - 1 ELSE slot'[j].cnt
      BY <2>1, <2>3 DEF Old
    <3>2. j \in Id /\ j \in Nat /\ slot[j].cnt \in Nat
      BY <1>b, <1>c, <2>5
    <3> QED BY <1>b, <2>4, <3>1, <3>2
  <2>7. \A j \in Spared' : slot'[j].net.ssid = slot[j].net.ssid
    BY <1>c, <2>4, <2>5
  <2> QED BY <2>2, <2>5, <2>6, <2>7, CutStays
<1>3. CASE SaveConf
  BY <1>3, CutBySaveConf
<1>4. CASE PowerLoss /\ Committing
  BY <1>4, CutByPowerLoss
<1>5. CASE ~SaveInfo /\ ~SetCounter /\ ~SaveConf /\ ~(PowerLoss /\ Committing)
  <2>1. SameNets /\ SameCounts
    BY <1>5, CountSteps
  <2>2. losses' = losses /\ last' = last
    BY <1>5, HistorySteps
  <2>3. op' = op \/ (~Committing /\ ~Committing')
    <3>1. CASE PowerLoss
      BY <1>5, <3>1 DEF PowerLoss, Idle, Committing
    <3>2. CASE \E n \in Net : SaveBegin(n)
      BY <3>2 DEF SaveBegin, Idle, Committing
    <3>3. CASE Scan
      <4>1. op.at = "scan" /\ op'.at \in {"write", "scan"}
        BY <1>b, <3>3 DEF Scan, OpRec
      <4> QED BY <4>1 DEF Committing
    <3> QED BY <1>5, <3>1, <3>2, <3>3, OpSteps
  <2>4. Counted' = Counted /\ \A j \in Id : slot'[j].net = slot[j].net /\ slot'[j].cnt = slot[j].cnt
    BY <2>1 DEF SameNets, SameCounts, Counted
  <2>5. Spared' = Spared
    BY <2>3, <2>4 DEF Spared, Committing
  <2>6. \A j \in Id : Old(j)' = Old(j)
    BY <2>3, <2>4 DEF Old, Committing
  <2>7. \A j \in Spared' : Old(j)' = Old(j) /\ slot'[j].net.ssid = slot[j].net.ssid
    BY <1>c, <2>4, <2>5, <2>6
  <2> QED BY <2>2, <2>5, <2>7, CutStays
<1> QED BY <1>1, <1>2, <1>3, <1>4, <1>5

\* The scan of a full list does not find the network saved last.
LEMMA LastIsNotFound ==
  ASSUME Max > 1, ListInv, CommitInv, CutInv, ScanInv, 2 * losses < Max, ~wrapped,
         op.at = "write", Stored(op.net.ssid) = {}, num = Max, op.id \in Counted
  PROVE  slot[op.id].net.ssid \notin last
<1> SUFFICES ASSUME slot[op.id].net.ssid \in last PROVE FALSE
  OBVIOUS
<1> DEFINE v == slot[op.id].cnt
<1>1. /\ ~Committing /\ Spared = Counted /\ Max \in Nat
      /\ \A j \in Counted : Old(j) = slot[j].cnt
  BY SsidAssumption DEF Committing, Spared, Old
<1>2. /\ losses \in Nat /\ v \in Nat /\ \A j \in Counted : slot[j].cnt \in Nat /\ j \in Nat
      /\ IsFiniteSet(Counted) /\ IsFiniteSet(Low(v)) /\ IsFiniteSet(Below(op.id, v))
      /\ op.id \in Nat
  BY <1>1, SparedTypes
<1>3. \A j \in Counted : v >= slot[j].cnt /\ (j > op.id => v > slot[j].cnt)
  BY DEF ScanInv, ScanFinds
<1>4. Cardinality(Counted) = Max
  BY <1>1, FS_Interval DEF Counted
<1>5. v <= 1 + losses
  BY <1>1 DEF CutInv
<1>6. Max <= v + losses
  <2>1. Counted \subseteq Low(v)
    BY <1>1, <1>2, <1>3 DEF Low
  <2>2. Cardinality(Low(v)) <= v + losses /\ v + losses \in Int
    BY <1>2 DEF CutInv
  <2>3. Cardinality(Counted) <= v + losses
    BY <1>2, <2>1, <2>2, Smaller
  <2> QED BY <1>4, <2>3
<1>7. v = 1 + losses /\ losses >= 1
  BY <1>1, <1>2, <1>5, <1>6
<1>8. Max - 1 <= 2 * losses - 1
  <2> DEFINE X == Counted \ {op.id}
  <2>1. Cardinality(X) = Max - 1
    BY <1>2, <1>4, FS_RemoveElement
  <2>2. X \subseteq Below(op.id, v)
    <3> SUFFICES ASSUME NEW j \in X PROVE j \in Below(op.id, v)
      OBVIOUS
    <3>1. j \in Spared \ {op.id} /\ Old(j) = slot[j].cnt /\ j \in Nat /\ slot[j].cnt \in Nat
      BY <1>1, <1>2
    <3>2. slot[j].cnt < v \/ (slot[j].cnt = v /\ j < op.id)
      BY <1>2, <1>3, <3>1
    <3> QED BY <3>1, <3>2 DEF Below
  <2> HIDE DEF X
  <2>3. Cardinality(Below(op.id, v)) <= 2 * losses - 1 + (v - v)
    BY <1>1, <1>2, <1>7 DEF CutInv
  <2>4. Cardinality(Below(op.id, v)) <= 2 * losses - 1 /\ 2 * losses - 1 \in Int
    BY <1>2, <2>3
  <2>5. Cardinality(X) <= 2 * losses - 1
    BY <1>2, <2>2, <2>4, Smaller
  <2> QED BY <2>1, <2>5
<1> QED BY <1>1, <1>2, <1>8

LEMMA LatestStep ==
  ASSUME Max > 1, ListInv, ListInv', CommitInv, CutInv, ScanInv, LatestSurvives, [Next]_vars
  PROVE  LatestSurvives'
<1> SUFFICES ASSUME 2 * losses' < Max, ~wrapped', NEW s \in last'
             PROVE  \E i \in Counted' : slot'[i].net.ssid = s
  BY DEF LatestSurvives, Kept
<1>a. TypeOK /\ SaveInv /\ Counted \subseteq Id
  BY CountedAreIds DEF ListInv
<1>b. /\ slot \in [Id -> SlotRec] /\ num \in 0..Max /\ Max \in Nat /\ op \in OpRec
      /\ op.id \in Id /\ op.num \in 0..Max /\ losses \in Nat
  BY <1>a, SsidAssumption DEF TypeOK, OpRec
<1>1. 2 * losses < Max /\ ~wrapped
  BY <1>b, HistorySteps, WrapSteps
<1>2. s \in last => \E i \in Counted : slot[i].net.ssid = s
  BY <1>1 DEF LatestSurvives, Kept
<1>3. CASE SaveInfo
  <2>1. /\ op.at = "write" /\ num' = num /\ last' = last
        /\ slot' = [slot EXCEPT ![op.id] = [NoSlot EXCEPT !.net = op.net]]
    BY <1>3 DEF SaveInfo
  <2>2. Target(op.net, op.id, op.num)
    BY <1>a, <2>1 DEF SaveInv
  <2>3. PICK i \in Counted : slot[i].net.ssid = s
    BY <1>2, <2>1
  <2>4. i \in Id /\ i \in Counted' /\ i < num
    BY <1>a, <1>b, <2>1 DEF Counted
  <2>5. CASE i # op.id
    BY <1>b, <2>1, <2>3, <2>4, <2>5
  <2>6. CASE i = op.id
    <3>1. slot'[i].net = op.net
      BY <1>b, <2>1, <2>6 DEF NoSlot
    <3>2. CASE op.id \in Stored(op.net.ssid)
      BY <2>3, <2>4, <2>6, <3>1, <3>2 DEF Stored
    <3>3. CASE Stored(op.net.ssid) = {} /\ num = Max /\ op.id \in Counted
      BY <1>1, <2>1, <2>3, <2>6, <3>3, LastIsNotFound
    <3> QED BY <1>b, <2>2, <2>4, <2>6, <3>2, <3>3 DEF Target
  <2> QED BY <2>5, <2>6
<1>4. CASE SaveConf
  <2>1. /\ Committing /\ op.id < op.num /\ slot[op.id].net = op.net
    BY <1>4 DEF SaveConf, Committing, CommitInv
  <2>2. num' = op.num /\ s = op.net.ssid /\ slot'[op.id].net = slot[op.id].net
    BY <1>4, <1>a, <1>b, ResetKeepsNets DEF SaveConf
  <2>3. op.id \in Counted'
    BY <1>b, <2>1, <2>2 DEF Counted, Id
  <2> QED BY <2>1, <2>2, <2>3
<1>5. CASE ~SaveInfo /\ ~SaveConf
  <2>1. SameNets /\ last' = last
    BY <1>5, OtherSteps, HistorySteps
  <2>2. Counted' = Counted /\ \A i \in Counted : slot'[i].net = slot[i].net
    BY <1>a, <2>1 DEF SameNets, Counted
  <2> QED BY <1>2, <2>1, <2>2
<1> QED BY <1>3, <1>4, <1>5

\* Counters that power failures have left uneven do not cost the network saved
\* last its place, unless they cut short half as many saves as the list has room
\* for or a scan has met a counter that its uint8_t does not hold
\* (LatestSurvives): for any capacity from two up.
THEOREM LastSavedStays ==
  ASSUME Max > 1
  PROVE  Spec => []LatestSurvives
<1>1. Init => CommitInv /\ CutInv /\ ScanInv /\ LatestSurvives
  <2> SUFFICES ASSUME Init PROVE CommitInv /\ CutInv /\ ScanInv /\ LatestSurvives
    OBVIOUS
  <2>1. ~Committing /\ Spared = {} /\ losses = 0 /\ last = {} /\ op.at = "none"
    BY DEF Init, Idle, Committing, Spared, Counted
  <2>2. \A v \in Nat : Low(v) = {}
    BY <2>1 DEF Low
  <2> QED BY <2>1, <2>2, FS_EmptySet DEF CommitInv, CutInv, ScanInv, ScanFinds, LatestSurvives
<1>2. ListInv /\ ListInv' /\ CommitInv /\ CutInv /\ ScanInv /\ LatestSurvives /\ [Next]_vars
        => CommitInv' /\ CutInv' /\ ScanInv' /\ LatestSurvives'
  BY CommitStep, CutStep, ScanStep, LatestStep DEF ListInv
<1> QED BY <1>1, <1>2, ListInvariant, PTL DEF Spec
=============================================================================
