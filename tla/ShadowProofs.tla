---------------------------- MODULE ShadowProofs ----------------------------
(***************************************************************************)
(* The device shadow, and the record of errors that is sent with it.       *)
(*                                                                         *)
(* Shadow for any numbers of topic slots and request records that the      *)
(* assumption allows, any values and any number of broken sessions, in     *)
(* three layers.  Records: slots that are not in the hands of the current  *)
(* operation are settled, each with a topic of its own that is handled     *)
(* and heard, in pairs; so two slots are free whenever a command needs     *)
(* them, and a request that waits can be answered.  Tokens: each waiting   *)
(* request has a token of its own below the next one; so the requests that *)
(* wait, and the calls back, implement ShadowRequests.  Values: as long as *)
(* nothing was missed, something that will make device and shadow agree is *)
(* coming, in the queue of commands, in the document being made, or in one *)
(* of the two queues of messages; when all are empty they agree.           *)
(*                                                                         *)
(* ErrorRing for rings of any size from two up and any set of codes:       *)
(* indices stay inside the ring, the count is never taken below zero, a    *)
(* failing NVS cannot nest calls deeper than three, and a boot reads the   *)
(* newest codes in order.                                                  *)
(***************************************************************************)
EXTENDS Shadow, ErrorRing, FiniteSetTheorems, WellFoundedInduction, TLAPS

-----------------------------------------------------------------------------
(* Data.                                                                   *)

\* Any set of natural numbers has a least one.
LEMMA LeastElement ==
  ASSUME NEW T, T \subseteq Nat, T # {}
  PROVE  \E m \in T : \A n \in T : m <= n
<1> DEFINE R == OpToRel(<, Nat)
<1>1. IsWellFoundedOn(R, Nat)
  BY NatLessThanWellFounded
<1>2. \A x, y \in Nat : x < y => <<x, y>> \in R
  BY DEF OpToRel
<1> HIDE DEF R
<1>3. PICK m \in T : \A n \in T : ~(<<n, m>> \in R)
  BY <1>1, WFMin
<1>4. \A n \in T : ~(n < m)
  BY <1>2, <1>3
<1>5. \A n \in T : m <= n
  BY <1>4
<1> QED BY <1>5

\* The loops that look for a record find the first there is.
LEMMA FirstIsIn ==
  ASSUME NEW S, S \subseteq Nat, S # {}
  PROVE  FirstOf(S) \in S
BY LeastElement DEF FirstOf

LEMMA Commands == Cardinality(Command) = 3 /\ IsFiniteSet(Command) /\ Slots >= 6 /\ QueueLength >= 3
<1> DEFINE A == {"get_tare"}
           B == A \cup {"set_fw"}
           C == B \cup {"set_tare"}
<1>1. IsFiniteSet(A) /\ Cardinality(A) = 1
  BY FS_Singleton
<1>2. "set_fw" \notin A /\ "set_tare" \notin B
  OBVIOUS
<1> HIDE DEF A
<1>3. IsFiniteSet(B) /\ Cardinality(B) = 2
  BY <1>1, <1>2, FS_AddElement
<1> HIDE DEF B
<1>4. IsFiniteSet(C) /\ Cardinality(C) = 3
  BY <1>2, <1>3, FS_AddElement
<1>5. C = Command
  BY DEF A, B, Command
<1> QED BY <1>4, <1>5, ShadowAssumption

LEMMA TopicCount == IsFiniteSet(Topic) /\ Cardinality(Topic) <= 6
<1> DEFINE S(x) == IsFiniteSet(x) /\ Cardinality(x) \in Nat
           A == {Accepted("get_tare")}
           B == A \cup {Rejected("get_tare")}
           C == B \cup {Accepted("set_fw")}
           D == C \cup {Rejected("set_fw")}
           E == D \cup {Accepted("set_tare")}
           F == E \cup {Rejected("set_tare")}
<1>1. \A x, t : S(x) => S(x \cup {t}) /\ Cardinality(x \cup {t}) <= Cardinality(x) + 1
  <2> SUFFICES ASSUME NEW x, NEW t, IsFiniteSet(x), Cardinality(x) \in Nat
               PROVE  S(x \cup {t}) /\ Cardinality(x \cup {t}) <= Cardinality(x) + 1
    OBVIOUS
  <2>1. /\ IsFiniteSet(x \cup {t})
        /\ Cardinality(x \cup {t}) = IF t \in x THEN Cardinality(x) ELSE Cardinality(x) + 1
    BY FS_AddElement
  <2> QED BY <2>1
<1>2. S(A) /\ Cardinality(A) = 1
  <2>1. IsFiniteSet(A) /\ Cardinality(A) = 1
    BY FS_Singleton, Zenon
  <2> HIDE DEF A
  <2> QED BY <2>1
<1>3. Topic \subseteq F
  <2> SUFFICES ASSUME NEW t \in Topic PROVE t \in F
    OBVIOUS
  <2>1. t = Accepted(t.cmd) \/ t = Rejected(t.cmd)
    BY DEF Topic, Accepted, Rejected
  <2>2. t.cmd \in {"get_tare", "set_fw", "set_tare"}
    BY DEF Topic, Command
  <2> QED BY <2>1, <2>2, Zenon
<1> HIDE DEF S, A
<1>4. S(B) /\ Cardinality(B) <= Cardinality(A) + 1
  BY <1>1, <1>2
<1> HIDE DEF B
<1>5. S(C) /\ Cardinality(C) <= Cardinality(B) + 1
  BY <1>1, <1>4
<1> HIDE DEF C
<1>6. S(D) /\ Cardinality(D) <= Cardinality(C) + 1
  BY <1>1, <1>5
<1> HIDE DEF D
<1>7. S(E) /\ Cardinality(E) <= Cardinality(D) + 1
  BY <1>1, <1>6
<1> HIDE DEF E
<1>8. S(F) /\ Cardinality(F) <= Cardinality(E) + 1
  BY <1>1, <1>7
<1> HIDE DEF F
<1>9. IsFiniteSet(Topic) /\ Cardinality(Topic) <= Cardinality(F)
  BY <1>3, <1>8, FS_Subset DEF S
<1>10. Cardinality(Topic) \in Nat
  BY <1>9, FS_CardinalityType
<1> QED BY <1>2, <1>4, <1>5, <1>6, <1>7, <1>8, <1>9, <1>10 DEF S

LEMMA AppendToQueue ==
  ASSUME NEW S, NEW q \in Seq(S), NEW e \in S
  PROVE  /\ Append(q, e) \in Seq(S) /\ Len(Append(q, e)) = Len(q) + 1 /\ Len(q) \in Nat
         /\ \A i \in 1..Len(q) : Append(q, e)[i] = q[i]
         /\ Append(q, e)[Len(q) + 1] = e
         /\ \A i \in 1..Len(q) + 1 : Append(q, e)[i] = IF i = Len(q) + 1 THEN e ELSE q[i]
OBVIOUS

LEMMA TakeFromQueue ==
  ASSUME NEW S, NEW q \in Seq(S), q # <<>>
  PROVE  /\ Head(q) = q[1] /\ q[1] \in S /\ Len(q) \in Nat /\ Len(q) >= 1
         /\ Tail(q) \in Seq(S) /\ Len(Tail(q)) = Len(q) - 1
         /\ \A i \in 1..Len(q) - 1 : Tail(q)[i] = q[i + 1]
OBVIOUS

LEMMA EnqueueTypes ==
  ASSUME NEW q \in Seq(Command), Len(q) <= QueueLength, NEW c \in Command
  PROVE  /\ Enqueue(q, c) \in Seq(Command) /\ Len(Enqueue(q, c)) <= QueueLength
         /\ \A i \in 1..Len(q) : i \in 1..Len(Enqueue(q, c)) /\ Enqueue(q, c)[i] = q[i]
         /\ Len(q) < QueueLength =>
              /\ Len(Enqueue(q, c)) = Len(q) + 1
              /\ Enqueue(q, c)[Len(q) + 1] = c
<1>1. QueueLength \in Nat /\ Len(q) \in Nat
  BY ShadowAssumption
<1>2. CASE Len(q) < QueueLength
  BY <1>1, <1>2, AppendToQueue DEF Enqueue
<1>3. CASE ~(Len(q) < QueueLength)
  BY <1>1, <1>3 DEF Enqueue
<1> QED BY <1>2, <1>3

-----------------------------------------------------------------------------
(* The records of topics and requests.                                     *)

SlotRec == [topic : Topic \cup {NoTopic}, count : 0..255, isFree : BOOLEAN]

OpRec == [stage : Stages, cmd : Command, doc : Doc,
          slots : (0..Slots) \X (0..Slots), ack : 1..Acks]

Subscribing == op # Idle /\ op.stage \in {"accepted", "rejected"}

\* The request has not been published.
Preparing == op # Idle /\ op.stage # "expire"

Busy    == IF Subscribing THEN {op.slots[1], op.slots[2]} ELSE {}
Settled == {s \in 1..Slots : ~subscriptionList[s].isFree /\ s \notin Busy}

\* Both topics of a command have a slot that no request is working on.
HasTopics(c) ==
  \A t \in {Accepted(c), Rejected(c)} : \E s \in Settled : subscriptionList[s].topic = t

\* The client handles the topics of settled slots and the broker sends them;
\* no topic has two, and a command has a slot for both or for neither.
SettledInv ==
  /\ \A s \in Settled :
       /\ subscriptionList[s].topic \in Topic /\ s \in handlers
       /\ connected => subscriptionList[s].topic \in heard
       /\ \A c \in Command : subscriptionList[s].topic.cmd = c => HasTopics(c)
       /\ \A r \in Settled : subscriptionList[r].topic = subscriptionList[s].topic => r = s
  /\ \A s \in handlers : subscriptionList[s].topic \in Topic

\* A request that subscribes has two slots of its own.
OpInv ==
  /\ op \in OpRec \cup {Idle}
  /\ Subscribing =>
       /\ op.slots[1] \in 1..Slots /\ op.slots[2] \in 1..Slots /\ op.slots[1] # op.slots[2]
       /\ ~subscriptionList[op.slots[1]].isFree /\ ~subscriptionList[op.slots[2]].isFree
       /\ subscriptionList[op.slots[1]].topic = Accepted(op.cmd)
       /\ \A s \in Settled : subscriptionList[s].topic.cmd # op.cmd
  /\ op # Idle /\ op.stage = "rejected" =>
       /\ op.slots[1] \in handlers
       /\ subscriptionList[op.slots[2]].topic = Rejected(op.cmd)
       /\ connected => Accepted(op.cmd) \in heard
  /\ op # Idle /\ op.stage = "publish" => \A c \in Command : op.cmd = c => HasTopics(c)
  /\ Preparing => ackWaitList[op.ack] = Free

WaitInv ==
  \A i \in 1..Acks, c \in Command : Waiting(i) /\ ackWaitList[i].cmd = c => HasTopics(c)

DeltaInv == \A i \in 1..Len(down) : down[i].topic = Delta => down[i].value \in Value

\* Before the first session of a boot there is nothing.
StartInv ==
  ~started => /\ op = Idle /\ ~connected /\ up = <<>> /\ handlers = {}
              /\ \A s \in 1..Slots : subscriptionList[s].isFree

Records == TypeOK /\ StartInv /\ SettledInv /\ OpInv /\ WaitInv /\ DeltaInv

-----------------------------------------------------------------------------
(* Tokens.                                                                 *)

SameCommand(tok, c) ==
  /\ tok < taken
  /\ \A i \in 1..Acks : Waiting(i) /\ ackWaitList[i].token = tok => ackWaitList[i].cmd = c

TokenInv ==
  /\ taken \in Nat /\ calls \in Nat /\ taken <= token
  /\ Preparing => taken <= op.doc.token /\ op.doc.token < token
  /\ \A i \in 1..Acks : Waiting(i) => ackWaitList[i].token < taken
  /\ \A i, j \in 1..Acks : Waiting(i) /\ Waiting(j) /\ ackWaitList[i].token = ackWaitList[j].token
       => i = j
  /\ \A i \in 1..Len(up) : SameCommand(up[i].doc.token, up[i].cmd)
  /\ \A i \in 1..Len(down) :
       down[i].topic # Delta => SameCommand(down[i].token, down[i].topic.cmd)

-----------------------------------------------------------------------------
(* The values.                                                             *)

\* The document of an update of the tare value with v.
Reports(d, v) == d.desired = v /\ d.reported = v

Reporting == Preparing /\ op.cmd = "set_tare"

\* The device will report its value or has done so, or will take over another.
Coming ==
  \/ \E i \in 1..Len(queue) : queue[i] = "set_tare"
  \/ \E i \in 1..Len(down) : down[i].topic = Delta
  \/ Reporting /\ Reports(op.doc, tare)
  \/ ~Reporting /\ \E i \in 1..Len(up) :
       /\ up[i].cmd = "set_tare" /\ Reports(up[i].doc, tare)
       /\ \A j \in i + 1..Len(up) : up[j].cmd # "set_tare"
  \/ /\ ~Reporting /\ \A i \in 1..Len(up) : up[i].cmd # "set_tare"
     /\ desired = tare /\ reported = tare

\* The documents of the device agree with themselves.
Agreeing ==
  /\ Reporting => op.doc.desired = op.doc.reported
  /\ \A i \in 1..Len(up) : up[i].cmd = "set_tare" => up[i].doc.desired = up[i].doc.reported

ValueInv == Agreeing /\ (started /\ ~missed => Coming)

\* Slots that are not settled are free at rest, and when a command lacks a topic
\* at least two are: each settled slot has a topic of its own.
LEMMA TwoFree ==
  ASSUME Records, op = Idle, NEW c \in Command, ~Present(c)
  PROVE  /\ FreeSlots # {} /\ FreeSlots \ {FirstOf(FreeSlots)} # {}
         /\ \A s \in Settled : subscriptionList[s].topic.cmd # c
         /\ Take(FreeSlots) \in (0..Slots) \X (0..Slots)
         /\ Take(FreeSlots)[1] \in FreeSlots /\ Take(FreeSlots)[2] \in FreeSlots
         /\ Take(FreeSlots)[1] # Take(FreeSlots)[2]
<1>0. Slots \in Nat
  BY ShadowAssumption
<1>1. Settled = (1..Slots) \ FreeSlots /\ FreeSlots \subseteq 1..Slots
  BY DEF Settled, Busy, Subscribing, FreeSlots, Idle
<1>2. \A s \in Settled : subscriptionList[s].topic.cmd # c
  <2> SUFFICES ASSUME NEW s \in Settled, subscriptionList[s].topic.cmd = c PROVE FALSE
    OBVIOUS
  <2>1. HasTopics(c)
    BY DEF Records, SettledInv
  <2> QED BY <2>1 DEF HasTopics, Present, Settled
<1> DEFINE U == {t \in Topic : t.cmd # c}
           f == [s \in Settled |-> subscriptionList[s].topic]
<1>3. f \in [Settled -> U]
  BY <1>2 DEF Records, SettledInv
<1>4. IsFiniteSet(U) /\ Cardinality(U) <= 4
  <2> DEFINE T1 == Topic \ {Accepted(c)}
             T2 == T1 \ {Rejected(c)}
  <2>1. Accepted(c) \in Topic /\ Rejected(c) \in Topic /\ Accepted(c) # Rejected(c)
    BY DEF Topic, Accepted, Rejected
  <2>2. U \subseteq T2
    BY DEF Topic, Accepted, Rejected
  <2>3. IsFiniteSet(T1) /\ Cardinality(T1) = Cardinality(Topic) - 1 /\ Cardinality(Topic) \in Nat
    BY <2>1, TopicCount, FS_RemoveElement, FS_CardinalityType
  <2>4. Rejected(c) \in T1
    BY <2>1
  <2> HIDE DEF T1
  <2>5. IsFiniteSet(T2) /\ Cardinality(T2) = Cardinality(T1) - 1
    BY <2>3, <2>4, FS_RemoveElement
  <2> HIDE DEF T2, U
  <2>6. IsFiniteSet(U) /\ Cardinality(U) <= Cardinality(T2) /\ Cardinality(U) \in Nat
    BY <2>2, <2>5, FS_Subset, FS_CardinalityType
  <2> QED BY <2>3, <2>5, <2>6, TopicCount
<1>5. IsFiniteSet(1..Slots) /\ Cardinality(1..Slots) = Slots /\ Slots \in Nat
  BY FS_Interval, ShadowAssumption
<1>6. IsFiniteSet(Settled) /\ IsFiniteSet(FreeSlots)
  BY <1>1, <1>5, FS_Subset
<1>7. Cardinality(Settled) \in Nat /\ Cardinality(FreeSlots) \in Nat /\ Cardinality(U) \in Nat
  BY <1>4, <1>6, FS_CardinalityType
<1>8. Cardinality(Settled) <= 4
  <2> SUFFICES ASSUME ~(Cardinality(Settled) <= 4) PROVE FALSE
    OBVIOUS
  <2>1. Cardinality(U) < Cardinality(Settled)
    BY <1>4, <1>7
  <2> HIDE DEF U
  <2> HIDE DEF f
  <2>2. \E r, s \in Settled : r # s /\ f[r] = f[s]
    BY <1>3, <1>4, <1>6, <2>1, FS_PigeonHole
  <2> QED BY <2>2 DEF f, Records, SettledInv
<1>9. Cardinality(FreeSlots) >= 2
  <2>1. Settled \cup FreeSlots = 1..Slots /\ Settled \cap FreeSlots = {}
    BY <1>1
  <2>2. Cardinality(1..Slots) = Cardinality(Settled) + Cardinality(FreeSlots) - Cardinality({})
    BY <1>6, <2>1, FS_Union
  <2> QED BY <1>5, <1>7, <1>8, <2>2, FS_EmptySet, Commands
<1>10. FreeSlots # {}
  BY <1>9, FS_EmptySet
<1>11. FirstOf(FreeSlots) \in FreeSlots
  <2>1. FreeSlots \subseteq Nat
    BY <1>1
  <2> QED BY <1>10, <2>1, FirstIsIn
<1> DEFINE F == FreeSlots \ {FirstOf(FreeSlots)}
<1>12. F # {}
  <2> SUFFICES ASSUME F = {} PROVE FALSE
    OBVIOUS
  <2>1. FreeSlots = {FirstOf(FreeSlots)}
    BY <1>11
  <2>2. Cardinality(FreeSlots) = 1
    BY <2>1, FS_Singleton
  <2> QED BY <1>9, <2>2
<1>13. FirstOf(F) \in F
  <2>1. \A x \in 1..Slots : x \in Nat
    BY <1>0
  <2>2. F \subseteq Nat
    BY <1>1, <2>1
  <2> HIDE DEF F
  <2> QED BY <1>12, <2>2, FirstIsIn
<1>14. Take(FreeSlots) = <<FirstOf(FreeSlots), FirstOf(F)>>
  BY DEF Take
<1> HIDE DEF U, f
<1>15. FirstOf(FreeSlots) \in 0..Slots /\ FirstOf(F) \in 0..Slots
  <2>1. \A x \in FreeSlots : x \in 0..Slots
    BY <1>0, <1>1
  <2>2. FirstOf(F) \in FreeSlots
    BY <1>13
  <2> QED BY <1>11, <2>1, <2>2
<1> QED BY <1>2, <1>10, <1>11, <1>12, <1>13, <1>14, <1>15

-----------------------------------------------------------------------------
(* Steps that leave the topics alone.                                      *)

\* The topics of the slots and who works on them stay.
SameTopics ==
  /\ op' = op /\ handlers' = handlers
  /\ \A s \in 1..Slots : /\ subscriptionList'[s].topic = subscriptionList[s].topic
                         /\ subscriptionList'[s].isFree = subscriptionList[s].isFree

LEMMA TopicsStay ==
  ASSUME SameTopics
  PROVE  /\ Settled' = Settled
         /\ \A c \in Command : HasTopics(c)' <=> HasTopics(c)
<1>1. Subscribing' = Subscribing /\ Busy' = Busy
  BY DEF SameTopics, Subscribing, Busy
<1>2. Settled' = Settled
  BY <1>1 DEF SameTopics, Settled
<1>3. \A s \in Settled : subscriptionList'[s].topic = subscriptionList[s].topic
  BY DEF SameTopics, Settled
<1> QED BY <1>2, <1>3, Zenon DEF HasTopics, Accepted, Rejected

LEMMA SameTopicsKeep ==
  ASSUME Records, SameTopics, started' = started, started \/ (up' = <<>> /\ ~connected'),
         connected' => connected /\ heard \subseteq heard',
         \A i \in 1..Acks : ackWaitList'[i] = ackWaitList[i] \/ ackWaitList'[i] = Free
  PROVE  StartInv' /\ SettledInv' /\ OpInv' /\ WaitInv'
<1>1. /\ Settled' = Settled
      /\ \A c \in Command : HasTopics(c)' <=> HasTopics(c)
  BY TopicsStay
<1>2. \A s \in Settled : s \in 1..Slots /\ subscriptionList'[s].topic = subscriptionList[s].topic
  BY DEF SameTopics, Settled
<1>3. handlers \subseteq 1..Slots /\ Acks \in Nat \ {0}
  BY ShadowAssumption DEF Records, TypeOK
<1>4. StartInv'
  BY <1>3 DEF Records, StartInv, SameTopics
<1>5. SettledInv'
  <2>1. ASSUME NEW s \in Settled
        PROVE  /\ subscriptionList'[s].topic \in Topic /\ s \in handlers'
               /\ connected' => subscriptionList'[s].topic \in heard'
               /\ \A c \in Command : subscriptionList'[s].topic.cmd = c => HasTopics(c)'
               /\ \A r \in Settled : subscriptionList'[r].topic = subscriptionList'[s].topic => r = s
    BY <1>1, <1>2 DEF Records, SettledInv, SameTopics
  <2>3. \A s \in handlers' : subscriptionList'[s].topic \in Topic
    BY <1>3 DEF Records, SettledInv, SameTopics
  <2> QED BY <1>1, <2>1, <2>3 DEF SettledInv
<1>6. OpInv'
  <2>1. Subscribing' = Subscribing /\ Preparing' = Preparing
    BY DEF SameTopics, Subscribing, Preparing
  <2>2. op # Idle => op \in OpRec /\ op.cmd \in Command /\ op.ack \in 1..Acks
    BY DEF Records, OpInv, OpRec
  <2>3. Preparing' => ackWaitList'[op.ack] = Free
    BY <2>1, <2>2 DEF Records, OpInv, Preparing
  <2>4. op' # Idle /\ op'.stage = "publish" => \A c \in Command : op'.cmd = c => HasTopics(c)'
    BY <1>1, <2>2 DEF Records, OpInv, SameTopics
  <2>5. Subscribing' =>
          /\ op.slots[1] \in 1..Slots /\ op.slots[2] \in 1..Slots /\ op.slots[1] # op.slots[2]
          /\ ~subscriptionList'[op.slots[1]].isFree /\ ~subscriptionList'[op.slots[2]].isFree
          /\ subscriptionList'[op.slots[1]].topic = Accepted(op.cmd)
          /\ \A s \in Settled : subscriptionList'[s].topic.cmd # op.cmd
    BY <1>2, <2>1 DEF Records, OpInv, SameTopics
  <2>6. op # Idle /\ op.stage = "rejected" =>
          /\ op.slots[1] \in handlers'
          /\ subscriptionList'[op.slots[2]].topic = Rejected(op.cmd)
          /\ connected' => Accepted(op.cmd) \in heard'
    BY DEF Records, OpInv, SameTopics, Subscribing
  <2>7. op' = op
    BY DEF SameTopics
  <2> QED BY <1>1, <2>1, <2>2, <2>3, <2>4, <2>5, <2>6, <2>7 DEF OpInv, Accepted, Rejected, Records
<1>7. WaitInv'
  <2> SUFFICES ASSUME NEW i \in 1..Acks, NEW c \in Command, ackWaitList'[i] # Free,
                      ackWaitList'[i].cmd = c
               PROVE  HasTopics(c)'
    BY DEF WaitInv, Waiting
  <2>1. ackWaitList'[i] = ackWaitList[i] /\ ackWaitList[i] # Free
    OBVIOUS
  <2> QED BY <1>1, <2>1 DEF Records, WaitInv, Waiting
<1> QED BY <1>4, <1>5, <1>6, <1>7

\* A message that is published reaches the device or goes nowhere.
LEMMA Published ==
  ASSUME Records, NEW m \in Message
  PROVE  /\ Publish(m) \in Seq(Message)
         /\ \A i \in 1..Len(Publish(m)) :
              Publish(m)[i] = m \/ (i \in 1..Len(down) /\ Publish(m)[i] = down[i])
         /\ \A i \in 1..Len(down) : i \in 1..Len(Publish(m)) /\ Publish(m)[i] = down[i]
         /\ ~Lost(m) => Len(down) + 1 \in 1..Len(Publish(m)) /\ Publish(m)[Len(down) + 1] = m
<1>1. down \in Seq(Message) /\ Len(down) \in Nat
  BY DEF Records, TypeOK
<1>2. CASE connected /\ m.topic \in heard
  BY <1>1, <1>2, AppendToQueue DEF Publish, Lost
<1>3. CASE ~(connected /\ m.topic \in heard)
  BY <1>1, <1>3 DEF Publish, Lost
<1> QED BY <1>2, <1>3

LEMMA DeltaIsNoTopic == Delta \notin Topic /\ \A c \in Command : Accepted(c) \in Topic /\ Rejected(c) \in Topic
BY DEF Delta, Topic, Command, Accepted, Rejected

\* The messages of AWS
LEMMA PublishedDeltas ==
  ASSUME Records, NEW m \in Message, m.topic # Delta \/ m.value \in Value, down' = Publish(m)
  PROVE  down' \in Seq(Message) /\ DeltaInv'
BY Published DEF Records, DeltaInv

LEMMA AppWritesKeeps ==
  ASSUME Records, AppWrites
  PROVE  Records'
<1>1. PICK v \in Value \ {desired} :
        /\ desired' = v
        /\ \/ UNCHANGED <<down, missed>>
           \/ /\ down' = Publish([topic |-> Delta, token |-> 0, value |-> v])
              /\ missed' = (missed \/ Lost([topic |-> Delta, token |-> 0, value |-> v]))
  BY DEF AppWrites
<1>2. UNCHANGED <<library, op, device, started, network, up, reported, breaks, taken, called>>
  BY DEF AppWrites
<1> DEFINE m == [topic |-> Delta, token |-> 0, value |-> v]
<1>3. m \in Message /\ m.value \in Value /\ m.topic = Delta
  BY DEF Message, Tare
<1>4. down' \in Seq(Message) /\ DeltaInv' /\ missed' \in BOOLEAN
  <2>1. CASE UNCHANGED <<down, missed>>
    BY <2>1 DEF Records, TypeOK, DeltaInv
  <2>2. CASE down' = Publish(m) /\ missed' = (missed \/ Lost(m))
    <3> HIDE DEF m
    <3>1. missed' \in BOOLEAN
      BY <2>2, Zenon DEF Records, TypeOK
    <3> QED BY <1>3, <2>2, <3>1, PublishedDeltas
  <2> QED BY <1>1, <2>1, <2>2
<1>5. TypeOK'
  BY <1>1, <1>2, <1>4 DEF Records, TypeOK, Tare, library, device, network
<1>6. StartInv' /\ SettledInv' /\ OpInv' /\ WaitInv'
  BY <1>2, SameTopicsKeep DEF library, network, SameTopics, Records, StartInv
<1> QED BY <1>4, <1>5, <1>6 DEF Records

\* AWS takes the request that was published first.
LEMMA NextRequest ==
  ASSUME Records, AwsAnswers
  PROVE  /\ up # <<>> /\ Head(up) = up[1] /\ up[1].cmd \in Command /\ up[1].doc \in Doc
         /\ up' = Tail(up) /\ up' \in Seq([cmd : Command, doc : Doc])
         /\ Len(up) \in Nat /\ Len(up) >= 1 /\ Len(up') = Len(up) - 1
         /\ \A i \in 1..Len(up) - 1 : up'[i] = up[i + 1]
         /\ started
<1>1. up \in Seq([cmd : Command, doc : Doc]) /\ up # <<>> /\ up' = Tail(up)
  BY DEF Records, TypeOK, AwsAnswers
<1>2. up[1] \in [cmd : Command, doc : Doc]
  BY <1>1, TakeFromQueue
<1> QED BY <1>1, <1>2, TakeFromQueue DEF Records, StartInv

\* Of what AWS answers the device sees a message on a topic of the command.
LEMMA AwsMessage ==
  ASSUME Records, AwsAnswers
  PROVE  /\ \E m \in Message :
              /\ down' = Publish(m) /\ m.token = up[1].doc.token /\ m.topic.cmd = up[1].cmd
              /\ m.topic # Delta
         /\ desired' \in Tare /\ reported' \in Tare /\ missed' \in BOOLEAN
<1> DEFINE r == Head(up)
<1>1. r = up[1] /\ r.cmd \in Command /\ r.doc \in Doc
  BY NextRequest
<1> HIDE DEF r
<1>2. r.doc.token \in Nat /\ r.doc.desired \in Tare /\ r.doc.reported \in Tare
  BY <1>1 DEF Doc
<1>3. desired \in Tare /\ reported \in Tare /\ missed \in BOOLEAN /\ NoValue \in Tare
  BY DEF Records, TypeOK, Tare
<1>4. \A c \in Command : c # "delta"
  BY DEF Command
<1>5. ASSUME NEW v \in Tare, NEW t \in {Accepted(r.cmd), Rejected(r.cmd)}
      PROVE  /\ [topic |-> t, token |-> r.doc.token, value |-> v] \in Message
             /\ [topic |-> t, token |-> r.doc.token, value |-> v].topic.cmd = r.cmd
             /\ [topic |-> t, token |-> r.doc.token, value |-> v].token = r.doc.token
             /\ t # Delta
  <2>1. t \in Topic /\ t # Delta
    BY <1>1, DeltaIsNoTopic
  <2>2. t.cmd = r.cmd
    BY DEF Accepted, Rejected
  <2> QED BY <1>2, <2>1, <2>2 DEF Message
<1>6. CASE AwsUpdates
  <2> DEFINE m == [topic |-> Accepted(r.cmd), token |-> r.doc.token, value |-> r.doc.reported]
  <2>1. m \in Message /\ m.topic.cmd = r.cmd /\ m.token = r.doc.token /\ m.topic # Delta
    BY <1>2, <1>5
  <2>2. down' = Publish(m)
    BY <1>6 DEF AwsUpdates, r
  <2>3. desired' \in Tare /\ reported' \in Tare
    BY <1>2, <1>3, <1>6 DEF AwsUpdates, r
  <2>4. missed' \in BOOLEAN
    BY <1>3, <1>6, Zenon DEF AwsUpdates, r
  <2> HIDE DEF m
  <2> QED BY <1>1, <2>1, <2>2, <2>3, <2>4
<1>7. CASE AwsGets
  <2> DEFINE m == [topic |-> IF desired = NoValue THEN Rejected(r.cmd) ELSE Accepted(r.cmd),
                   token |-> r.doc.token, value |-> desired]
  <2>1. m \in Message /\ m.topic.cmd = r.cmd /\ m.token = r.doc.token /\ m.topic # Delta
    BY <1>3, <1>5
  <2>2. down' = Publish(m) /\ UNCHANGED <<desired, reported>>
    BY <1>7 DEF AwsGets, r
  <2>3. missed' \in BOOLEAN
    BY <1>3, <1>7, Zenon DEF AwsGets, r
  <2> HIDE DEF m
  <2> QED BY <1>1, <1>3, <2>1, <2>2, <2>3
<1>8. CASE AwsRejects
  <2> DEFINE m == [topic |-> Rejected(r.cmd), token |-> r.doc.token, value |-> NoValue]
  <2>1. m \in Message /\ m.topic.cmd = r.cmd /\ m.token = r.doc.token /\ m.topic # Delta
    BY <1>3, <1>5
  <2>2. down' = Publish(m) /\ UNCHANGED <<desired, reported>>
    BY <1>8 DEF AwsRejects, r
  <2>3. missed' \in BOOLEAN
    BY <1>3, <1>8, Zenon DEF AwsRejects, r
  <2> HIDE DEF m
  <2> QED BY <1>1, <1>3, <2>1, <2>2, <2>3
<1> QED BY <1>6, <1>7, <1>8 DEF AwsAnswers

LEMMA AwsAnswersKeeps ==
  ASSUME Records, AwsAnswers
  PROVE  Records'
<1>1. UNCHANGED <<library, op, device, started, network, writes, written, breaks, taken, called>>
  BY DEF AwsAnswers
<1>2. PICK m \in Message : down' = Publish(m) /\ m.topic # Delta
  BY AwsMessage
<1>3. down' \in Seq(Message) /\ DeltaInv'
  BY <1>2, PublishedDeltas
<1>4. TypeOK'
  BY <1>1, <1>3, AwsMessage, NextRequest DEF Records, TypeOK, library, device, network
<1>5. StartInv' /\ SettledInv' /\ OpInv' /\ WaitInv'
  BY <1>1, NextRequest, SameTopicsKeep DEF library, network, SameTopics, Records
<1> QED BY <1>3, <1>4, <1>5 DEF Records

LEMMA SessionBreaksKeeps ==
  ASSUME Records, SessionBreaks
  PROVE  Records'
<1>1. /\ connected' = FALSE /\ heard' = {} /\ up' = <<>> /\ down' = <<>> /\ missed' = TRUE
      /\ UNCHANGED <<library, op, device, started, cloud, taken, called>>
  BY DEF SessionBreaks
<1>2. TypeOK'
  <2>1. up' \in Seq([cmd : Command, doc : Doc]) /\ down' \in Seq(Message)
    BY <1>1
  <2>2. heard' \subseteq Topic \cup {Delta} /\ connected' \in BOOLEAN /\ missed' \in BOOLEAN
    BY <1>1
  <2> QED BY <1>1, <2>1, <2>2 DEF Records, TypeOK, library, device, cloud
<1>3. DeltaInv'
  BY <1>1 DEF DeltaInv
<1>4. StartInv' /\ SettledInv' /\ OpInv' /\ WaitInv'
  BY <1>1, SameTopicsKeep DEF library, SameTopics, Records
<1> QED BY <1>2, <1>3, <1>4 DEF Records

LEMMA ReconnectsKeeps ==
  ASSUME Records, Reconnects
  PROVE  Records'
<1>1. /\ started /\ op = Idle /\ connected' = TRUE
      /\ heard' = {Delta} \cup {subscriptionList[s].topic : s \in handlers}
      /\ UNCHANGED <<library, op, device, started, up, down, cloud, breaks, taken, called, missed>>
  BY DEF Reconnects
<1>2. TypeOK'
  <2>1. heard' \subseteq Topic \cup {Delta}
    BY <1>1 DEF Records, SettledInv
  <2> QED BY <1>1, <2>1 DEF Records, TypeOK, library, device, cloud
<1>3. DeltaInv'
  BY <1>1 DEF Records, DeltaInv
<1>4. SameTopics
  BY <1>1 DEF SameTopics, library
<1>5. /\ Settled' = Settled
      /\ \A c \in Command : HasTopics(c)' <=> HasTopics(c)
  BY <1>4, TopicsStay
<1>6. SettledInv'
  BY <1>1, <1>5 DEF Records, SettledInv, library
<1>7. OpInv'
  BY <1>1 DEF Records, OpInv, Subscribing, Preparing
<1>8. WaitInv'
  BY <1>1, <1>5 DEF Records, WaitInv, Waiting, library
<1>9. StartInv'
  BY <1>1 DEF StartInv
<1> QED BY <1>2, <1>3, <1>6, <1>7, <1>8, <1>9 DEF Records

\* Nothing is known of the topics yet, or any more.
LEMMA NothingYet ==
  ASSUME op' = Idle, \A s \in 1..Slots : subscriptionList'[s].isFree, handlers' = {},
         \A i \in 1..Acks : ackWaitList'[i] = Free
  PROVE  SettledInv' /\ OpInv' /\ WaitInv'
<1>1. Settled' = {}
  BY DEF Settled
<1>2. ~Subscribing' /\ ~Preparing'
  BY DEF Subscribing, Preparing
<1> QED BY <1>1, <1>2 DEF SettledInv, OpInv, WaitInv, Waiting, Idle

LEMMA InitRecords == Init => Records
<1> SUFFICES ASSUME Init PROVE Records
  OBVIOUS
<1>1. /\ ackWaitList = [i \in 1..Acks |-> Free] /\ subscriptionList = [s \in 1..Slots |-> EmptySlot]
      /\ handlers = {} /\ rxBuf = NoValue /\ token = 0 /\ op = Idle /\ queue = <<>> /\ ~started
      /\ started = FALSE /\ tare \in Value /\ ~connected /\ connected = FALSE /\ heard = {}
      /\ up = <<>> /\ down = <<>> /\ reported \in Value \cup {NoValue} /\ desired \in Value \cup {NoValue}
      /\ missed = FALSE
  BY DEF Init, NoAcks, NoSlots
<1>2. TypeOK
  <2>1. subscriptionList \in [1..Slots -> SlotRec]
    BY <1>1 DEF SlotRec, EmptySlot
  <2>2. queue \in Seq(Command) /\ Len(queue) <= QueueLength
    BY <1>1, ShadowAssumption
  <2>3. up \in Seq([cmd : Command, doc : Doc]) /\ down \in Seq(Message)
    BY <1>1
  <2>4. ackWaitList \in [1..Acks -> Request \cup {Free}]
    BY <1>1
  <2>5. /\ handlers \subseteq 1..Slots /\ rxBuf \in Tare /\ token \in Nat
        /\ started \in BOOLEAN /\ connected \in BOOLEAN /\ heard \subseteq Topic \cup {Delta}
    BY <1>1 DEF Tare
  <2> QED BY <1>1, <2>1, <2>2, <2>3, <2>4, <2>5 DEF SlotRec, TypeOK, Tare
<1>3. StartInv /\ DeltaInv
  BY <1>1 DEF StartInv, DeltaInv, EmptySlot
<1>4. Settled = {} /\ ~Subscribing /\ ~Preparing
  BY <1>1 DEF Settled, Subscribing, Preparing, EmptySlot
<1>5. SettledInv /\ OpInv /\ WaitInv
  BY <1>1, <1>4 DEF SettledInv, OpInv, WaitInv, Waiting, Idle
<1> QED BY <1>2, <1>3, <1>5 DEF Records

LEMMA RestartsKeeps ==
  ASSUME Records, Restarts
  PROVE  Records'
<1>1. /\ ackWaitList' = [i \in 1..Acks |-> Free] /\ subscriptionList' = [s \in 1..Slots |-> EmptySlot]
      /\ handlers' = {} /\ rxBuf' = NoValue /\ token' = 0 /\ op' = Idle /\ queue' = <<>>
      /\ started' = FALSE /\ connected' = FALSE /\ heard' = {} /\ up' = <<>> /\ down' = <<>>
      /\ missed' = TRUE /\ UNCHANGED <<tare, desired, reported>>
  BY DEF Restarts, NoAcks, NoSlots, cloud
<1>2. TypeOK'
  <2>1. subscriptionList' \in [1..Slots -> SlotRec]
    BY <1>1 DEF SlotRec, EmptySlot
  <2>2. queue' \in Seq(Command) /\ Len(queue') <= QueueLength
    BY <1>1, ShadowAssumption
  <2>3. up' \in Seq([cmd : Command, doc : Doc]) /\ down' \in Seq(Message)
    BY <1>1
  <2>4. ackWaitList' \in [1..Acks -> Request \cup {Free}]
    BY <1>1
  <2>5. /\ handlers' \subseteq 1..Slots /\ rxBuf' \in Tare /\ token' \in Nat
        /\ started' \in BOOLEAN /\ connected' \in BOOLEAN /\ heard' \subseteq Topic \cup {Delta}
    BY <1>1 DEF Tare
  <2> QED BY <1>1, <2>1, <2>2, <2>3, <2>4, <2>5 DEF SlotRec, Records, TypeOK
<1>3. StartInv' /\ DeltaInv'
  BY <1>1 DEF StartInv, DeltaInv, EmptySlot
<1>4. SettledInv' /\ OpInv' /\ WaitInv'
  BY <1>1, NothingYet DEF EmptySlot
<1> QED BY <1>2, <1>3, <1>4 DEF Records

\* The queue has room for the commands of the start.
LEMMA FirstThree ==
  ASSUME NEW q \in Seq(Command), NEW c \in Command
  PROVE  /\ Len(q) = 0 => Enqueue(q, c) \in Seq(Command) /\ Len(Enqueue(q, c)) = 1
                          /\ Len(Enqueue(q, c)) <= QueueLength
         /\ Len(q) = 1 => Enqueue(q, c) \in Seq(Command) /\ Len(Enqueue(q, c)) = 2
                          /\ Len(Enqueue(q, c)) <= QueueLength
         /\ Len(q) = 2 => /\ Enqueue(q, c) \in Seq(Command) /\ Len(Enqueue(q, c)) = 3
                          /\ Len(Enqueue(q, c)) <= QueueLength /\ Enqueue(q, c)[3] = c
<1>1. QueueLength \in Nat /\ QueueLength >= 3
  BY Commands, ShadowAssumption
<1> DEFINE a == Append(q, c)
<1>2. a \in Seq(Command) /\ Len(a) = Len(q) + 1 /\ a[Len(q) + 1] = c /\ Len(q) \in Nat
  BY AppendToQueue
<1>3. Len(q) < QueueLength => Enqueue(q, c) = a
  BY Zenon DEF Enqueue
<1> HIDE DEF a
<1>4. CASE Len(q) = 0
  <2>1. Len(a) = 1
    BY <1>2, <1>4
  <2>2. Enqueue(q, c) = a
    BY <1>1, <1>3, <1>4
  <2> QED BY <1>1, <1>2, <1>4, <2>1, <2>2
<1>5. CASE Len(q) = 1
  <2>1. Len(a) = 2
    BY <1>2, <1>5
  <2>2. Enqueue(q, c) = a
    BY <1>1, <1>3, <1>5
  <2> QED BY <1>1, <1>2, <1>5, <2>1, <2>2
<1>6. CASE Len(q) = 2
  <2>1. a[3] = c /\ Len(a) = 3
    BY <1>2, <1>6
  <2>2. Enqueue(q, c) = a
    BY <1>1, <1>3, <1>6
  <2> QED BY <1>1, <1>2, <1>6, <2>1, <2>2
<1> QED BY <1>4, <1>5, <1>6

LEMMA StartKeeps ==
  ASSUME Records, Start
  PROVE  /\ Records'
         /\ \E i \in 1..Len(queue') : queue'[i] = "set_tare"
<1>1. /\ ~started /\ heard' = {Delta} /\ started' = TRUE /\ connected' = TRUE
      /\ queue' = Enqueue(Enqueue(Enqueue(<<>>, "get_tare"), "set_fw"), "set_tare")
      /\ UNCHANGED <<library, op, tare, up, down, cloud, breaks, taken, called, missed>>
  BY DEF Start, RegisterDelta
<1> DEFINE q1 == Enqueue(<<>>, "get_tare")
           q2 == Enqueue(q1, "set_fw")
<1>2. QueueLength \in Nat /\ QueueLength >= 3
  BY Commands, ShadowAssumption
<1>3. /\ queue' \in Seq(Command) /\ Len(queue') <= QueueLength
      /\ Len(queue') = 3 /\ queue'[3] = "set_tare"
  <2>1. "get_tare" \in Command /\ "set_fw" \in Command /\ "set_tare" \in Command
    BY DEF Command
  <2>2. <<>> \in Seq(Command) /\ Len(<<>>) = 0
    OBVIOUS
  <2>3. q1 \in Seq(Command) /\ Len(q1) = 1 /\ Len(q1) <= QueueLength
    BY <1>2, <2>1, <2>2, FirstThree
  <2> HIDE DEF q1
  <2>4. q2 \in Seq(Command) /\ Len(q2) = 2 /\ Len(q2) <= QueueLength
    BY <1>2, <2>1, <2>3, FirstThree
  <2>5. queue' = Enqueue(q2, "set_tare")
    BY <1>1 DEF q1
  <2> HIDE DEF q2
  <2> QED BY <1>2, <2>1, <2>4, <2>5, FirstThree
<1>4. TypeOK'
  BY <1>1, <1>3 DEF Records, TypeOK, library, cloud
<1>5. StartInv' /\ DeltaInv'
  BY <1>1 DEF Records, StartInv, DeltaInv
<1>6. /\ op' = Idle /\ handlers' = {} /\ op = Idle /\ handlers = {}
      /\ \A s \in 1..Slots : subscriptionList'[s].isFree /\ subscriptionList[s].isFree
  BY <1>1 DEF Records, StartInv, library
<1>7. Settled' = {} /\ Settled = {} /\ ~Subscribing' /\ ~Preparing'
  BY <1>6 DEF Settled, Subscribing, Preparing
<1>8. SettledInv' /\ OpInv'
  BY <1>6, <1>7 DEF SettledInv, OpInv, Idle
<1>9. WaitInv'
  <2>1. \A c \in Command : ~HasTopics(c)
    BY <1>7 DEF HasTopics
  <2>2. \A i \in 1..Acks : ackWaitList[i] = Free
    BY <2>1 DEF Records, WaitInv, Waiting, TypeOK, Request
  <2> QED BY <1>1, <2>2 DEF WaitInv, Waiting, library
<1>10. 3 \in 1..Len(queue') /\ queue'[3] = "set_tare"
  BY <1>3
<1> QED BY <1>4, <1>5, <1>8, <1>9, <1>10 DEF Records

-----------------------------------------------------------------------------
(* The callbacks.                                                          *)

\* A value taken over will be reported, unless the queue is full.
LEMMA TareCallbackEffect ==
  ASSUME Records, NEW v \in Value, NEW late \in BOOLEAN, TareCallback(v, late)
  PROVE  /\ tare' \in Value /\ queue' \in Seq(Command) /\ Len(queue') <= QueueLength
         /\ missed' \in BOOLEAN /\ (missed => missed')
         /\ \A i \in 1..Len(queue) : i \in 1..Len(queue') /\ queue'[i] = queue[i]
         /\ missed' \/ \E i \in 1..Len(queue') : queue'[i] = "set_tare"
<1>1. /\ tare' = v /\ queue' = Enqueue(queue, "set_tare")
      /\ missed' = (missed \/ late \/ Len(queue) = QueueLength)
  BY DEF TareCallback
<1>2. /\ queue \in Seq(Command) /\ Len(queue) <= QueueLength /\ Len(queue) \in Nat
      /\ QueueLength \in Nat /\ missed \in BOOLEAN /\ "set_tare" \in Command
  BY ShadowAssumption DEF Records, TypeOK, Command
<1>3. /\ queue' \in Seq(Command) /\ Len(queue') <= QueueLength
      /\ \A i \in 1..Len(queue) : i \in 1..Len(queue') /\ queue'[i] = queue[i]
      /\ Len(queue) < QueueLength =>
           /\ Len(queue') = Len(queue) + 1
           /\ queue'[Len(queue) + 1] = "set_tare"
  BY <1>1, <1>2, EnqueueTypes
<1>4. missed' \in BOOLEAN /\ (missed => missed') /\ (Len(queue) = QueueLength => missed')
  BY <1>1, <1>2, Zenon
<1>5. missed' \/ \E i \in 1..Len(queue') : queue'[i] = "set_tare"
  <2>1. CASE Len(queue) < QueueLength
    <3>1. Len(queue) + 1 \in 1..Len(queue')
      BY <1>2, <1>3, <2>1
    <3> QED BY <1>3, <2>1, <3>1
  <2>2. CASE ~(Len(queue) < QueueLength)
    BY <1>2, <1>4, <2>2
  <2> QED BY <2>1, <2>2
<1> QED BY <1>1, <1>3, <1>4, <1>5

LEMMA CallbackEffect ==
  ASSUME Records, NEW c, NEW found \in Tare, NEW late \in BOOLEAN, Callback(c, found, late)
  PROVE  /\ tare' \in Value /\ queue' \in Seq(Command) /\ Len(queue') <= QueueLength
         /\ missed' \in BOOLEAN /\ (missed => missed')
         /\ \A i \in 1..Len(queue) : i \in 1..Len(queue') /\ queue'[i] = queue[i]
         /\ missed' \/ tare' = tare \/ \E i \in 1..Len(queue') : queue'[i] = "set_tare"
<1>1. CASE c = "get_tare" /\ Parsed(found)
  <2>1. found \in Value /\ TareCallback(found, late)
    BY <1>1 DEF Callback, GetCallback, GetPayload, Parsed
  <2> QED BY <2>1, TareCallbackEffect
<1>2. CASE ~(c = "get_tare" /\ Parsed(found))
  <2>1. /\ UNCHANGED <<tare, queue>> /\ missed' \in {missed, missed \/ late}
    BY <1>2 DEF Callback, GetCallback, GetPayload, device
  <2>2. missed' \in BOOLEAN /\ (missed => missed')
    BY <2>1, Zenon DEF Records, TypeOK
  <2> QED BY <2>1, <2>2 DEF Records, TypeOK
<1> QED BY <1>1, <1>2

\* A request is ended: its record is free and the counts of its topics change.
LEMMA EndedEffect ==
  ASSUME Records, NEW i \in 1..Acks, Waiting(i), NEW cause, NEW found \in Tare,
         Ended(i, ackWaitList[i].cmd, cause, found)
  PROVE  /\ ackWaitList' = [ackWaitList EXCEPT ![i] = Free]
         /\ ackWaitList' \in [1..Acks -> Request \cup {Free}]
         /\ calls' = calls + 1 /\ last' = [cmd |-> ackWaitList[i].cmd, cause |-> cause]
         /\ subscriptionList' \in [1..Slots -> SlotRec]
         /\ \A s \in 1..Slots : /\ subscriptionList'[s].topic = subscriptionList[s].topic
                                /\ subscriptionList'[s].isFree = subscriptionList[s].isFree
         /\ tare' \in Value /\ queue' \in Seq(Command) /\ Len(queue') <= QueueLength
         /\ missed' \in BOOLEAN /\ (missed => missed')
         /\ \A j \in 1..Len(queue) : j \in 1..Len(queue') /\ queue'[j] = queue[j]
         /\ missed' \/ tare' = tare \/ \E j \in 1..Len(queue') : queue'[j] = "set_tare"
<1> DEFINE c == ackWaitList[i].cmd
<1>1. /\ Callback(c, found, cause = "timeout") /\ subscriptionList' = CountDown(subscriptionList, c)
      /\ ackWaitList' = [ackWaitList EXCEPT ![i] = Free]
      /\ calls' = calls + 1 /\ last' = [cmd |-> c, cause |-> cause]
  BY DEF Ended
<1>2. subscriptionList \in [1..Slots -> SlotRec] /\ ackWaitList \in [1..Acks -> Request \cup {Free}]
  BY DEF SlotRec, Records, TypeOK
<1> HIDE DEF c
<1>3. ASSUME NEW s \in 1..Slots
      PROVE  /\ subscriptionList'[s] \in SlotRec
             /\ subscriptionList'[s].topic = subscriptionList[s].topic
             /\ subscriptionList'[s].isFree = subscriptionList[s].isFree
  <2>1. subscriptionList[s] \in SlotRec
    BY <1>2
  <2>2. subscriptionList'[s] =
          IF ~subscriptionList[s].isFree /\ subscriptionList[s].topic \in {Accepted(c), Rejected(c)}
             /\ subscriptionList[s].count > 1
          THEN [subscriptionList[s] EXCEPT !.count = @ - 1] ELSE subscriptionList[s]
    BY <1>1, <1>2 DEF CountDown
  <2> QED BY <2>1, <2>2 DEF SlotRec
<1>4. subscriptionList' \in [1..Slots -> SlotRec]
  <2>1. subscriptionList' = [s \in 1..Slots |-> subscriptionList'[s]]
    BY <1>1, <1>2 DEF CountDown
  <2> QED BY <1>3, <2>1
<1>5. ackWaitList' \in [1..Acks -> Request \cup {Free}]
  BY <1>1, <1>2
<1>6. (cause = "timeout") \in BOOLEAN
  OBVIOUS
<1>7. /\ tare' \in Value /\ queue' \in Seq(Command) /\ Len(queue') <= QueueLength
      /\ missed' \in BOOLEAN /\ (missed => missed')
      /\ \A j \in 1..Len(queue) : j \in 1..Len(queue') /\ queue'[j] = queue[j]
      /\ missed' \/ tare' = tare \/ \E j \in 1..Len(queue') : queue'[j] = "set_tare"
  BY <1>1, <1>6, CallbackEffect
<1> QED BY <1>1, <1>3, <1>4, <1>5, <1>7 DEF c

LEMMA ExpireKeeps ==
  ASSUME Records, Expire
  PROVE  Records'
<1>1. PICK i \in 1..Acks : /\ Waiting(i) /\ Ended(i, ackWaitList[i].cmd, "timeout", rxBuf)
  BY DEF Expire
<1>2. UNCHANGED <<handlers, rxBuf, token, op, started, network, up, down, cloud, breaks, taken>>
  BY DEF Expire
<1>3. rxBuf \in Tare
  BY DEF Records, TypeOK
<1>4. TypeOK'
  BY <1>1, <1>2, <1>3, EndedEffect DEF SlotRec, Records, TypeOK, network, cloud
<1>5. DeltaInv'
  BY <1>2 DEF Records, DeltaInv
<1>6. SameTopics
  BY <1>1, <1>2, <1>3, EndedEffect DEF SameTopics
<1>7. \A j \in 1..Acks : ackWaitList'[j] = ackWaitList[j] \/ ackWaitList'[j] = Free
  BY <1>1, <1>3, EndedEffect DEF Records, TypeOK
<1>8. StartInv' /\ SettledInv' /\ OpInv' /\ WaitInv'
  BY <1>2, <1>6, <1>7, SameTopicsKeep DEF network, Records, StartInv
<1> QED BY <1>4, <1>5, <1>8 DEF Records

\* A message is read: of the requests it ends at most one, that has its token.
LEMMA ReadEffect ==
  ASSUME Records, Read
  PROVE  /\ down # <<>> /\ down[1] \in Message /\ down' = Tail(down)
         /\ UNCHANGED <<handlers, token, op, started, network, up, cloud, breaks, taken>>
         /\ \/ /\ down[1].topic # Delta
               /\ UNCHANGED <<ackWaitList, subscriptionList, tare, queue, calls, last, missed>>
               /\ rxBuf' \in Tare
            \/ /\ down[1].topic # Delta
               /\ \E i \in 1..Acks :
                    /\ Waiting(i) /\ ackWaitList[i].token = down[1].token
                    /\ Ended(i, ackWaitList[i].cmd, down[1].topic.cmd, down[1].value)
               /\ rxBuf' \in Tare
            \/ /\ down[1].topic = Delta /\ down[1].value \in Value
               /\ TareCallback(down[1].value, FALSE)
               /\ UNCHANGED <<ackWaitList, subscriptionList, calls, last>>
               /\ rxBuf' \in Tare
<1>1. down # <<>> /\ down' = Tail(down) /\ (AckStatusCallback \/ DeltaCallback)
  BY DEF Read
<1>2. down \in Seq(Message)
  BY DEF Records, TypeOK
<1> DEFINE m == Head(down)
<1>3. m = down[1] /\ m \in Message /\ 1 \in 1..Len(down) /\ m.value \in Tare
  <2>1. m = down[1] /\ m \in Message /\ Len(down) \in Nat /\ Len(down) >= 1
    BY <1>1, <1>2, TakeFromQueue
  <2> HIDE DEF m
  <2> QED BY <2>1 DEF Message
<1>4. rxBuf \in Tare /\ NoValue \in Tare
  BY DEF Records, TypeOK, Tare
<1>5. CASE AckStatusCallback
  <2>1. m.topic # Delta
    BY <1>5 DEF AckStatusCallback
  <2>2. CASE ~Handled(m.topic) \/ WaitingFor(m) = {}
    <3>1. /\ UNCHANGED <<ackWaitList, subscriptionList, tare, queue, calls, last, missed>>
          /\ rxBuf' \in {rxBuf, m.value}
      BY <1>5, <2>2 DEF AckStatusCallback, device, called
    <3> HIDE DEF m
    <3> QED BY <1>1, <1>3, <1>4, <2>1, <3>1 DEF Read
  <2>3. CASE Handled(m.topic) /\ WaitingFor(m) # {}
    <3> DEFINE i == CHOOSE w \in WaitingFor(m) : \A x \in WaitingFor(m) : w <= x
    <3>1. rxBuf' = m.value /\ Ended(i, ackWaitList[i].cmd, m.topic.cmd, m.value)
      BY <1>5, <2>3 DEF AckStatusCallback
    <3> HIDE DEF m
    <3>2. i = FirstOf(WaitingFor(m))
      BY DEF FirstOf
    <3>3. WaitingFor(m) \subseteq Nat
      BY ShadowAssumption DEF WaitingFor
    <3>4. i \in WaitingFor(m)
      BY <2>3, <3>2, <3>3, FirstIsIn
    <3> HIDE DEF i
    <3>5. i \in 1..Acks /\ Waiting(i) /\ ackWaitList[i].token = m.token
      BY <3>4 DEF WaitingFor
    <3> QED BY <1>1, <1>3, <2>1, <3>1, <3>5 DEF Read
  <2> QED BY <2>2, <2>3
<1>6. CASE DeltaCallback
  <2>1. /\ m.topic = Delta /\ rxBuf' = NoValue /\ TareCallback(m.value, FALSE)
        /\ UNCHANGED <<ackWaitList, subscriptionList, calls, last>>
    BY <1>6 DEF DeltaCallback, called
  <2> HIDE DEF m
  <2>2. m.value \in Value
    BY <1>3, <2>1 DEF Records, DeltaInv
  <2> QED BY <1>1, <1>3, <1>4, <2>1, <2>2 DEF Read
<1> QED BY <1>1, <1>5, <1>6

LEMMA ReadKeeps ==
  ASSUME Records, Read
  PROVE  Records'
<1>1. /\ down # <<>> /\ down' = Tail(down) /\ down \in Seq(Message)
      /\ UNCHANGED <<handlers, token, op, started, network, up, cloud, breaks, taken>>
  BY ReadEffect DEF Records, TypeOK
<1>2. down' \in Seq(Message) /\ DeltaInv'
  <2>1. /\ Tail(down) \in Seq(Message) /\ Len(down) \in Nat /\ Len(Tail(down)) = Len(down) - 1
        /\ \A i \in 1..Len(down) - 1 : Tail(down)[i] = down[i + 1]
    BY <1>1, TakeFromQueue
  <2>2. \A i \in 1..Len(down') : i + 1 \in 1..Len(down) /\ down'[i] = down[i + 1]
    BY <1>1, <2>1
  <2> QED BY <1>1, <2>1, <2>2 DEF Records, DeltaInv
<1>3. \A i \in 1..Acks : Waiting(i) => ackWaitList[i].cmd \in Command
  BY DEF Records, TypeOK, Request, Waiting
<1>4. down[1].value \in Tare /\ FALSE \in BOOLEAN
  BY ReadEffect DEF Message
<1>5. /\ ackWaitList' \in [1..Acks -> Request \cup {Free}] /\ rxBuf' \in Tare
      /\ subscriptionList' \in [1..Slots -> SlotRec]
      /\ \A s \in 1..Slots : /\ subscriptionList'[s].topic = subscriptionList[s].topic
                             /\ subscriptionList'[s].isFree = subscriptionList[s].isFree
      /\ \A j \in 1..Acks : ackWaitList'[j] = ackWaitList[j] \/ ackWaitList'[j] = Free
      /\ tare' \in Value /\ queue' \in Seq(Command) /\ Len(queue') <= QueueLength
      /\ missed' \in BOOLEAN
  <2>1. CASE UNCHANGED <<ackWaitList, subscriptionList, tare, queue, calls, last, missed>> /\ rxBuf' \in Tare
    BY <2>1 DEF SlotRec, Records, TypeOK
  <2>2. ASSUME NEW i \in 1..Acks, Waiting(i), rxBuf' \in Tare,
               Ended(i, ackWaitList[i].cmd, down[1].topic.cmd, down[1].value)
        PROVE  /\ ackWaitList' \in [1..Acks -> Request \cup {Free}]
               /\ subscriptionList' \in [1..Slots -> SlotRec]
               /\ \A s \in 1..Slots : /\ subscriptionList'[s].topic = subscriptionList[s].topic
                                      /\ subscriptionList'[s].isFree = subscriptionList[s].isFree
               /\ \A j \in 1..Acks : ackWaitList'[j] = ackWaitList[j] \/ ackWaitList'[j] = Free
               /\ tare' \in Value /\ queue' \in Seq(Command) /\ Len(queue') <= QueueLength
               /\ missed' \in BOOLEAN
    <3>1. /\ ackWaitList' = [ackWaitList EXCEPT ![i] = Free]
          /\ ackWaitList' \in [1..Acks -> Request \cup {Free}]
      BY <1>4, <2>2, EndedEffect
    <3>2. \A j \in 1..Acks : ackWaitList'[j] = ackWaitList[j] \/ ackWaitList'[j] = Free
      BY <3>1 DEF Records, TypeOK
    <3> QED BY <1>4, <2>2, <3>1, <3>2, EndedEffect
  <2>3. CASE /\ down[1].value \in Value /\ TareCallback(down[1].value, FALSE) /\ rxBuf' \in Tare
             /\ UNCHANGED <<ackWaitList, subscriptionList, calls, last>>
    <3>1. /\ tare' \in Value /\ queue' \in Seq(Command) /\ Len(queue') <= QueueLength
          /\ missed' \in BOOLEAN
      BY <1>4, <2>3, TareCallbackEffect
    <3> QED BY <2>3, <3>1 DEF SlotRec, Records, TypeOK
  <2> QED BY <2>1, <2>2, <2>3, ReadEffect
<1>6. TypeOK'
  BY <1>1, <1>2, <1>5 DEF SlotRec, Records, TypeOK, network, cloud
<1>7. SameTopics
  BY <1>1, <1>5 DEF SameTopics
<1>8. StartInv' /\ SettledInv' /\ OpInv' /\ WaitInv'
  BY <1>1, <1>5, <1>7, SameTopicsKeep DEF network, Records, StartInv
<1> QED BY <1>2, <1>6, <1>8 DEF Records
-----------------------------------------------------------------------------
(* Making a request.                                                       *)

\* The settled slots stay as they are, whatever becomes of the others.
LEMMA SettledStay ==
  ASSUME Records, Settled' = Settled,
         \A s \in Settled :
           /\ subscriptionList'[s].topic = subscriptionList[s].topic
           /\ s \in handlers => s \in handlers'
           /\ connected' => connected
           /\ subscriptionList[s].topic \in heard => subscriptionList[s].topic \in heard',
         \A s \in handlers' : subscriptionList'[s].topic \in Topic
  PROVE  SettledInv' /\ \A c \in Command : HasTopics(c)' <=> HasTopics(c)
<1>1. \A c \in Command : HasTopics(c)' <=> HasTopics(c)
  BY Zenon DEF HasTopics, Accepted, Rejected
<1>2. ASSUME NEW s \in Settled
      PROVE  /\ subscriptionList'[s].topic \in Topic /\ s \in handlers'
             /\ connected' => subscriptionList'[s].topic \in heard'
             /\ \A c \in Command : subscriptionList'[s].topic.cmd = c => HasTopics(c)'
             /\ \A r \in Settled : subscriptionList'[r].topic = subscriptionList'[s].topic => r = s
  BY <1>1, <1>2 DEF Records, SettledInv
<1>3. \A s \in Settled : subscriptionList'[s].topic.cmd \in Command
  BY <1>2 DEF Topic
<1> QED BY <1>1, <1>2, <1>3 DEF SettledInv

LEMMA WaitStay ==
  ASSUME Records, \A c \in Command : HasTopics(c) => HasTopics(c)', ackWaitList' = ackWaitList
  PROVE  WaitInv'
<1> SUFFICES ASSUME NEW i \in 1..Acks, NEW c \in Command, ackWaitList'[i] # Free,
                    ackWaitList'[i].cmd = c
             PROVE  HasTopics(c)'
  <2>1. \A i \in 1..Acks : ackWaitList'[i] # Free => ackWaitList'[i].cmd \in Command
    BY DEF Records, TypeOK, Request
  <2> QED BY <2>1 DEF WaitInv, Waiting
<1> QED BY DEF Records, WaitInv, Waiting

\* At rest the slots in use are the settled ones.
LEMMA SettledAtRest ==
  ASSUME ~Subscribing
  PROVE  Settled = {s \in 1..Slots : ~subscriptionList[s].isFree}
BY DEF Settled, Busy

LEMMA DocumentIs ==
  ASSUME Records, NEW c \in Command
  PROVE  /\ Document(c) \in Doc /\ Document(c).token = token
         /\ c = "set_tare" => Reports(Document(c), tare)
<1>1. token \in Nat /\ tare \in Value /\ tare \in Tare /\ NoValue \in Tare
  BY DEF Records, TypeOK, Tare
<1>2. CASE c = "get_tare"
  BY <1>1, <1>2 DEF Document, EmptyJson, InitJsonDocument, Doc
<1>3. CASE c = "set_tare"
  BY <1>1, <1>3 DEF Document, UpdateDocument, Finalize, CreateJsonFormat, AddDesired, AddReported,
                    InitJsonDocument, Doc, Reports
<1>4. CASE c = "set_fw"
  BY <1>1, <1>4 DEF Document, UpdateDocument, Finalize, CreateJsonFormat, AddDesired, AddReported,
                    InitJsonDocument, Doc
<1> QED BY <1>2, <1>3, <1>4 DEF Command

LEMMA CountUpKeeps ==
  ASSUME Records, NEW c \in Command
  PROVE  /\ CountUp(subscriptionList, c) \in [1..Slots -> SlotRec]
         /\ \A s \in 1..Slots :
              /\ CountUp(subscriptionList, c)[s].topic = subscriptionList[s].topic
              /\ CountUp(subscriptionList, c)[s].isFree = subscriptionList[s].isFree
<1> DEFINE l == CountUp(subscriptionList, c)
<1>1. subscriptionList \in [1..Slots -> SlotRec]
  BY DEF SlotRec, Records, TypeOK
<1>2. ASSUME NEW s \in 1..Slots
      PROVE  /\ l[s] \in SlotRec
             /\ l[s].topic = subscriptionList[s].topic
             /\ l[s].isFree = subscriptionList[s].isFree
  <2>0. \A n \in 0..255 : (n + 1) % 256 \in 0..255
    OBVIOUS
  <2>1. subscriptionList[s] \in SlotRec /\ (subscriptionList[s].count + 1) % 256 \in 0..255
    <3>1. subscriptionList[s] \in SlotRec
      BY <1>1
    <3>2. subscriptionList[s].count \in 0..255
      BY <3>1 DEF SlotRec
    <3> QED BY <2>0, <3>1, <3>2
  <2>2. l[s] =
          IF ~subscriptionList[s].isFree /\ subscriptionList[s].topic \in {Accepted(c), Rejected(c)}
          THEN [subscriptionList[s] EXCEPT !.count = (@ + 1) % 256] ELSE subscriptionList[s]
    BY <1>1 DEF CountUp
  <2> QED BY <2>1, <2>2 DEF SlotRec
<1>3. l = [s \in 1..Slots |-> l[s]]
  BY <1>1 DEF CountUp
<1> HIDE DEF l
<1>4. l \in [1..Slots -> SlotRec]
  BY <1>2, <1>3
<1> QED BY <1>2, <1>4 DEF l

\* A command is taken and the documents made of it; what differs is the slots.
LEMMA ServeEffect ==
  ASSUME Records, Serve
  PROVE  /\ started /\ connected /\ op = Idle
         /\ queue # <<>> /\ Head(queue) \in Command /\ Head(queue) = queue[1]
         /\ queue' = Tail(queue) /\ queue' \in Seq(Command) /\ Len(queue') <= QueueLength
         /\ \A i \in 1..Len(queue) - 1 : queue'[i] = queue[i + 1]
         /\ Len(queue) \in Nat /\ Len(queue) >= 1 /\ Len(queue') = Len(queue) - 1
         /\ token' = token + 1 /\ token' \in Nat
         /\ UNCHANGED <<ackWaitList, handlers, rxBuf, tare, started, network, up, down, cloud,
                        breaks, taken, called>>
         /\ FreeAcks # {} => FirstOf(FreeAcks) \in 1..Acks /\ ackWaitList[FirstOf(FreeAcks)] = Free
<1>1. /\ started /\ connected /\ op = Idle /\ queue # <<>> /\ queue' = Tail(queue)
      /\ token' = token + 1
      /\ UNCHANGED <<ackWaitList, handlers, rxBuf, tare, started, network, up, down, cloud,
                     breaks, taken, called>>
  BY DEF Serve, NextToken
<1>2. /\ queue \in Seq(Command) /\ Len(queue) <= QueueLength /\ token \in Nat
      /\ QueueLength \in Nat /\ Acks \in Nat
  BY ShadowAssumption DEF Records, TypeOK
<1>3. /\ Head(queue) \in Command /\ Head(queue) = queue[1] /\ queue' \in Seq(Command)
      /\ Len(queue) \in Nat /\ Len(queue) >= 1 /\ Len(queue') = Len(queue) - 1
      /\ \A i \in 1..Len(queue) - 1 : queue'[i] = queue[i + 1]
  BY <1>1, <1>2, TakeFromQueue
<1>4. ASSUME FreeAcks # {}
      PROVE  FirstOf(FreeAcks) \in 1..Acks /\ ackWaitList[FirstOf(FreeAcks)] = Free
  <2>1. FreeAcks \subseteq Nat
    BY <1>2 DEF FreeAcks
  <2>2. FirstOf(FreeAcks) \in FreeAcks
    BY <1>4, <2>1, FirstIsIn
  <2> QED BY <2>2 DEF FreeAcks, Waiting
<1>5. Len(queue') <= QueueLength
  BY <1>2, <1>3
<1> QED BY <1>1, <1>2, <1>3, <1>4, <1>5

\* Two slots are taken, and the first gets its topic.
Taken(x, y, t) ==
  [subscriptionList EXCEPT ![x].isFree = FALSE, ![y].isFree = FALSE, ![x].topic = t]

LEMMA TakeSlots ==
  ASSUME Records, NEW x \in 1..Slots, NEW y \in 1..Slots, x # y, NEW t \in Topic,
         NEW f, f = Taken(x, y, t)
  PROVE  /\ f \in [1..Slots -> SlotRec] /\ f[x].topic = t /\ ~f[x].isFree /\ ~f[y].isFree
         /\ \A s \in 1..Slots : s # x => f[s].topic = subscriptionList[s].topic
         /\ \A s \in 1..Slots : s # x /\ s # y => (f[s].isFree <=> subscriptionList[s].isFree)
<1> DEFINE l == [subscriptionList EXCEPT ![x].isFree = FALSE]
           k == [l EXCEPT ![y].isFree = FALSE]
<1>1. subscriptionList \in [1..Slots -> SlotRec] /\ t \in Topic \cup {NoTopic}
  BY DEF SlotRec, Records, TypeOK
<1>2. \A e \in SlotRec : [e EXCEPT !.isFree = FALSE] \in SlotRec /\ [e EXCEPT !.topic = t] \in SlotRec
  BY <1>1 DEF SlotRec
<1>3. /\ l \in [1..Slots -> SlotRec] /\ l[x] = [subscriptionList[x] EXCEPT !.isFree = FALSE]
      /\ \A s \in 1..Slots : s # x => l[s] = subscriptionList[s]
  BY <1>1, <1>2
<1> HIDE DEF l
<1>4. /\ k \in [1..Slots -> SlotRec] /\ k[y] = [l[y] EXCEPT !.isFree = FALSE]
      /\ \A s \in 1..Slots : s # y => k[s] = l[s]
  BY <1>2, <1>3
<1> DEFINE n == [k EXCEPT ![x].topic = t]
<1>5. f = n
  BY DEF k, l, Taken
<1> HIDE DEF k
<1>6. /\ n \in [1..Slots -> SlotRec] /\ n[x] = [k[x] EXCEPT !.topic = t]
      /\ \A s \in 1..Slots : s # x => n[s] = k[s]
  BY <1>2, <1>4
<1> HIDE DEF n
<1>7. \A s \in 1..Slots : subscriptionList[s] \in SlotRec /\ l[s] \in SlotRec /\ k[s] \in SlotRec
  BY <1>1, <1>3, <1>4
<1>8. ASSUME NEW e \in SlotRec
      PROVE  /\ [e EXCEPT !.isFree = FALSE].isFree = FALSE /\ [e EXCEPT !.isFree = FALSE].topic = e.topic
             /\ [e EXCEPT !.topic = t].topic = t /\ [e EXCEPT !.topic = t].isFree = e.isFree
  <2>1. [e EXCEPT !.isFree = FALSE].isFree = FALSE
    BY DEF SlotRec
  <2>2. [e EXCEPT !.isFree = FALSE].topic = e.topic
    BY DEF SlotRec
  <2>3. [e EXCEPT !.topic = t].topic = t
    BY DEF SlotRec
  <2>4. [e EXCEPT !.topic = t].isFree = e.isFree
    BY DEF SlotRec
  <2> QED BY <2>1, <2>2, <2>3, <2>4, Zenon
<1>9. n[x].topic = t /\ n[x].isFree = FALSE /\ n[y].isFree = FALSE
  <2>1. k[x].isFree = FALSE
    <3>1. [subscriptionList[x] EXCEPT !.isFree = FALSE].isFree = FALSE
      BY <1>7, <1>8, Zenon
    <3>2. k[x] = [subscriptionList[x] EXCEPT !.isFree = FALSE]
      BY <1>3, <1>4, Zenon
    <3> QED BY <3>1, <3>2, Zenon
  <2>2. k[y].isFree = FALSE
    <3>1. [l[y] EXCEPT !.isFree = FALSE].isFree = FALSE
      BY <1>7, <1>8, Zenon
    <3>2. k[y] = [l[y] EXCEPT !.isFree = FALSE]
      BY <1>4, Zenon
    <3> QED BY <3>1, <3>2, Zenon
  <2>3. n[x].isFree = FALSE /\ n[x].topic = t
    BY <1>6, <1>7, <1>8, <2>1, Zenon
  <2> QED BY <1>6, <2>2, <2>3, Zenon
<1>10. \A s \in 1..Slots : s # x => n[s].topic = subscriptionList[s].topic
  <2> SUFFICES ASSUME NEW s \in 1..Slots, s # x PROVE n[s].topic = subscriptionList[s].topic
    OBVIOUS
  <2>1. n[s] = k[s] /\ l[s] = subscriptionList[s]
    BY <1>3, <1>6
  <2>2. CASE s = y
    <3>1. [l[y] EXCEPT !.isFree = FALSE].topic = l[y].topic
      BY <1>7, <1>8, Zenon
    <3> QED BY <1>4, <2>1, <2>2, <3>1, Zenon
  <2>3. CASE s # y
    BY <1>4, <2>1, <2>3, Zenon
  <2> QED BY <2>2, <2>3
<1>11. \A s \in 1..Slots : s # x /\ s # y => n[s].isFree = subscriptionList[s].isFree
  BY <1>3, <1>4, <1>6, Zenon
<1> QED BY <1>5, <1>6, <1>9, <1>10, <1>11, Zenon

LEMMA ServeKeeps ==
  ASSUME Records, Serve
  PROVE  Records'
<1> PICK c \in Command : c = Head(queue)
  BY ServeEffect
<1> DEFINE a == FirstOf(FreeAcks)
<1>1. /\ started /\ connected /\ op = Idle /\ c \in Command
      /\ queue' \in Seq(Command) /\ Len(queue') <= QueueLength /\ token' \in Nat
      /\ UNCHANGED <<ackWaitList, handlers, rxBuf, tare, started, network, up, down, cloud,
                     breaks, taken, called>>
      /\ FreeAcks # {} => a \in 1..Acks /\ ackWaitList[a] = Free
  BY ServeEffect
<1>2. missed \in BOOLEAN /\ ~Subscribing /\ Slots \in Nat
  BY <1>1, ShadowAssumption DEF Records, TypeOK, Subscribing
<1>3. Document(c) \in Doc
  BY <1>1, DocumentIs
<1>4. /\ missed' \in BOOLEAN
      /\ \/ op' = Idle /\ UNCHANGED subscriptionList
         \/ /\ FreeAcks # {} /\ Present(c) /\ subscriptionList' = CountUp(subscriptionList, c)
            /\ op' = [stage |-> "publish", cmd |-> c, doc |-> Document(c), slots |-> <<0, 0>>, ack |-> a]
         \/ /\ FreeAcks # {} /\ ~Present(c)
            /\ op' = [stage |-> "accepted", cmd |-> c, doc |-> Document(c),
                      slots |-> Take(FreeSlots), ack |-> a]
            /\ subscriptionList' =
                 [subscriptionList EXCEPT ![Take(FreeSlots)[1]].isFree = FALSE,
                                          ![Take(FreeSlots)[2]].isFree = FALSE,
                                          ![Take(FreeSlots)[1]].topic = Accepted(c)]
  <2>1. CASE Refuse(c) /\ op' = Idle /\ UNCHANGED subscriptionList
    <3>1. missed' \in BOOLEAN
      BY <1>2, <2>1, Zenon DEF Refuse
    <3> QED BY <2>1, <3>1
  <2>2. CASE ~(Refuse(c) /\ op' = Idle /\ UNCHANGED subscriptionList)
    BY <1>2, <2>2 DEF Serve
  <2> QED BY <2>1, <2>2
<1>5. subscriptionList \in [1..Slots -> SlotRec] /\ handlers \subseteq 1..Slots
  BY DEF SlotRec, Records, TypeOK
<1> HIDE DEF a
<1>6. \A s \in handlers : subscriptionList[s].topic \in Topic
  BY DEF Records, SettledInv
<1>7. ASSUME op' \in OpRec \cup {Idle}, subscriptionList' \in [1..Slots -> SlotRec], Settled' = Settled,
             \A s \in Settled : subscriptionList'[s].topic = subscriptionList[s].topic,
             \A s \in handlers : subscriptionList'[s].topic \in Topic
      PROVE  /\ TypeOK' /\ StartInv' /\ SettledInv' /\ WaitInv' /\ DeltaInv'
             /\ \A d \in Command : HasTopics(d)' <=> HasTopics(d)
  <2>1. TypeOK'
    BY <1>1, <1>4, <1>7 DEF SlotRec, Records, TypeOK, OpRec, network, cloud
  <2>2. SettledInv' /\ \A d \in Command : HasTopics(d)' <=> HasTopics(d)
    BY <1>1, <1>7, SettledStay DEF network
  <2>3. WaitInv'
    BY <1>1, <2>2, WaitStay
  <2>4. StartInv' /\ DeltaInv'
    BY <1>1 DEF Records, StartInv, DeltaInv
  <2> QED BY <2>1, <2>2, <2>3, <2>4
<1>8. CASE op' = Idle /\ UNCHANGED subscriptionList
  <2>1. ~Subscribing' /\ ~Preparing'
    BY <1>8 DEF Subscribing, Preparing
  <2>2. Settled' = Settled
    BY <1>2, <1>8, <2>1 DEF Settled, Busy
  <2>3. OpInv'
    BY <1>8, <2>1 DEF OpInv
  <2> QED BY <1>5, <1>6, <1>7, <1>8, <2>2, <2>3 DEF Records
<1>9. CASE /\ FreeAcks # {} /\ Present(c) /\ subscriptionList' = CountUp(subscriptionList, c)
           /\ op' = [stage |-> "publish", cmd |-> c, doc |-> Document(c), slots |-> <<0, 0>>, ack |-> a]
  <2>1. /\ subscriptionList' \in [1..Slots -> SlotRec]
        /\ \A s \in 1..Slots : /\ subscriptionList'[s].topic = subscriptionList[s].topic
                               /\ subscriptionList'[s].isFree = subscriptionList[s].isFree
    BY <1>1, <1>9, CountUpKeeps
  <2>2. op' \in OpRec /\ op'.stage = "publish" /\ op'.cmd = c /\ op'.ack = a /\ op' # Idle
    BY <1>1, <1>2, <1>3, <1>9 DEF OpRec, Stages, Idle
  <2>3. ~Subscribing'
    BY <2>2 DEF Subscribing
  <2>4. Settled' = Settled /\ \A s \in Settled : s \in 1..Slots
    BY <1>2, <2>1, <2>3 DEF Settled, Busy
  <2>5. \A s \in Settled : subscriptionList'[s].topic = subscriptionList[s].topic
    BY <2>1, <2>4
  <2>6. \A s \in handlers : subscriptionList'[s].topic \in Topic
    BY <1>5, <1>6, <2>1
  <2>7. HasTopics(c)
    BY <1>2, <1>9, SettledAtRest DEF HasTopics, Present
  <2>8. /\ TypeOK' /\ StartInv' /\ SettledInv' /\ WaitInv' /\ DeltaInv' /\ HasTopics(c)'
    BY <1>1, <1>7, <2>1, <2>2, <2>4, <2>5, <2>6, <2>7
  <2>9. ackWaitList'[op'.ack] = Free
    BY <1>1, <1>9, <2>2
  <2>10. \A d \in Command : op'.cmd = d => HasTopics(d)'
    BY <2>2, <2>8
  <2> QED BY <1>1, <2>2, <2>3, <2>8, <2>9, <2>10 DEF OpInv, Records
<1>10. CASE /\ FreeAcks # {} /\ ~Present(c)
            /\ op' = [stage |-> "accepted", cmd |-> c, doc |-> Document(c),
                      slots |-> Take(FreeSlots), ack |-> a]
            /\ subscriptionList' =
                 [subscriptionList EXCEPT ![Take(FreeSlots)[1]].isFree = FALSE,
                                          ![Take(FreeSlots)[2]].isFree = FALSE,
                                          ![Take(FreeSlots)[1]].topic = Accepted(c)]
  <2> DEFINE t == Take(FreeSlots)
  <2>1. /\ \A s \in Settled : subscriptionList[s].topic.cmd # c
        /\ t \in (0..Slots) \X (0..Slots)
        /\ t[1] \in 1..Slots /\ t[2] \in 1..Slots /\ t[1] # t[2]
        /\ subscriptionList[t[1]].isFree /\ subscriptionList[t[2]].isFree
    BY <1>1, <1>10, TwoFree DEF FreeSlots
  <2>2. op' \in OpRec /\ op'.stage = "accepted" /\ op'.cmd = c /\ op'.ack = a /\ op'.slots = t /\ op' # Idle
    BY <1>1, <1>3, <1>10, <2>1 DEF OpRec, Stages, Idle
  <2> HIDE DEF t
  <2>3. /\ Accepted(c) \in Topic
        /\ subscriptionList' = [subscriptionList EXCEPT ![t[1]].isFree = FALSE, ![t[2]].isFree = FALSE,
                                                        ![t[1]].topic = Accepted(c)]
    BY <1>1, <1>10, DeltaIsNoTopic DEF t
  <2>4. /\ subscriptionList' \in [1..Slots -> SlotRec]
        /\ subscriptionList'[t[1]].topic = Accepted(c)
        /\ ~subscriptionList'[t[1]].isFree /\ ~subscriptionList'[t[2]].isFree
        /\ \A s \in 1..Slots : s # t[1] => subscriptionList'[s].topic = subscriptionList[s].topic
        /\ \A s \in 1..Slots : s # t[1] /\ s # t[2] =>
             (subscriptionList'[s].isFree <=> subscriptionList[s].isFree)
    <3> PICK x \in 1..Slots, y \in 1..Slots : x = t[1] /\ y = t[2]
      BY <2>1
    <3>1. subscriptionList' = Taken(x, y, Accepted(c)) /\ x # y
      BY <2>1, <2>3 DEF Taken
    <3> DEFINE f == subscriptionList'
               a1 == Accepted(c)
    <3>2. f = Taken(x, y, a1) /\ a1 \in Topic
      BY <2>3, <3>1
    <3> HIDE DEF f, a1
    <3>3. f \in [1..Slots -> SlotRec] /\ f[x].topic = a1
      BY <3>1, <3>2, TakeSlots
    <3>4. ~f[x].isFree /\ ~f[y].isFree
      BY <3>1, <3>2, TakeSlots
    <3>5. \A s \in 1..Slots : s # x => f[s].topic = subscriptionList[s].topic
      BY <3>1, <3>2, TakeSlots
    <3>6. \A s \in 1..Slots : s # x /\ s # y => (f[s].isFree <=> subscriptionList[s].isFree)
      BY <3>1, <3>2, TakeSlots
    <3> QED BY <3>3, <3>4, <3>5, <3>6 DEF a1, f
  <2>5. Subscribing' /\ Busy' = {t[1], t[2]}
    BY <2>2 DEF Subscribing, Busy
  <2>6. Settled' = Settled /\ t[1] \notin Settled /\ t[2] \notin Settled /\ \A s \in Settled : s \in 1..Slots
    BY <1>2, <2>1, <2>4, <2>5 DEF Settled, Busy
  <2>7. \A s \in Settled : subscriptionList'[s].topic = subscriptionList[s].topic
    BY <2>4, <2>6
  <2>8. \A s \in handlers : subscriptionList'[s].topic \in Topic
    BY <1>5, <1>6, <2>3, <2>4
  <2>9. /\ TypeOK' /\ StartInv' /\ SettledInv' /\ WaitInv' /\ DeltaInv'
    BY <1>7, <2>2, <2>4, <2>6, <2>7, <2>8
  <2>10. ackWaitList'[op'.ack] = Free
    BY <1>1, <1>10, <2>2
  <2>11. \A s \in Settled' : subscriptionList'[s].topic.cmd # op'.cmd
    BY <2>1, <2>2, <2>6, <2>7
  <2>12. subscriptionList'[op'.slots[1]].topic = Accepted(c)
    BY <2>2, <2>4
  <2>13. OpInv'
    BY <2>1, <2>2, <2>4, <2>5, <2>10, <2>11, <2>12 DEF OpInv, Accepted
  <2> QED BY <2>9, <2>13 DEF Records
<1> QED BY <1>4, <1>8, <1>9, <1>10
\* Two slots are given back.
Returned(x, y) == [subscriptionList EXCEPT ![x].isFree = TRUE, ![y].isFree = TRUE]

LEMMA FreeTwo ==
  ASSUME Records, NEW x \in 1..Slots, NEW y \in 1..Slots,
         NEW f, f = Returned(x, y)
  PROVE  /\ f \in [1..Slots -> SlotRec] /\ f[x].isFree /\ f[y].isFree
         /\ \A s \in 1..Slots : f[s].topic = subscriptionList[s].topic
         /\ \A s \in 1..Slots : s # x /\ s # y => (f[s].isFree <=> subscriptionList[s].isFree)
<1> DEFINE l == [subscriptionList EXCEPT ![x].isFree = TRUE]
           n == [l EXCEPT ![y].isFree = TRUE]
<1>1. subscriptionList \in [1..Slots -> SlotRec]
  BY DEF Records, TypeOK, SlotRec
<1>2. \A e \in SlotRec : [e EXCEPT !.isFree = TRUE] \in SlotRec
  BY DEF SlotRec
<1>3. /\ l \in [1..Slots -> SlotRec] /\ l[x] = [subscriptionList[x] EXCEPT !.isFree = TRUE]
      /\ \A s \in 1..Slots : s # x => l[s] = subscriptionList[s]
  BY <1>1, <1>2
<1>4. f = n
  BY DEF l, Returned
<1> HIDE DEF l
<1>5. /\ n \in [1..Slots -> SlotRec] /\ n[y] = [l[y] EXCEPT !.isFree = TRUE]
      /\ \A s \in 1..Slots : s # y => n[s] = l[s]
  BY <1>2, <1>3
<1> HIDE DEF n
<1>6. \A s \in 1..Slots : subscriptionList[s] \in SlotRec /\ l[s] \in SlotRec
  BY <1>1, <1>3
<1>7. ASSUME NEW e \in SlotRec
      PROVE  [e EXCEPT !.isFree = TRUE].isFree /\ [e EXCEPT !.isFree = TRUE].topic = e.topic
  <2>1. [e EXCEPT !.isFree = TRUE].isFree
    BY DEF SlotRec
  <2>2. [e EXCEPT !.isFree = TRUE].topic = e.topic
    BY DEF SlotRec
  <2> QED BY <2>1, <2>2, Zenon
<1>8. [subscriptionList[x] EXCEPT !.isFree = TRUE].isFree /\ [l[y] EXCEPT !.isFree = TRUE].isFree
  BY <1>6, <1>7, Zenon
<1>9. n[y].isFree
  BY <1>5, <1>8, Zenon
<1>10. n[x].isFree
  <2>1. CASE x = y
    BY <1>9, <2>1
  <2>2. CASE x # y
    <3>1. n[x] = [subscriptionList[x] EXCEPT !.isFree = TRUE]
      BY <1>3, <1>5, <2>2, Zenon
    <3> QED BY <1>8, <3>1, Zenon
  <2> QED BY <2>1, <2>2
<1>11. ASSUME NEW s \in 1..Slots
       PROVE  n[s].topic = subscriptionList[s].topic
  <2>1. l[s].topic = subscriptionList[s].topic
    <3>1. [subscriptionList[x] EXCEPT !.isFree = TRUE].topic = subscriptionList[x].topic
      BY <1>6, <1>7, Zenon
    <3>2. CASE s = x
      BY <1>3, <3>1, <3>2, Zenon
    <3>3. CASE s # x
      BY <1>3, <3>3, Zenon
    <3> QED BY <3>2, <3>3
  <2>2. [l[y] EXCEPT !.isFree = TRUE].topic = l[y].topic
    BY <1>6, <1>7, Zenon
  <2>3. CASE s = y
    BY <1>5, <2>1, <2>2, <2>3, Zenon
  <2>4. CASE s # y
    BY <1>5, <2>1, <2>4, Zenon
  <2> QED BY <2>3, <2>4
<1>12. \A s \in 1..Slots : s # x /\ s # y => (n[s].isFree <=> subscriptionList[s].isFree)
  BY <1>3, <1>5, Zenon
<1> QED BY <1>4, <1>5, <1>9, <1>10, <1>11, <1>12, Zenon

\* A slot gets its count and another its topic.
Continued(x, y, t) == [subscriptionList EXCEPT ![x].count = 1, ![y].topic = t]

LEMMA NextTopic ==
  ASSUME Records, NEW x \in 1..Slots, NEW y \in 1..Slots, x # y, NEW t \in Topic,
         NEW f, f = Continued(x, y, t)
  PROVE  /\ f \in [1..Slots -> SlotRec] /\ f[y].topic = t
         /\ \A s \in 1..Slots : s # y => f[s].topic = subscriptionList[s].topic
         /\ \A s \in 1..Slots : f[s].isFree <=> subscriptionList[s].isFree
<1> DEFINE l == [subscriptionList EXCEPT ![x].count = 1]
           n == [l EXCEPT ![y].topic = t]
<1>1. subscriptionList \in [1..Slots -> SlotRec] /\ t \in Topic \cup {NoTopic} /\ 1 \in 0..255
  BY DEF Records, TypeOK, SlotRec
<1>2. \A e \in SlotRec : [e EXCEPT !.count = 1] \in SlotRec /\ [e EXCEPT !.topic = t] \in SlotRec
  BY <1>1 DEF SlotRec
<1>3. /\ l \in [1..Slots -> SlotRec] /\ l[x] = [subscriptionList[x] EXCEPT !.count = 1]
      /\ \A s \in 1..Slots : s # x => l[s] = subscriptionList[s]
  BY <1>1, <1>2
<1>4. f = n
  BY DEF l, Continued
<1> HIDE DEF l
<1>5. /\ n \in [1..Slots -> SlotRec] /\ n[y] = [l[y] EXCEPT !.topic = t]
      /\ \A s \in 1..Slots : s # y => n[s] = l[s]
  BY <1>2, <1>3
<1> HIDE DEF n
<1>6. \A s \in 1..Slots : subscriptionList[s] \in SlotRec /\ l[s] \in SlotRec
  BY <1>1, <1>3
<1>7. ASSUME NEW e \in SlotRec
      PROVE  /\ [e EXCEPT !.count = 1].topic = e.topic /\ ([e EXCEPT !.count = 1].isFree <=> e.isFree)
             /\ [e EXCEPT !.topic = t].topic = t /\ ([e EXCEPT !.topic = t].isFree <=> e.isFree)
  <2>1. [e EXCEPT !.count = 1].topic = e.topic
    BY DEF SlotRec
  <2>2. [e EXCEPT !.count = 1].isFree <=> e.isFree
    BY DEF SlotRec
  <2>3. [e EXCEPT !.topic = t].topic = t
    BY DEF SlotRec
  <2>4. [e EXCEPT !.topic = t].isFree <=> e.isFree
    BY DEF SlotRec
  <2> QED BY <2>1, <2>2, <2>3, <2>4, Zenon
<1>8. ASSUME NEW s \in 1..Slots
      PROVE  l[s].topic = subscriptionList[s].topic /\ (l[s].isFree <=> subscriptionList[s].isFree)
  <2>1. /\ [subscriptionList[x] EXCEPT !.count = 1].topic = subscriptionList[x].topic
        /\ [subscriptionList[x] EXCEPT !.count = 1].isFree <=> subscriptionList[x].isFree
    BY <1>6, <1>7, Zenon
  <2>2. CASE s = x
    BY <1>3, <2>1, <2>2, Zenon
  <2>3. CASE s # x
    BY <1>3, <2>3, Zenon
  <2> QED BY <2>2, <2>3
<1>9. n[y].topic = t /\ (n[y].isFree <=> l[y].isFree)
  <2>1. /\ [l[y] EXCEPT !.topic = t].topic = t
        /\ [l[y] EXCEPT !.topic = t].isFree <=> l[y].isFree
    BY <1>6, <1>7, Zenon
  <2> QED BY <1>5, <2>1, Zenon
<1>10. \A s \in 1..Slots : s # y => n[s].topic = subscriptionList[s].topic
  BY <1>5, <1>8, Zenon
<1>11. \A s \in 1..Slots : n[s].isFree <=> subscriptionList[s].isFree
  BY <1>5, <1>8, <1>9, Zenon
<1> QED BY <1>4, <1>5, <1>9, <1>10, <1>11, Zenon

\* The slot of the second topic gets its count.
Completed(x) == [subscriptionList EXCEPT ![x].count = 1]

LEMMA LastCount ==
  ASSUME Records, NEW x \in 1..Slots,
         NEW f, f = Completed(x)
  PROVE  /\ f \in [1..Slots -> SlotRec]
         /\ \A s \in 1..Slots : /\ f[s].topic = subscriptionList[s].topic
                                /\ f[s].isFree <=> subscriptionList[s].isFree
<1>1. subscriptionList \in [1..Slots -> SlotRec] /\ 1 \in 0..255
  BY DEF Records, TypeOK, SlotRec
<1>2. \A e \in SlotRec : [e EXCEPT !.count = 1] \in SlotRec
  BY <1>1 DEF SlotRec
<1>3. /\ f \in [1..Slots -> SlotRec] /\ f[x] = [subscriptionList[x] EXCEPT !.count = 1]
      /\ \A s \in 1..Slots : s # x => f[s] = subscriptionList[s]
  BY <1>1, <1>2 DEF Completed
<1>4. subscriptionList[x] \in SlotRec
  BY <1>1
<1>5. ASSUME NEW e \in SlotRec
      PROVE  [e EXCEPT !.count = 1].topic = e.topic /\ ([e EXCEPT !.count = 1].isFree <=> e.isFree)
  <2>1. [e EXCEPT !.count = 1].topic = e.topic
    BY DEF SlotRec
  <2>2. [e EXCEPT !.count = 1].isFree <=> e.isFree
    BY DEF SlotRec
  <2> QED BY <2>1, <2>2, Zenon
<1>6. f[x].topic = subscriptionList[x].topic /\ (f[x].isFree <=> subscriptionList[x].isFree)
  <2>1. /\ [subscriptionList[x] EXCEPT !.count = 1].topic = subscriptionList[x].topic
        /\ [subscriptionList[x] EXCEPT !.count = 1].isFree <=> subscriptionList[x].isFree
    BY <1>4, <1>5, Zenon
  <2> QED BY <1>3, <2>1, Zenon
<1> QED BY <1>3, <1>6, Zenon

\* What is known while a request subscribes to its topics
LEMMA WhileSubscribing ==
  ASSUME Records, op.stage \in {"accepted", "rejected"}
  PROVE  /\ op # Idle /\ op \in OpRec /\ op.cmd \in Command /\ started /\ Subscribing
         /\ ackWaitList[op.ack] = Free
         /\ \A s \in Settled : s \in 1..Slots /\ subscriptionList[s].topic.cmd # op.cmd
         /\ \E a \in 1..Slots, r \in 1..Slots :
              /\ a = op.slots[1] /\ r = op.slots[2] /\ a # r /\ Busy = {a, r}
              /\ ~subscriptionList[a].isFree /\ ~subscriptionList[r].isFree
              /\ subscriptionList[a].topic = Accepted(op.cmd)
              /\ a \notin Settled /\ r \notin Settled
<1>1. op # Idle /\ Subscribing /\ Preparing
  BY DEF Idle, Subscribing, Preparing
<1>2. op \in OpRec /\ ackWaitList[op.ack] = Free /\ op.cmd \in Command
  BY <1>1 DEF Records, OpInv, OpRec
<1>3. started
  BY <1>1 DEF Records, StartInv
<1>4. \A s \in Settled : s \in 1..Slots /\ subscriptionList[s].topic.cmd # op.cmd
  BY <1>1 DEF Records, OpInv, Settled
<1>5. /\ op.slots[1] \in 1..Slots /\ op.slots[2] \in 1..Slots /\ op.slots[1] # op.slots[2]
      /\ ~subscriptionList[op.slots[1]].isFree /\ ~subscriptionList[op.slots[2]].isFree
      /\ subscriptionList[op.slots[1]].topic = Accepted(op.cmd)
  BY <1>1 DEF Records, OpInv
<1>6. Busy = {op.slots[1], op.slots[2]}
  BY <1>1 DEF Busy
<1>7. op.slots[1] \notin Settled /\ op.slots[2] \notin Settled
  BY <1>6 DEF Settled
<1> QED BY <1>1, <1>2, <1>3, <1>4, <1>5, <1>6, <1>7

\* A request that fails gives its slots back; nobody else loses a topic.
LEMMA GiveBack ==
  ASSUME Records, op.stage \in {"accepted", "rejected"}, op' = Idle, missed' \in BOOLEAN,
         subscriptionList' =
           [subscriptionList EXCEPT ![op.slots[1]].isFree = TRUE, ![op.slots[2]].isFree = TRUE],
         handlers' \in {handlers, {s \in handlers : subscriptionList[s].topic # Accepted(op.cmd)}},
         heard' \subseteq Topic \cup {Delta}, heard \ {Accepted(op.cmd)} \subseteq heard',
         UNCHANGED <<ackWaitList, rxBuf, token, device, started, connected, up, down, cloud,
                     breaks, taken, called>>
  PROVE  Records'
<1>1. PICK a \in 1..Slots, r \in 1..Slots :
        /\ a = op.slots[1] /\ r = op.slots[2] /\ a # r /\ Busy = {a, r}
        /\ a \notin Settled /\ r \notin Settled
  BY WhileSubscribing
<1>2. /\ op # Idle /\ op.cmd \in Command /\ started
      /\ \A s \in Settled : s \in 1..Slots /\ subscriptionList[s].topic.cmd # op.cmd
  BY WhileSubscribing
<1>3. /\ subscriptionList' \in [1..Slots -> SlotRec]
      /\ subscriptionList'[a].isFree /\ subscriptionList'[r].isFree
      /\ \A s \in 1..Slots : subscriptionList'[s].topic = subscriptionList[s].topic
      /\ \A s \in 1..Slots : s # a /\ s # r =>
           (subscriptionList'[s].isFree <=> subscriptionList[s].isFree)
  <2> DEFINE f == subscriptionList'
  <2>1. f = Returned(a, r)
    BY <1>1 DEF Returned
  <2> HIDE DEF f
  <2>2. f \in [1..Slots -> SlotRec] /\ f[a].isFree /\ f[r].isFree
    BY <2>1, FreeTwo
  <2>3. \A s \in 1..Slots : f[s].topic = subscriptionList[s].topic
    BY <2>1, FreeTwo
  <2>4. \A s \in 1..Slots : s # a /\ s # r => (f[s].isFree <=> subscriptionList[s].isFree)
    BY <2>1, FreeTwo
  <2> QED BY <2>2, <2>3, <2>4 DEF f
<1>4. ~Subscribing' /\ ~Preparing'
  BY DEF Subscribing, Preparing
<1>5. Settled' = Settled
  BY <1>1, <1>3, <1>4 DEF Settled, Busy
<1>6. handlers' \subseteq handlers /\ handlers' \subseteq 1..Slots
  BY DEF Records, TypeOK
<1>7. TypeOK'
  BY <1>3, <1>6 DEF Records, TypeOK, SlotRec, device, cloud
<1>8. StartInv' /\ DeltaInv' /\ OpInv'
  BY <1>2, <1>4 DEF Records, StartInv, DeltaInv, OpInv
<1>9. ASSUME NEW s \in Settled
      PROVE  /\ subscriptionList'[s].topic = subscriptionList[s].topic
             /\ s \in handlers => s \in handlers'
             /\ subscriptionList[s].topic \in heard => subscriptionList[s].topic \in heard'
  BY <1>2, <1>3 DEF Accepted
<1>10. \A s \in handlers' : subscriptionList'[s].topic \in Topic
  BY <1>3, <1>6 DEF Records, SettledInv
<1>11. SettledInv' /\ \A c \in Command : HasTopics(c)' <=> HasTopics(c)
  BY <1>5, <1>9, <1>10, SettledStay
<1>12. WaitInv'
  BY <1>11, WaitStay
<1> QED BY <1>7, <1>8, <1>11, <1>12 DEF Records
LEMMA SubscribeAcceptedKeeps ==
  ASSUME Records, SubscribeAccepted
  PROVE  Records'
<1>1. PICK a \in 1..Slots, r \in 1..Slots :
        /\ a = op.slots[1] /\ r = op.slots[2] /\ a # r /\ Busy = {a, r}
        /\ ~subscriptionList[a].isFree /\ ~subscriptionList[r].isFree
        /\ subscriptionList[a].topic = Accepted(op.cmd)
        /\ a \notin Settled /\ r \notin Settled
  BY WhileSubscribing DEF SubscribeAccepted
<1>2. PICK c \in Command : c = op.cmd
  BY WhileSubscribing DEF SubscribeAccepted
<1>3. /\ op # Idle /\ op \in OpRec /\ started /\ op.stage = "accepted" /\ ackWaitList[op.ack] = Free
      /\ \A s \in Settled : s \in 1..Slots /\ subscriptionList[s].topic.cmd # c
  BY <1>2, WhileSubscribing DEF SubscribeAccepted
<1>4. /\ UNCHANGED <<ackWaitList, rxBuf, token, device, started, connected, up, down, cloud,
                     breaks, taken, called>>
      /\ missed \in BOOLEAN /\ handlers \subseteq 1..Slots /\ heard \subseteq Topic \cup {Delta}
      /\ Accepted(c) \in Topic /\ Rejected(c) \in Topic
  BY DeltaIsNoTopic DEF SubscribeAccepted, Records, TypeOK
<1>5. CASE /\ Subscribed(a, Accepted(c))
           /\ subscriptionList' = Continued(a, r, Rejected(c))
           /\ op' = [op EXCEPT !.stage = "rejected"]
           /\ UNCHANGED missed
  <2>1. /\ subscriptionList' \in [1..Slots -> SlotRec] /\ subscriptionList'[r].topic = Rejected(c)
        /\ \A s \in 1..Slots : s # r => subscriptionList'[s].topic = subscriptionList[s].topic
        /\ \A s \in 1..Slots : subscriptionList'[s].isFree <=> subscriptionList[s].isFree
    <3> DEFINE f == subscriptionList'
               t == Rejected(c)
    <3>1. f = Continued(a, r, t) /\ t \in Topic /\ a # r
      BY <1>1, <1>4, <1>5
    <3> HIDE DEF f, t
    <3>2. f \in [1..Slots -> SlotRec] /\ f[r].topic = t
      BY <3>1, NextTopic
    <3>3. \A s \in 1..Slots : s # r => f[s].topic = subscriptionList[s].topic
      BY <3>1, NextTopic
    <3>4. \A s \in 1..Slots : f[s].isFree <=> subscriptionList[s].isFree
      BY <3>1, NextTopic
    <3> QED BY <3>2, <3>3, <3>4 DEF f, t
  <2>2. /\ op' \in OpRec /\ op'.stage = "rejected" /\ op'.cmd = op.cmd /\ op'.doc = op.doc
        /\ op'.slots = op.slots /\ op'.ack = op.ack /\ op' # Idle
    BY <1>3, <1>5 DEF OpRec, Stages, Idle
  <2>3. Subscribing' /\ Busy' = {a, r}
    BY <1>1, <2>2 DEF Subscribing, Busy
  <2>4. Settled' = Settled
    BY <1>1, <2>1, <2>3 DEF Settled
  <2>5. connected /\ handlers' = handlers \cup {a} /\ heard' = heard \cup {Accepted(c)}
    BY <1>5 DEF Subscribed
  <2>6. TypeOK'
    BY <1>4, <1>5, <2>1, <2>2, <2>5 DEF Records, TypeOK, SlotRec, OpRec, device, cloud
  <2>7. StartInv' /\ DeltaInv'
    BY <1>3, <1>4 DEF Records, StartInv, DeltaInv
  <2>8. \A s \in Settled : subscriptionList'[s].topic = subscriptionList[s].topic
    BY <1>1, <1>3, <2>1
  <2>9. \A s \in handlers' : subscriptionList'[s].topic \in Topic
    BY <1>1, <1>2, <1>4, <2>1, <2>5 DEF Records, SettledInv
  <2>10. SettledInv' /\ \A d \in Command : HasTopics(d)' <=> HasTopics(d)
    BY <1>4, <2>4, <2>5, <2>8, <2>9, SettledStay
  <2>11. WaitInv'
    BY <1>4, <2>10, WaitStay
  <2>12. \A s \in Settled' : subscriptionList'[s].topic.cmd # op'.cmd
    BY <1>2, <1>3, <2>2, <2>4, <2>8
  <2>13. /\ subscriptionList'[op'.slots[1]].topic = Accepted(c)
         /\ subscriptionList'[op'.slots[2]].topic = Rejected(c)
         /\ ~subscriptionList'[op'.slots[1]].isFree /\ ~subscriptionList'[op'.slots[2]].isFree
         /\ op'.slots[1] \in handlers' /\ Accepted(c) \in heard'
         /\ op'.slots[1] \in 1..Slots /\ op'.slots[2] \in 1..Slots /\ op'.slots[1] # op'.slots[2]
    BY <1>1, <1>2, <2>1, <2>2, <2>5
  <2>14. ackWaitList'[op'.ack] = Free
    BY <1>3, <1>4, <2>2
  <2>15. OpInv'
    BY <1>2, <2>2, <2>12, <2>13, <2>14 DEF OpInv, Accepted, Rejected
  <2> QED BY <2>6, <2>7, <2>10, <2>11, <2>15 DEF Records
<1>6. CASE /\ \/ NotSubscribed(Accepted(c))
              \/ Unsubscribed(Accepted(c), Accepted(c))
           /\ subscriptionList' =
                [subscriptionList EXCEPT ![op.slots[1]].isFree = TRUE, ![op.slots[2]].isFree = TRUE]
           /\ op' = Idle /\ Refuse(c)
  <2>1. missed' \in BOOLEAN
    BY <1>4, <1>6, Zenon DEF Refuse
  <2>2. /\ handlers' \in {handlers, {s \in handlers : subscriptionList[s].topic # Accepted(op.cmd)}}
        /\ heard' \subseteq Topic \cup {Delta} /\ heard \ {Accepted(op.cmd)} \subseteq heard'
    BY <1>2, <1>4, <1>6 DEF NotSubscribed, Unsubscribed
  <2> QED BY <1>3, <1>4, <1>6, <2>1, <2>2, GiveBack
<1> QED BY <1>1, <1>2, <1>5, <1>6 DEF SubscribeAccepted, Continued

LEMMA SubscribeRejectedKeeps ==
  ASSUME Records, SubscribeRejected
  PROVE  Records'
<1>1. PICK a \in 1..Slots, r \in 1..Slots :
        /\ a = op.slots[1] /\ r = op.slots[2] /\ a # r /\ Busy = {a, r}
        /\ ~subscriptionList[a].isFree /\ ~subscriptionList[r].isFree
        /\ subscriptionList[a].topic = Accepted(op.cmd)
        /\ a \notin Settled /\ r \notin Settled
  BY WhileSubscribing DEF SubscribeRejected
<1>2. PICK c \in Command : c = op.cmd
  BY WhileSubscribing DEF SubscribeRejected
<1>3. /\ op # Idle /\ op \in OpRec /\ started /\ op.stage = "rejected" /\ ackWaitList[op.ack] = Free
      /\ \A s \in Settled : s \in 1..Slots /\ subscriptionList[s].topic.cmd # c
  BY <1>2, WhileSubscribing DEF SubscribeRejected
<1>4. /\ UNCHANGED <<ackWaitList, rxBuf, token, device, started, connected, up, down, cloud,
                     breaks, taken, called>>
      /\ missed \in BOOLEAN /\ handlers \subseteq 1..Slots /\ heard \subseteq Topic \cup {Delta}
      /\ Accepted(c) \in Topic /\ Rejected(c) \in Topic
  BY DeltaIsNoTopic DEF SubscribeRejected, Records, TypeOK
<1>5. CASE /\ Subscribed(r, Rejected(c))
           /\ subscriptionList' = Completed(r)
           /\ op' = [op EXCEPT !.stage = "publish"]
           /\ UNCHANGED missed
  <2>1. /\ subscriptionList' \in [1..Slots -> SlotRec]
        /\ \A s \in 1..Slots : /\ subscriptionList'[s].topic = subscriptionList[s].topic
                               /\ subscriptionList'[s].isFree <=> subscriptionList[s].isFree
    <3> DEFINE f == subscriptionList'
    <3>1. f = Completed(r)
      BY <1>5
    <3> HIDE DEF f
    <3>2. f \in [1..Slots -> SlotRec]
      BY <3>1, LastCount
    <3>3. \A s \in 1..Slots : f[s].topic = subscriptionList[s].topic
      BY <3>1, LastCount
    <3>4. \A s \in 1..Slots : f[s].isFree <=> subscriptionList[s].isFree
      BY <3>1, LastCount
    <3> QED BY <3>2, <3>3, <3>4 DEF f
  <2>2. /\ op' \in OpRec /\ op'.stage = "publish" /\ op'.cmd = op.cmd /\ op'.doc = op.doc
        /\ op'.ack = op.ack /\ op' # Idle
    BY <1>3, <1>5 DEF OpRec, Stages, Idle
  <2>3. ~Subscribing' /\ Busy' = {}
    BY <2>2 DEF Subscribing, Busy
  <2>4. Settled' = Settled \cup {a, r}
    BY <1>1, <2>1, <2>3 DEF Settled
  <2>5. connected /\ handlers' = handlers \cup {r} /\ heard' = heard \cup {Rejected(c)}
    BY <1>5 DEF Subscribed
  <2>6. /\ a \in handlers /\ subscriptionList[r].topic = Rejected(c) /\ Accepted(c) \in heard
        /\ subscriptionList[a].topic = Accepted(c)
    BY <1>1, <1>2, <1>3, <2>5 DEF Records, OpInv
  <2>7. TypeOK'
    BY <1>4, <1>5, <2>1, <2>2, <2>5 DEF Records, TypeOK, SlotRec, OpRec, device, cloud
  <2>8. StartInv' /\ DeltaInv'
    BY <1>3, <1>4 DEF Records, StartInv, DeltaInv
  <2>9. /\ subscriptionList'[a].topic = Accepted(c) /\ subscriptionList'[r].topic = Rejected(c)
        /\ a \in Settled' /\ r \in Settled'
    BY <2>1, <2>4, <2>6
  <2>10. HasTopics(c)'
    BY <2>9 DEF HasTopics, Accepted, Rejected
  <2>11. ASSUME NEW d \in Command, HasTopics(d)
         PROVE  HasTopics(d)'
    <3>1. \A s \in Settled : s \in Settled' /\ subscriptionList'[s].topic = subscriptionList[s].topic
      BY <1>3, <2>1, <2>4
    <3> QED BY <2>11, <3>1 DEF HasTopics, Accepted, Rejected
  <2>12. ASSUME NEW s \in Settled
         PROVE  /\ subscriptionList'[s].topic \in Topic /\ s \in handlers'
                /\ subscriptionList'[s].topic \in heard' /\ subscriptionList'[s].topic.cmd # c
                /\ \A d \in Command : subscriptionList'[s].topic.cmd = d => HasTopics(d)'
                /\ \A q \in Settled : subscriptionList'[q].topic = subscriptionList'[s].topic => q = s
    <3>1. \A q \in Settled : subscriptionList'[q].topic = subscriptionList[q].topic
      BY <1>3, <2>1
    <3>2. /\ subscriptionList[s].topic \in Topic /\ s \in handlers
          /\ subscriptionList[s].topic \in heard
          /\ \A d \in Command : subscriptionList[s].topic.cmd = d => HasTopics(d)
          /\ \A q \in Settled : subscriptionList[q].topic = subscriptionList[s].topic => q = s
      BY <2>5 DEF Records, SettledInv
    <3> QED BY <1>3, <2>5, <2>11, <3>1, <3>2
  <2>13. Accepted(c).cmd = c /\ Rejected(c).cmd = c /\ Accepted(c) # Rejected(c)
    BY DEF Accepted, Rejected
  <2>14. SettledInv'
    <3>1. ASSUME NEW s \in Settled'
          PROVE  /\ subscriptionList'[s].topic \in Topic /\ s \in handlers'
                 /\ subscriptionList'[s].topic \in heard'
                 /\ \A d \in Command : subscriptionList'[s].topic.cmd = d => HasTopics(d)'
      <4>1. CASE s \in Settled
        BY <2>12, <4>1
      <4>2. CASE s = a
        BY <1>4, <2>5, <2>6, <2>9, <2>10, <2>13, <4>2
      <4>3. CASE s = r
        BY <1>4, <2>5, <2>6, <2>9, <2>10, <2>13, <4>3
      <4> QED BY <2>4, <4>1, <4>2, <4>3
    <3>2. ASSUME NEW s \in Settled', NEW q \in Settled',
                 subscriptionList'[q].topic = subscriptionList'[s].topic
          PROVE  q = s
      BY <2>4, <2>9, <2>12, <2>13, <3>2
    <3>3. \A s \in handlers' : subscriptionList'[s].topic \in Topic
      BY <1>1, <1>4, <2>1, <2>5, <2>6 DEF Records, SettledInv
    <3>4. \A s \in Settled' : subscriptionList'[s].topic.cmd \in Command
      BY <3>1 DEF Topic
    <3> QED BY <3>1, <3>2, <3>3, <3>4 DEF SettledInv
  <2>15. WaitInv'
    BY <1>4, <2>11, WaitStay
  <2>16. ackWaitList'[op'.ack] = Free
    BY <1>3, <1>4, <2>2
  <2>17. \A d \in Command : op'.cmd = d => HasTopics(d)'
    BY <1>2, <2>2, <2>10
  <2>18. OpInv'
    BY <1>2, <2>2, <2>3, <2>16, <2>17 DEF OpInv
  <2> QED BY <2>7, <2>8, <2>14, <2>15, <2>18 DEF Records
<1>6. CASE /\ \/ NotSubscribed(Rejected(c))
              \/ Unsubscribed(Accepted(c), Rejected(c))
           /\ subscriptionList' =
                [subscriptionList EXCEPT ![op.slots[1]].isFree = TRUE, ![op.slots[2]].isFree = TRUE]
           /\ op' = Idle /\ Refuse(c)
  <2>1. missed' \in BOOLEAN
    BY <1>4, <1>6, Zenon DEF Refuse
  <2>2. /\ handlers' \in {handlers, {s \in handlers : subscriptionList[s].topic # Accepted(op.cmd)}}
        /\ heard' \subseteq Topic \cup {Delta} /\ heard \ {Accepted(op.cmd)} \subseteq heard'
    BY <1>2, <1>4, <1>6 DEF NotSubscribed, Unsubscribed
  <2> QED BY <1>3, <1>4, <1>6, <2>1, <2>2, GiveBack
<1> QED BY <1>1, <1>2, <1>5, <1>6 DEF SubscribeRejected, Completed

\* A request is published and waits: it has its topics.
LEMMA PublishRequestKeeps ==
  ASSUME Records, PublishRequest
  PROVE  Records'
<1>1. /\ op.stage = "publish"
      /\ UNCHANGED <<subscriptionList, handlers, rxBuf, token, device, started, network, down, cloud,
                     breaks, called>>
  BY DEF PublishRequest
<1>2. op # Idle /\ op \in OpRec /\ op.cmd \in Command /\ op.doc \in Doc /\ op.ack \in 1..Acks
  BY <1>1 DEF Records, OpInv, Idle, OpRec
<1>3. started /\ HasTopics(op.cmd) /\ ~Subscribing
  BY <1>1, <1>2 DEF Records, StartInv, OpInv, Subscribing
<1>4. PICK c \in Command : c = op.cmd
  BY <1>2
<1>5. op.doc.token \in Nat /\ missed \in BOOLEAN
  BY <1>2 DEF Doc, Records, TypeOK
<1>6. /\ op' \in OpRec \cup {Idle}
      /\ op' # Idle => op'.stage = "expire"
      /\ up' \in Seq([cmd : Command, doc : Doc]) /\ missed' \in BOOLEAN
      /\ ackWaitList' \in [1..Acks -> Request \cup {Free}]
      /\ \A i \in 1..Acks : ackWaitList'[i] = ackWaitList[i] \/ ackWaitList'[i].cmd = c
  <2>1. CASE /\ up' = Append(up, [cmd |-> op.cmd, doc |-> op.doc])
             /\ ackWaitList' = AddToAckWaitList
             /\ op' = IF op.cmd = "get_tare" THEN Idle ELSE [op EXCEPT !.stage = "expire"]
             /\ UNCHANGED missed
    <3>1. [op EXCEPT !.stage = "expire"] \in OpRec
      BY <1>2 DEF OpRec, Stages
    <3>2. [op EXCEPT !.stage = "expire"].stage = "expire"
      BY <1>2 DEF OpRec
    <3>3. up' \in Seq([cmd : Command, doc : Doc])
      <4>1. [cmd |-> op.cmd, doc |-> op.doc] \in [cmd : Command, doc : Doc]
        BY <1>2
      <4>2. up \in Seq([cmd : Command, doc : Doc])
        BY DEF Records, TypeOK
      <4> QED BY <2>1, <4>1, <4>2, AppendToQueue
    <3>4. [token |-> op.doc.token, cmd |-> op.cmd] \in Request
      BY <1>2, <1>5 DEF Request
    <3>5. ackWaitList \in [1..Acks -> Request \cup {Free}]
      BY DEF Records, TypeOK
    <3>6. /\ ackWaitList' \in [1..Acks -> Request \cup {Free}]
          /\ \A i \in 1..Acks : ackWaitList'[i] = ackWaitList[i] \/ ackWaitList'[i].cmd = c
      BY <1>2, <1>4, <2>1, <3>4, <3>5 DEF AddToAckWaitList
    <3> QED BY <1>5, <2>1, <3>1, <3>2, <3>3, <3>6
  <2>2. CASE op' = Idle /\ Refuse(op.cmd) /\ UNCHANGED <<up, ackWaitList, taken>>
    <3>1. missed' \in BOOLEAN
      BY <1>5, <2>2, Zenon DEF Refuse
    <3> QED BY <2>2, <3>1 DEF Records, TypeOK
  <2> QED BY <2>1, <2>2 DEF PublishRequest
<1>7. ~Subscribing' /\ ~Preparing'
  BY <1>6 DEF Subscribing, Preparing
<1>8. Settled' = Settled
  BY <1>1, <1>3, <1>7 DEF Settled, Busy
<1>9. SettledInv' /\ \A d \in Command : HasTopics(d)' <=> HasTopics(d)
  <2>1. \A s \in handlers' : subscriptionList'[s].topic \in Topic
    BY <1>1 DEF Records, SettledInv
  <2> QED BY <1>1, <1>8, <2>1, SettledStay DEF network
<1>10. TypeOK'
  BY <1>1, <1>6 DEF Records, TypeOK, OpRec, device, network, cloud
<1>11. StartInv' /\ DeltaInv' /\ OpInv'
  BY <1>1, <1>3, <1>6, <1>7 DEF Records, StartInv, DeltaInv, OpInv
<1>12. WaitInv'
  <2> SUFFICES ASSUME NEW i \in 1..Acks, NEW d \in Command, ackWaitList'[i] # Free,
                      ackWaitList'[i].cmd = d
               PROVE  HasTopics(d)'
    <3>1. \A i \in 1..Acks : ackWaitList'[i] # Free => ackWaitList'[i].cmd \in Command
      BY <1>6 DEF Request
    <3> QED BY <3>1 DEF WaitInv, Waiting
  <2>1. CASE ackWaitList'[i] = ackWaitList[i]
    BY <1>9, <2>1 DEF Records, WaitInv, Waiting
  <2>2. CASE ackWaitList'[i].cmd = c
    BY <1>3, <1>4, <1>9, <2>2
  <2> QED BY <1>6, <2>1, <2>2
<1> QED BY <1>9, <1>10, <1>11, <1>12 DEF Records

LEMMA ExpireDoneKeeps ==
  ASSUME Records, ExpireDone
  PROVE  Records'
<1>1. /\ op.stage = "expire" /\ op' = Idle
      /\ UNCHANGED <<library, device, started, network, up, down, cloud, breaks, taken, called, missed>>
  BY DEF ExpireDone
<1>2. ~Subscribing /\ ~Subscribing' /\ ~Preparing'
  BY <1>1 DEF Subscribing, Preparing
<1>3. Settled' = Settled
  BY <1>1, <1>2 DEF Settled, Busy, library
<1>4. SettledInv' /\ \A d \in Command : HasTopics(d)' <=> HasTopics(d)
  <2>1. \A s \in handlers' : subscriptionList'[s].topic \in Topic
    BY <1>1 DEF Records, SettledInv, library
  <2> QED BY <1>1, <1>3, <2>1, SettledStay DEF network, library
<1>5. WaitInv'
  BY <1>1, <1>4, WaitStay DEF library
<1>6. TypeOK'
  BY <1>1 DEF Records, TypeOK, library, device, network, cloud
<1>7. StartInv' /\ DeltaInv' /\ OpInv'
  BY <1>1, <1>2 DEF Records, StartInv, DeltaInv, OpInv, Idle, library, network
<1> QED BY <1>4, <1>5, <1>6, <1>7 DEF Records

LEMMA NothingHappens ==
  ASSUME Records, UNCHANGED vars
  PROVE  Records'
<1>1. UNCHANGED <<library, op, device, started, network, up, down, cloud, breaks, taken, called, missed>>
  BY DEF vars
<1>2. TypeOK' /\ DeltaInv'
  BY <1>1 DEF Records, TypeOK, DeltaInv, library, device, network, cloud
<1>3. SameTopics
  BY <1>1 DEF SameTopics, library
<1>4. StartInv' /\ SettledInv' /\ OpInv' /\ WaitInv'
  BY <1>1, <1>3, SameTopicsKeep DEF network, library, Records, StartInv
<1> QED BY <1>2, <1>4 DEF Records

\* Every step keeps the records.
LEMMA NextRecords ==
  ASSUME Records, [Next]_vars
  PROVE  Records'
<1>1. CASE Start
  BY <1>1, StartKeeps
<1>2. CASE Read
  BY <1>2, ReadKeeps
<1>3. CASE Make
  BY <1>3, ServeKeeps, SubscribeAcceptedKeeps, SubscribeRejectedKeeps, PublishRequestKeeps,
     ExpireKeeps, ExpireDoneKeeps DEF Make
<1>4. CASE World
  BY <1>4, AppWritesKeeps, AwsAnswersKeeps, SessionBreaksKeeps, ReconnectsKeeps, RestartsKeeps
     DEF World
<1>5. CASE UNCHANGED vars
  BY <1>5, NothingHappens
<1> QED BY <1>1, <1>2, <1>3, <1>4, <1>5 DEF Next

\* A request that waits has settled slots for its topics, which are handled and
\* heard.
LEMMA RecordsListen ==
  ASSUME Records
  PROVE  RecordsHold
<1> SUFFICES ASSUME NEW i \in 1..Acks, Waiting(i),
                    NEW t \in {Accepted(ackWaitList[i].cmd), Rejected(ackWaitList[i].cmd)}
             PROVE  Handled(t) /\ (connected => t \in heard)
  BY DEF RecordsHold, Listening, Records
<1>1. HasTopics(ackWaitList[i].cmd)
  <2>1. ackWaitList[i].cmd \in Command
    BY DEF Records, TypeOK, Waiting, Request
  <2> QED BY <2>1 DEF Records, WaitInv
<1>2. PICK s \in Settled : subscriptionList[s].topic = t
  BY <1>1 DEF HasTopics
<1> QED BY <1>2 DEF Records, SettledInv, Handled

\* The records of requests and topics are sound: whatever a request that waits
\* is to be answered on is handled by the client and, in a session, sent by the
\* broker, though other requests failed half way and their slots were used again.
THEOREM RecordsKept == Spec => []RecordsHold
<1>1. Init => Records
  BY InitRecords
<1>2. Records /\ [Next]_vars => Records'
  BY NextRecords
<1>3. Records => RecordsHold
  BY RecordsListen
<1> QED BY <1>1, <1>2, <1>3, PTL DEF Spec
-----------------------------------------------------------------------------
(* Requests: each that is taken is ended once.                             *)

TokenTypes ==
  /\ token \in Nat
  /\ \A i \in 1..Acks : ackWaitList[i].token \in Nat
  /\ \A i \in 1..Len(up) : up[i].doc.token \in Nat
  /\ \A i \in 1..Len(down) : down[i].token \in Nat
  /\ Preparing => op.doc.token \in Nat

LEMMA TokensAreNumbers == Records => TokenTypes
<1> SUFFICES ASSUME Records PROVE TokenTypes
  OBVIOUS
<1>1. \A i \in 1..Acks : ackWaitList[i].token \in Nat
  <2>1. \A i \in 1..Acks : ackWaitList[i] \in Request \cup {Free}
    BY DEF Records, TypeOK
  <2>2. \A e \in Request \cup {Free} : e.token \in Nat
    BY DEF Request, Free
  <2> QED BY <2>1, <2>2
<1>2. \A i \in 1..Len(up) : up[i] \in [cmd : Command, doc : Doc]
  <2> DEFINE S == [cmd : Command, doc : Doc]
  <2>1. up \in Seq(S)
    BY DEF Records, TypeOK
  <2> HIDE DEF S
  <2>2. \A i \in 1..Len(up) : up[i] \in S
    BY <2>1
  <2> QED BY <2>2 DEF S
<1>3. \A i \in 1..Len(up) : up[i].doc.token \in Nat
  BY <1>2 DEF Doc
<1>4. \A i \in 1..Len(down) : down[i] \in Message
  BY DEF Records, TypeOK
<1>5. \A i \in 1..Len(down) : down[i].token \in Nat
  BY <1>4 DEF Message
<1>6. Preparing => op.doc.token \in Nat
  BY DEF Records, OpInv, Preparing, OpRec, Doc
<1> QED BY <1>1, <1>3, <1>5, <1>6 DEF TokenTypes, Records, TypeOK

\* SameCommand, after a step, of a token and a command of before it
SameCommandThen(t, c) ==
  t < taken' /\ \A i \in 1..Acks : ackWaitList'[i] # Free /\ ackWaitList'[i].token = t => ackWaitList'[i].cmd = c

\* No request is taken: what waits and what is on its way has been there before,
\* or answers what was on its way.
LEMMA TokensStay ==
  ASSUME TokenTypes, TokenInv, taken' = taken, calls' \in Nat, token' \in Nat, token' >= token,
         Preparing' => taken <= op'.doc.token /\ op'.doc.token < token',
         \A i \in 1..Acks : ackWaitList'[i] = ackWaitList[i] \/ ackWaitList'[i] = Free,
         \A i \in 1..Len(up') : \E j \in 1..Len(up) : up'[i] = up[j],
         \A i \in 1..Len(down') : down'[i].topic # Delta =>
           \/ \E j \in 1..Len(down) : down'[i] = down[j]
           \/ \E j \in 1..Len(up) : /\ down'[i].token = up[j].doc.token
                                    /\ down'[i].topic.cmd = up[j].cmd
  PROVE  TokenInv'
<1>1. taken' \in Nat /\ taken' <= token'
  BY DEF TokenInv, TokenTypes
<1>2. \A i \in 1..Acks : ackWaitList'[i] # Free => ackWaitList'[i] = ackWaitList[i] /\ ackWaitList[i] # Free
  OBVIOUS
<1>3. \A i \in 1..Acks : Waiting(i)' => ackWaitList'[i].token < taken'
  BY <1>2 DEF TokenInv, Waiting
<1>4. \A i, j \in 1..Acks : Waiting(i)' /\ Waiting(j)' /\ ackWaitList'[i].token = ackWaitList'[j].token
        => i = j
  BY <1>2 DEF TokenInv, Waiting
<1>5. ASSUME NEW t, NEW c, SameCommand(t, c)
      PROVE  SameCommandThen(t, c)
  BY <1>2, <1>5 DEF SameCommand, Waiting, SameCommandThen
<1>6. \A i \in 1..Len(up') : SameCommand(up[i].doc.token, up[i].cmd)'
  <2> SUFFICES ASSUME NEW i \in 1..Len(up')
               PROVE  SameCommand(up[i].doc.token, up[i].cmd)'
    OBVIOUS
  <2>1. PICK j \in 1..Len(up) : up'[i] = up[j]
    OBVIOUS
  <2>2. SameCommand(up[j].doc.token, up[j].cmd)
    BY DEF TokenInv
  <2>3. SameCommandThen(up[j].doc.token, up[j].cmd)
    BY <1>5, <2>2
  <2>4. SameCommandThen(up'[i].doc.token, up'[i].cmd)
    BY <2>1, <2>3
  <2> QED BY <2>4 DEF SameCommand, SameCommandThen, Waiting
<1>7. \A i \in 1..Len(down') : down'[i].topic # Delta => SameCommand(down[i].token, down[i].topic.cmd)'
  <2> SUFFICES ASSUME NEW i \in 1..Len(down'), down'[i].topic # Delta
               PROVE  SameCommand(down[i].token, down[i].topic.cmd)'
    OBVIOUS
  <2>1. CASE \E j \in 1..Len(down) : down'[i] = down[j]
    <3>1. PICK j \in 1..Len(down) : down'[i] = down[j]
      BY <2>1
    <3>2. SameCommand(down[j].token, down[j].topic.cmd)
      BY <3>1 DEF TokenInv
    <3>3. SameCommandThen(down[j].token, down[j].topic.cmd)
      BY <1>5, <3>2
    <3>4. SameCommandThen(down'[i].token, down'[i].topic.cmd)
      BY <3>1, <3>3
    <3> QED BY <3>4 DEF SameCommand, SameCommandThen, Waiting
  <2>2. CASE \E j \in 1..Len(up) : down'[i].token = up[j].doc.token /\ down'[i].topic.cmd = up[j].cmd
    <3>1. PICK j \in 1..Len(up) : down'[i].token = up[j].doc.token /\ down'[i].topic.cmd = up[j].cmd
      BY <2>2
    <3>2. SameCommand(up[j].doc.token, up[j].cmd)
      BY DEF TokenInv
    <3>3. SameCommandThen(up[j].doc.token, up[j].cmd)
      BY <1>5, <3>2
    <3>4. SameCommandThen(down'[i].token, down'[i].topic.cmd)
      BY <3>1, <3>3
    <3> QED BY <3>4 DEF SameCommand, SameCommandThen, Waiting
  <2> QED BY <2>1, <2>2
<1> QED BY <1>1, <1>3, <1>4, <1>6, <1>7 DEF TokenInv

\* A step that takes nothing on: records are given back, messages taken.
LEMMA TokensRest ==
  ASSUME TokenTypes, TokenInv, UNCHANGED <<token, up, taken>>, calls' \in Nat,
         Preparing' => Preparing /\ op' = op,
         \A i \in 1..Acks : ackWaitList'[i] = ackWaitList[i] \/ ackWaitList'[i] = Free,
         \A i \in 1..Len(down') : \E j \in 1..Len(down) : down'[i] = down[j]
  PROVE  TokenInv'
<1>1. token' \in Nat /\ token' >= token
  BY DEF TokenTypes
<1>2. Preparing' => taken <= op'.doc.token /\ op'.doc.token < token'
  BY DEF TokenInv
<1>3. \A i \in 1..Len(up') : \E j \in 1..Len(up) : up'[i] = up[j]
  OBVIOUS
<1>4. taken' = taken
  OBVIOUS
<1> QED BY <1>1, <1>2, <1>3, <1>4, TokensStay

\* A request is taken: with a token that no record and no message has.
LEMMA TokensTaken ==
  ASSUME Records, TokenInv, PublishRequest, up' # up
  PROVE  /\ TokenInv'
         /\ ackWaitList[op.ack] = Free /\ op.ack \in 1..Acks /\ op.cmd \in Command
         /\ op.doc.token \in Nat /\ op.doc.token >= taken /\ taken' = op.doc.token + 1
         /\ ackWaitList' = [ackWaitList EXCEPT ![op.ack] = [token |-> op.doc.token, cmd |-> op.cmd]]
         /\ UNCHANGED <<calls, last>>
<1>1. /\ op.stage = "publish" /\ up' = Append(up, [cmd |-> op.cmd, doc |-> op.doc])
      /\ ackWaitList' = AddToAckWaitList /\ taken' = op.doc.token + 1
      /\ op' = IF op.cmd = "get_tare" THEN Idle ELSE [op EXCEPT !.stage = "expire"]
      /\ UNCHANGED <<token, down, calls, last>>
  BY DEF PublishRequest, called
<1>2. op # Idle /\ Preparing /\ op \in OpRec /\ op.cmd \in Command /\ op.doc \in Doc /\ op.ack \in 1..Acks
  BY <1>1 DEF Records, OpInv, Idle, OpRec, Preparing
<1>3. ackWaitList[op.ack] = Free /\ op.doc.token \in Nat /\ taken <= op.doc.token /\ op.doc.token < token
  BY <1>2, TokensAreNumbers DEF Records, OpInv, TokenInv, TokenTypes
<1> DEFINE t == op.doc.token
           k == op.ack
           c == op.cmd
           r == [token |-> t, cmd |-> c]
           e == [cmd |-> c, doc |-> op.doc]
<1>4. ackWaitList' = [ackWaitList EXCEPT ![k] = r] /\ ackWaitList \in [1..Acks -> Request \cup {Free}]
  BY <1>1 DEF AddToAckWaitList, Records, TypeOK
<1>5. r.token = t /\ r.cmd = c /\ t \in Nat /\ taken \in Nat /\ taken <= t /\ t < token /\ token \in Nat
      /\ k \in 1..Acks
  BY <1>2, <1>3 DEF TokenInv, Records, TypeOK
<1>6. ~Preparing'
  <2>1. [op EXCEPT !.stage = "expire"].stage = "expire"
    BY <1>2 DEF OpRec
  <2> QED BY <1>1, <2>1 DEF Preparing
<1>7. /\ up \in Seq([cmd : Command, doc : Doc]) /\ Len(up) \in Nat /\ Len(up') = Len(up) + 1
      /\ \A i \in 1..Len(up) : up'[i] = up[i]
      /\ up'[Len(up) + 1] = e
  <2>1. e \in [cmd : Command, doc : Doc] /\ up \in Seq([cmd : Command, doc : Doc])
    BY <1>2 DEF Records, TypeOK
  <2> HIDE DEF e
  <2>2. up' = Append(up, e)
    BY <1>1 DEF e
  <2> QED BY <2>1, <2>2, AppendToQueue
<1>8. e.doc.token = t /\ e.cmd = c
  OBVIOUS
<1> HIDE DEF r, e, k, c, t
<1>9. ackWaitList'[k] = r /\ \A i \in 1..Acks : i # k => ackWaitList'[i] = ackWaitList[i]
  BY <1>4, <1>5
<1>10. \A i \in 1..Acks : i # k /\ Waiting(i)' =>
         ackWaitList'[i] = ackWaitList[i] /\ Waiting(i) /\ ackWaitList[i].token < t
               /\ ackWaitList[i].token \in Nat
  <2>1. \A i \in 1..Acks : i # k /\ Waiting(i)' => ackWaitList'[i] = ackWaitList[i] /\ Waiting(i)
    BY <1>9 DEF Waiting
  <2> QED BY <1>5, <2>1, TokensAreNumbers DEF TokenInv, TokenTypes
<1>11. taken' = t + 1 /\ token' = token
  BY <1>1 DEF t
<1>12. ASSUME NEW x \in Nat, NEW d, SameCommand(x, d)
       PROVE  /\ x < taken'
              /\ \A i \in 1..Acks : Waiting(i)' /\ ackWaitList'[i].token = x => ackWaitList'[i].cmd = d
  <2>1. x < t /\ x < taken'
    BY <1>5, <1>11, <1>12 DEF SameCommand
  <2> QED BY <1>5, <1>9, <1>10, <1>12, <2>1 DEF SameCommand
<1>13. /\ taken' \in Nat /\ calls' \in Nat /\ taken' <= token'
  BY <1>1, <1>5, <1>11 DEF TokenInv
<1>14. /\ \A i \in 1..Acks : Waiting(i)' => ackWaitList'[i].token < taken'
       /\ \A i, j \in 1..Acks : Waiting(i)' /\ Waiting(j)' /\ ackWaitList'[i].token = ackWaitList'[j].token
            => i = j
  <2>1. \A i \in 1..Acks : Waiting(i)' => ackWaitList'[i].token < taken'
    BY <1>5, <1>9, <1>10, <1>11
  <2>2. \A i, j \in 1..Acks : Waiting(i)' /\ Waiting(j)' /\ ackWaitList'[i].token = ackWaitList'[j].token
            => i = j
    <3> SUFFICES ASSUME NEW i \in 1..Acks, NEW j \in 1..Acks, Waiting(i)', Waiting(j)',
                        ackWaitList'[i].token = ackWaitList'[j].token
                 PROVE  i = j
      OBVIOUS
    <3>1. CASE i # k /\ j # k
      BY <1>10, <3>1 DEF TokenInv
    <3>2. CASE i = k /\ j # k
      BY <1>5, <1>9, <1>10, <3>2
    <3>3. CASE i # k /\ j = k
      BY <1>5, <1>9, <1>10, <3>3
    <3> QED BY <3>1, <3>2, <3>3
  <2> QED BY <2>1, <2>2
<1>15. \A i \in 1..Len(up') : SameCommand(up[i].doc.token, up[i].cmd)'
  <2> SUFFICES ASSUME NEW i \in 1..Len(up')
               PROVE  SameCommand(up[i].doc.token, up[i].cmd)'
    OBVIOUS
  <2>1. CASE i \in 1..Len(up)
    <3>1. up'[i] = up[i] /\ SameCommand(up[i].doc.token, up[i].cmd) /\ up[i].doc.token \in Nat
      BY <1>7, <2>1, TokensAreNumbers DEF TokenInv, TokenTypes
    <3> QED BY <1>12, <3>1 DEF SameCommand
  <2>2. CASE i = Len(up) + 1
    <3>1. up'[i].doc.token = t /\ up'[i].cmd = c
      BY <1>7, <1>8, <2>2
    <3>2. \A j \in 1..Acks : Waiting(j)' /\ ackWaitList'[j].token = t => ackWaitList'[j].cmd = c
      BY <1>5, <1>9, <1>10
    <3>3. t < taken'
      BY <1>5, <1>11
    <3> QED BY <3>1, <3>2, <3>3 DEF SameCommand
  <2> QED BY <1>7, <2>1, <2>2
<1>16. \A i \in 1..Len(down') : down'[i].topic # Delta => SameCommand(down[i].token, down[i].topic.cmd)'
  <2> SUFFICES ASSUME NEW i \in 1..Len(down), down[i].topic # Delta
               PROVE  SameCommand(down[i].token, down[i].topic.cmd)'
    BY <1>1
  <2>1. down' = down /\ SameCommand(down[i].token, down[i].topic.cmd) /\ down[i].token \in Nat
    BY <1>1, TokensAreNumbers DEF TokenInv, TokenTypes
  <2> QED BY <1>12, <2>1 DEF SameCommand
<1>17. TokenInv'
  BY <1>6, <1>13, <1>14, <1>15, <1>16 DEF TokenInv
<1> QED BY <1>1, <1>2, <1>3, <1>4, <1>17 DEF k, r, t, c
Pending == {ackWaitList[i] : i \in {i \in 1..Acks : Waiting(i)}}

\* A request that ends leaves the others as they are.
LEMMA EndsRequest ==
  ASSUME Records, TokenInv, NEW i \in 1..Acks, Waiting(i), NEW cause,
         cause \in {ackWaitList[i].cmd, "timeout"},
         ackWaitList' = [ackWaitList EXCEPT ![i] = Free], calls' = calls + 1,
         last' = [cmd |-> ackWaitList[i].cmd, cause |-> cause], taken' = taken
  PROVE  Requests!Next
<1>1. PICK r \in Pending : r = ackWaitList[i]
  BY DEF Pending
<1>2. ackWaitList \in [1..Acks -> Request \cup {Free}]
  BY DEF Records, TypeOK
<1>3. ackWaitList'[i] = Free /\ \A j \in 1..Acks : j # i => ackWaitList'[j] = ackWaitList[j]
  BY <1>2
<1>4. \A j \in 1..Acks : Waiting(j) /\ j # i => ackWaitList[j] # r
  BY <1>1 DEF TokenInv
<1>5. Pending' = Pending \ {r}
  <2>1. \A e \in Pending' : e \in Pending /\ e # r
    BY <1>3, <1>4 DEF Pending, Waiting
  <2>2. \A e \in Pending : e # r => e \in Pending'
    BY <1>1, <1>3 DEF Pending, Waiting
  <2> QED BY <2>1, <2>2, Zenon
<1>6. last' \in [cmd : {r.cmd}, cause : {r.cmd, "timeout"}]
  BY <1>1
<1>7. Requests!End(r)
  BY <1>5, <1>6 DEF Requests!End, Pending
<1>8. \E e \in Pending : Requests!End(e)
  BY <1>7
<1> QED BY <1>8, Zenon DEF Requests!Next, Pending

LEMMA NothingEnds ==
  ASSUME UNCHANGED <<ackWaitList, taken, calls, last>>
  PROVE  UNCHANGED Requests!vars
BY DEF Requests!vars, Waiting

\* What a step does to the requests, and that the tokens stay apart
TokensStep == TokenInv' /\ (Requests!Next \/ UNCHANGED Requests!vars)

LEMMA PublishRequestTokens ==
  ASSUME Records, TokenInv, PublishRequest
  PROVE  TokensStep
<1>1. CASE up' # up
  <2> DEFINE t == op.doc.token
             k == op.ack
             c == op.cmd
             r == [token |-> t, cmd |-> c]
  <2>1. /\ TokenInv' /\ ackWaitList[k] = Free /\ k \in 1..Acks /\ c \in Command
        /\ t \in Nat /\ t >= taken /\ taken' = t + 1
        /\ ackWaitList' = [ackWaitList EXCEPT ![k] = r] /\ UNCHANGED <<calls, last>>
    BY <1>1, TokensTaken
  <2>2. r # Free /\ r.token = t /\ r.cmd = c
    BY <2>1 DEF Free, Command
  <2>3. ackWaitList \in [1..Acks -> Request \cup {Free}]
    BY DEF Records, TypeOK
  <2> HIDE DEF r, t, k, c
  <2>4. ackWaitList'[k] = r /\ \A j \in 1..Acks : j # k => ackWaitList'[j] = ackWaitList[j]
    BY <2>1, <2>3
  <2>5. Pending' = Pending \cup {r}
    <3>1. \A e \in Pending' : e \in Pending \/ e = r
      BY <2>4 DEF Pending, Waiting
    <3>2. \A e \in Pending : e \in Pending'
      BY <2>1, <2>4 DEF Pending, Waiting
    <3>3. r \in Pending'
      BY <2>1, <2>2, <2>4 DEF Pending, Waiting
    <3> QED BY <3>1, <3>2, <3>3, Zenon
  <2>6. r \notin Pending
    <3> SUFFICES ASSUME NEW i \in 1..Acks, Waiting(i), ackWaitList[i] = r PROVE FALSE
      BY DEF Pending
    <3>1. ackWaitList[i].token < taken /\ taken \in Nat
      BY DEF TokenInv
    <3> QED BY <2>1, <2>2, <3>1
  <2> PICK q : q = r
    OBVIOUS
  <2>7. Requests!Take(q)
    BY <2>1, <2>2, <2>5 DEF Requests!Take, Pending
  <2>8. \E e \in Pending' \ Pending : Requests!Take(e)
    BY <2>5, <2>6, <2>7
  <2>9. Requests!Next
    BY <2>8, Zenon DEF Requests!Next, Pending
  <2> QED BY <2>1, <2>9 DEF TokensStep
<1>2. CASE up' = up
  <2>1. up # Append(up, [cmd |-> op.cmd, doc |-> op.doc])
    <3>1. /\ op # Idle /\ op.cmd \in Command /\ op.doc \in Doc
      BY DEF PublishRequest, Records, OpInv, OpRec, Idle
    <3>2. /\ up \in Seq([cmd : Command, doc : Doc])
          /\ [cmd |-> op.cmd, doc |-> op.doc] \in [cmd : Command, doc : Doc]
      BY <3>1 DEF Records, TypeOK
    <3>3. Len(Append(up, [cmd |-> op.cmd, doc |-> op.doc])) = Len(up) + 1 /\ Len(up) \in Nat
      BY <3>2, AppendToQueue
    <3> QED BY <3>3
  <2>2. op' = Idle /\ UNCHANGED <<ackWaitList, taken, token, down, calls, last>>
    BY <1>2, <2>1 DEF PublishRequest, called
  <2>3. TokenTypes /\ ~Preparing'
    BY <2>2, TokensAreNumbers DEF Preparing
  <2>4. TokenInv'
    <3>1. calls' \in Nat
      BY <2>2 DEF TokenInv
    <3> QED BY <1>2, <2>2, <2>3, <3>1, TokensRest
  <2> QED BY <2>2, <2>4, NothingEnds DEF TokensStep
<1> QED BY <1>1, <1>2

LEMMA ExpireTokens ==
  ASSUME Records, TokenInv, Expire
  PROVE  TokensStep
<1>1. PICK i \in 1..Acks : /\ Waiting(i) /\ Ended(i, ackWaitList[i].cmd, "timeout", rxBuf)
  BY DEF Expire
<1>2. UNCHANGED <<token, op, up, down, taken>>
  BY DEF Expire
<1>3. rxBuf \in Tare /\ ackWaitList \in [1..Acks -> Request \cup {Free}] /\ calls \in Nat
  BY DEF Records, TypeOK, TokenInv
<1>4. /\ ackWaitList' = [ackWaitList EXCEPT ![i] = Free] /\ calls' = calls + 1
      /\ last' = [cmd |-> ackWaitList[i].cmd, cause |-> "timeout"]
  BY <1>1, <1>3, EndedEffect
<1>5. \A j \in 1..Acks : ackWaitList'[j] = ackWaitList[j] \/ ackWaitList'[j] = Free
  BY <1>3, <1>4
<1>6. TokenTypes /\ (Preparing' => Preparing /\ op' = op)
  BY <1>2, TokensAreNumbers DEF Preparing
<1>7. TokenInv'
  <2>1. calls' \in Nat
    BY <1>3, <1>4
  <2>2. \A j \in 1..Len(down') : \E k \in 1..Len(down) : down'[j] = down[k]
    BY <1>2
  <2> QED BY <1>2, <1>5, <1>6, <2>1, <2>2, TokensRest
<1>8. Requests!Next
  BY <1>1, <1>2, <1>4, EndsRequest
<1> QED BY <1>7, <1>8 DEF TokensStep

LEMMA ReadTokens ==
  ASSUME Records, TokenInv, Read
  PROVE  TokensStep
<1>1. /\ down # <<>> /\ down' = Tail(down) /\ down[1] \in Message
      /\ UNCHANGED <<token, op, up, taken>>
  BY ReadEffect
<1>2. \A i \in 1..Len(down') : \E j \in 1..Len(down) : down'[i] = down[j]
  <2>1. down \in Seq(Message)
    BY DEF Records, TypeOK
  <2>2. /\ Len(down) \in Nat /\ Len(down) >= 1 /\ Len(down') = Len(down) - 1
        /\ \A i \in 1..Len(down) - 1 : down'[i] = down[i + 1]
    BY <1>1, <2>1, TakeFromQueue
  <2> QED BY <2>2
<1>3. /\ TokenTypes /\ calls \in Nat
      /\ Preparing' => Preparing /\ op' = op
      /\ ackWaitList \in [1..Acks -> Request \cup {Free}]
  BY <1>1, TokensAreNumbers DEF Preparing, TokenInv, Records, TypeOK
<1>4. ASSUME calls' \in Nat, \A i \in 1..Acks : ackWaitList'[i] = ackWaitList[i] \/ ackWaitList'[i] = Free
      PROVE  TokenInv'
  BY <1>1, <1>2, <1>3, <1>4, TokensRest
<1>5. CASE UNCHANGED <<ackWaitList, calls, last>>
  BY <1>1, <1>3, <1>4, <1>5, NothingEnds DEF TokensStep
<1>6. ASSUME down[1].topic # Delta, NEW i \in 1..Acks, Waiting(i), ackWaitList[i].token = down[1].token,
             Ended(i, ackWaitList[i].cmd, down[1].topic.cmd, down[1].value)
      PROVE  TokensStep
  <2>1. down[1].value \in Tare
    BY <1>1 DEF Message
  <2>2. /\ ackWaitList' = [ackWaitList EXCEPT ![i] = Free] /\ calls' = calls + 1
        /\ last' = [cmd |-> ackWaitList[i].cmd, cause |-> down[1].topic.cmd]
    BY <1>6, <2>1, EndedEffect
  <2>3. ackWaitList[i].cmd = down[1].topic.cmd
    <3>1. 1 \in 1..Len(down)
      <4>1. down \in Seq(Message)
        BY DEF Records, TypeOK
      <4> QED BY <1>1, <4>1, TakeFromQueue
    <3>2. SameCommand(down[1].token, down[1].topic.cmd)
      BY <1>6, <3>1 DEF TokenInv
    <3> QED BY <1>6, <3>2 DEF SameCommand
  <2>4. \A j \in 1..Acks : ackWaitList'[j] = ackWaitList[j] \/ ackWaitList'[j] = Free
    BY <1>3, <2>2
  <2>5. TokenInv'
    BY <1>3, <1>4, <2>2, <2>4
  <2>6. Requests!Next
    BY <1>1, <1>6, <2>2, <2>3, EndsRequest
  <2> QED BY <2>5, <2>6 DEF TokensStep
<1> QED BY <1>5, <1>6, ReadEffect

LEMMA ServeTokens ==
  ASSUME Records, TokenInv, Serve
  PROVE  TokensStep
<1>1. /\ token' = token + 1 /\ op = Idle /\ Head(queue) \in Command
      /\ UNCHANGED <<ackWaitList, up, down, taken, calls, last>>
  BY ServeEffect DEF called
<1>2. op' = Idle \/ op'.doc = Document(Head(queue))
  <2> DEFINE o == [stage |-> "publish", cmd |-> Head(queue), doc |-> Document(Head(queue)),
                   slots |-> <<0, 0>>, ack |-> FirstOf(FreeAcks)]
  <2>1. op' = Idle \/ op' = o \/ op' = [o EXCEPT !.stage = "accepted", !.slots = Take(FreeSlots)]
    BY Zenon DEF Serve
  <2>2. o.doc = Document(Head(queue))
    OBVIOUS
  <2>3. [o EXCEPT !.stage = "accepted", !.slots = Take(FreeSlots)].doc = Document(Head(queue))
    OBVIOUS
  <2> QED BY <2>1, <2>2, <2>3, Zenon
<1>3. Document(Head(queue)).token = token
  BY <1>1, DocumentIs
<1>4. TokenTypes /\ token \in Nat /\ taken \in Nat /\ taken <= token
  BY TokensAreNumbers DEF TokenInv, Records, TypeOK
<1>5. Preparing' => taken <= op'.doc.token /\ op'.doc.token < token'
  BY <1>1, <1>2, <1>3, <1>4 DEF Preparing
<1>6. TokenInv'
  BY <1>1, <1>4, <1>5, TokensStay DEF TokenInv
<1> QED BY <1>1, <1>6, NothingEnds DEF TokensStep

LEMMA SubscribeTokens ==
  ASSUME Records, TokenInv, SubscribeAccepted \/ SubscribeRejected
  PROVE  TokensStep
<1>1. /\ op.stage \in {"accepted", "rejected"}
      /\ op' = Idle \/ op' = [op EXCEPT !.stage = "rejected"] \/ op' = [op EXCEPT !.stage = "publish"]
      /\ UNCHANGED <<ackWaitList, token, up, down, taken, calls, last>>
  BY DEF SubscribeAccepted, SubscribeRejected, called
<1>2. op \in OpRec /\ Preparing
  BY <1>1, WhileSubscribing DEF Preparing
<1>3. op' = Idle \/ op'.doc = op.doc
  BY <1>1, <1>2 DEF OpRec
<1>4. Preparing' => taken <= op'.doc.token /\ op'.doc.token < token'
  BY <1>1, <1>2, <1>3 DEF TokenInv, Preparing
<1>5. TokenTypes
  BY TokensAreNumbers
<1>6. TokenInv'
  BY <1>1, <1>4, <1>5, TokensStay DEF TokenInv, TokenTypes
<1> QED BY <1>1, <1>6, NothingEnds DEF TokensStep

LEMMA RestartsTokens ==
  ASSUME Restarts
  PROVE  TokensStep
<1>1. /\ ackWaitList' = [i \in 1..Acks |-> Free] /\ token' = 0 /\ op' = Idle /\ up' = <<>> /\ down' = <<>>
      /\ taken' = 0 /\ calls' = 0 /\ last' = [cmd |-> "none", cause |-> "none"]
  BY DEF Restarts, NoAcks
<1>2. ~Preparing' /\ \A i \in 1..Acks : ~Waiting(i)'
  BY <1>1 DEF Preparing, Waiting
<1>3. TokenInv'
  BY <1>1, <1>2 DEF TokenInv
<1>4. Pending' = {}
  BY <1>2 DEF Pending
<1>5. Requests!Restart
  BY <1>1, <1>4 DEF Requests!Restart, Requests!NoCall, Pending
<1> QED BY <1>3, <1>5 DEF TokensStep, Requests!Next

\* The steps of the application, the cloud and the network
LEMMA OtherTokens ==
  ASSUME Records, TokenInv,
         Start \/ AppWrites \/ AwsAnswers \/ SessionBreaks \/ Reconnects \/ ExpireDone \/ UNCHANGED vars
  PROVE  TokensStep
<1>1. TokenTypes /\ taken \in Nat /\ calls \in Nat /\ taken <= token /\ token \in Nat
  BY TokensAreNumbers DEF TokenInv, Records, TypeOK
<1>2. /\ UNCHANGED <<ackWaitList, token, taken, calls, last>>
      /\ op' = op \/ op' = Idle
  BY DEF Start, AppWrites, AwsAnswers, SessionBreaks, Reconnects, ExpireDone, vars, library, called
<1>3. Preparing' => taken <= op'.doc.token /\ op'.doc.token < token'
  BY <1>2 DEF Preparing, TokenInv
<1>4. ASSUME \A i \in 1..Len(up') : \E j \in 1..Len(up) : up'[i] = up[j],
             \A i \in 1..Len(down') : down'[i].topic # Delta =>
               \/ \E j \in 1..Len(down) : down'[i] = down[j]
               \/ \E j \in 1..Len(up) : /\ down'[i].token = up[j].doc.token
                                        /\ down'[i].topic.cmd = up[j].cmd
      PROVE  TokensStep
  <2>1. TokenInv'
    BY <1>1, <1>2, <1>3, <1>4, TokensStay
  <2> QED BY <1>2, <2>1, NothingEnds DEF TokensStep
<1>5. CASE UNCHANGED <<up, down>>
  BY <1>4, <1>5
<1>6. CASE AppWrites
  <2>1. PICK v \in Value : \/ down' = down
                           \/ down' = Publish([topic |-> Delta, token |-> 0, value |-> v])
    BY <1>6 DEF AppWrites
  <2> DEFINE m == [topic |-> Delta, token |-> 0, value |-> v]
  <2>2. m \in Message /\ m.topic = Delta
    BY DEF Message, Tare
  <2> HIDE DEF m
  <2>3. \A i \in 1..Len(down') : down'[i].topic # Delta => \E j \in 1..Len(down) : down'[i] = down[j]
    <3>1. CASE down' = down
      BY <3>1
    <3>2. CASE down' = Publish(m)
      BY <2>2, <3>2, Published
    <3> QED BY <2>1, <3>1, <3>2 DEF m
  <2>4. up' = up
    BY <1>6 DEF AppWrites
  <2> QED BY <1>4, <2>3, <2>4
<1>7. CASE AwsAnswers
  <2>1. /\ Len(up) \in Nat /\ Len(up) >= 1 /\ Len(up') = Len(up) - 1
        /\ \A i \in 1..Len(up) - 1 : up'[i] = up[i + 1]
    BY <1>7, NextRequest
  <2>2. PICK m \in Message : down' = Publish(m) /\ m.token = up[1].doc.token /\ m.topic.cmd = up[1].cmd
    BY <1>7, AwsMessage
  <2>3. \A i \in 1..Len(down') : down'[i] = m \/ \E j \in 1..Len(down) : down'[i] = down[j]
    BY <2>2, Published
  <2>4. \A i \in 1..Len(up') : \E j \in 1..Len(up) : up'[i] = up[j]
    BY <2>1
  <2>5. 1 \in 1..Len(up)
    BY <2>1
  <2>6. \A i \in 1..Len(down') :
          \/ \E j \in 1..Len(down) : down'[i] = down[j]
          \/ \E j \in 1..Len(up) : /\ down'[i].token = up[j].doc.token
                                   /\ down'[i].topic.cmd = up[j].cmd
    BY <2>2, <2>3, <2>5
  <2> QED BY <1>4, <2>4, <2>6
<1>8. CASE SessionBreaks
  <2>1. up' = <<>> /\ down' = <<>>
    BY <1>8 DEF SessionBreaks
  <2> QED BY <1>4, <2>1
<1>9. UNCHANGED <<up, down>> \/ AppWrites \/ AwsAnswers \/ SessionBreaks
  BY DEF Start, Reconnects, ExpireDone, vars
<1> QED BY <1>5, <1>6, <1>7, <1>8, <1>9

LEMMA NextTokens ==
  ASSUME Records, TokenInv, [Next]_vars
  PROVE  TokenInv' /\ [Requests!Next]_(Requests!vars)
<1>1. TokensStep
  BY PublishRequestTokens, ExpireTokens, ReadTokens, ServeTokens, SubscribeTokens, RestartsTokens,
     OtherTokens DEF Next, Make, World
<1> QED BY <1>1 DEF TokensStep

LEMMA InitTokens == Init => TokenInv /\ Requests!Init
<1> SUFFICES ASSUME Init PROVE TokenInv /\ Requests!Init
  OBVIOUS
<1>1. /\ ackWaitList = [i \in 1..Acks |-> Free] /\ token = 0 /\ op = Idle /\ up = <<>> /\ down = <<>>
      /\ taken = 0 /\ calls = 0 /\ last = [cmd |-> "none", cause |-> "none"]
  BY DEF Init, NoAcks
<1>2. ~Preparing /\ \A i \in 1..Acks : ~Waiting(i)
  BY <1>1 DEF Preparing, Waiting
<1>3. TokenInv
  BY <1>1, <1>2 DEF TokenInv
<1>4. Pending = {}
  BY <1>2 DEF Pending
<1> QED BY <1>1, <1>3, <1>4 DEF Requests!Init, Requests!NoCall, Pending

\* The library keeps the promise of ShadowRequests: no token is used twice, every
\* request taken is ended at most once, and by an answer to a command of its own
\* kind or by running out of time, however many wait at once and whatever is lost.
THEOREM EachEndedOnce == Spec => EndedOnce
<1>1. Init => Records /\ TokenInv /\ Requests!Init
  BY InitRecords, InitTokens
<1>2. Records /\ TokenInv /\ [Next]_vars
        => Records' /\ TokenInv' /\ [Requests!Next]_(Requests!vars)
  BY NextRecords, NextTokens
<1> QED BY <1>1, <1>2, PTL DEF Spec, EndedOnce, Requests!Spec
-----------------------------------------------------------------------------
(* Values: the device and the shadow come to agree.                        *)

\* Nothing that is coming is lost.
LEMMA ComingStays ==
  ASSUME Coming, UNCHANGED <<tare, up, desired, reported>>,
         (\E i \in 1..Len(queue) : queue[i] = "set_tare")
           => \E i \in 1..Len(queue') : queue'[i] = "set_tare",
         (\E i \in 1..Len(down) : down[i].topic = Delta)
           => \E i \in 1..Len(down') : down'[i].topic = Delta,
         Reporting' <=> Reporting, Reporting => op'.doc = op.doc
  PROVE  Coming'
<1>1. CASE \E i \in 1..Len(queue) : queue[i] = "set_tare"
  <2>1. \E i \in 1..Len(queue') : queue'[i] = "set_tare"
    BY <1>1
  <2> QED BY <2>1 DEF Coming
<1>2. CASE \E i \in 1..Len(down) : down[i].topic = Delta
  <2>1. \E i \in 1..Len(down') : down'[i].topic = Delta
    BY <1>2
  <2> QED BY <2>1 DEF Coming
<1>3. CASE Reporting /\ Reports(op.doc, tare)
  <2>1. Reporting' /\ Reports(op.doc, tare)'
    BY <1>3 DEF Reports
  <2> QED BY <2>1 DEF Coming
<1>4. CASE ~Reporting /\ \E i \in 1..Len(up) :
             /\ up[i].cmd = "set_tare" /\ Reports(up[i].doc, tare)
             /\ \A j \in i + 1..Len(up) : up[j].cmd # "set_tare"
  <2>1. ~Reporting' /\ (\E i \in 1..Len(up) :
             /\ up[i].cmd = "set_tare" /\ Reports(up[i].doc, tare)
             /\ \A j \in i + 1..Len(up) : up[j].cmd # "set_tare")'
    BY <1>4 DEF Reports
  <2> QED BY <2>1 DEF Coming
<1>5. CASE /\ ~Reporting /\ \A i \in 1..Len(up) : up[i].cmd # "set_tare"
           /\ desired = tare /\ reported = tare
  <2>1. /\ ~Reporting' /\ \A i \in 1..Len(up') : up'[i].cmd # "set_tare"
        /\ desired' = tare' /\ reported' = tare'
    BY <1>5
  <2> QED BY <2>1 DEF Coming
<1> QED BY <1>1, <1>2, <1>3, <1>4, <1>5 DEF Coming

LEMMA ReadValues ==
  ASSUME Records, ValueInv, Read \/ Expire
  PROVE  ValueInv'
<1>1. /\ UNCHANGED <<op, up, started, desired, reported>>
      /\ down' = down \/ (down # <<>> /\ down' = Tail(down))
  BY DEF Read, Expire, cloud
<1>2. Reporting' <=> Reporting
  BY <1>1 DEF Reporting, Preparing
<1>3. Agreeing'
  BY <1>1, <1>2 DEF ValueInv, Agreeing
<1>4. /\ queue \in Seq(Command) /\ down \in Seq(Message) /\ rxBuf \in Tare
  BY DEF Records, TypeOK
<1>5. \/ missed'
      \/ \E i \in 1..Len(queue') : queue'[i] = "set_tare"
      \/ /\ tare' = tare /\ (missed => missed')
         /\ \A i \in 1..Len(queue) : i \in 1..Len(queue') /\ queue'[i] = queue[i]
         /\ down' = down \/ down[1].topic # Delta
  <2>1. ASSUME NEW i \in 1..Acks, Waiting(i), NEW cause, NEW found \in Tare,
               Ended(i, ackWaitList[i].cmd, cause, found)
        PROVE  /\ missed => missed'
               /\ \A j \in 1..Len(queue) : j \in 1..Len(queue') /\ queue'[j] = queue[j]
               /\ missed' \/ tare' = tare \/ \E j \in 1..Len(queue') : queue'[j] = "set_tare"
    BY <2>1, EndedEffect
  <2>2. CASE Expire
    BY <1>4, <2>1, <2>2 DEF Expire
  <2>3. CASE Read
    <3>1. down[1].value \in Tare /\ FALSE \in BOOLEAN
      BY <2>3, ReadEffect DEF Message
    <3>2. CASE down[1].topic # Delta /\ UNCHANGED <<ackWaitList, subscriptionList, tare, queue, calls, last, missed>>
      BY <3>2
    <3>3. CASE down[1].topic # Delta /\ \E i \in 1..Acks :
                    /\ Waiting(i) /\ ackWaitList[i].token = down[1].token
                    /\ Ended(i, ackWaitList[i].cmd, down[1].topic.cmd, down[1].value)
      BY <2>1, <3>1, <3>3
    <3>4. CASE down[1].value \in Value /\ TareCallback(down[1].value, FALSE)
      BY <3>1, <3>4, TareCallbackEffect
    <3> QED BY <2>3, <3>2, <3>3, <3>4, ReadEffect
  <2> QED BY <2>2, <2>3
<1>6. ASSUME started', ~missed'
      PROVE  Coming'
  <2>1. CASE \E i \in 1..Len(queue') : queue'[i] = "set_tare"
    BY <2>1 DEF Coming
  <2>2. CASE /\ tare' = tare /\ (missed => missed')
             /\ \A i \in 1..Len(queue) : i \in 1..Len(queue') /\ queue'[i] = queue[i]
             /\ down' = down \/ down[1].topic # Delta
    <3>1. Coming
      BY <1>1, <1>6, <2>2 DEF ValueInv, Agreeing
    <3>2. (\E i \in 1..Len(queue) : queue[i] = "set_tare")
             => \E i \in 1..Len(queue') : queue'[i] = "set_tare"
      BY <2>2
    <3>3. ASSUME NEW i \in 1..Len(down), down[i].topic = Delta
          PROVE  \E j \in 1..Len(down') : down'[j].topic = Delta
      <4>1. CASE down' = down
        BY <3>3, <4>1
      <4>2. CASE down' # down
        <5>1. down # <<>> /\ down' = Tail(down) /\ down[1].topic # Delta
          BY <1>1, <2>2, <4>2
        <5>2. /\ Len(down) \in Nat /\ Len(down) >= 1 /\ Len(down') = Len(down) - 1
              /\ \A j \in 1..Len(down) - 1 : down'[j] = down[j + 1]
          BY <1>4, <5>1, TakeFromQueue
        <5>3. i # 1 /\ i - 1 \in 1..Len(down') /\ down'[i - 1] = down[i]
          BY <3>3, <5>1, <5>2
        <5> QED BY <3>3, <5>3
      <4> QED BY <4>1, <4>2
    <3> QED BY <1>1, <1>2, <2>2, <3>1, <3>2, <3>3, ComingStays
  <2> QED BY <1>5, <1>6, <2>1, <2>2
<1> QED BY <1>3, <1>6 DEF ValueInv, Agreeing

\* A command is taken: from now on its document is what is coming.
LEMMA ServeValues ==
  ASSUME Records, ValueInv, Serve
  PROVE  ValueInv'
<1>1. /\ started /\ op = Idle /\ queue[1] \in Command
      /\ \A i \in 1..Len(queue) - 1 : queue'[i] = queue[i + 1]
      /\ Len(queue) \in Nat /\ Len(queue) >= 1 /\ Len(queue') = Len(queue) - 1
      /\ UNCHANGED <<tare, started, up, down, desired, reported>>
  BY ServeEffect DEF cloud
<1> PICK c \in Command : c = Head(queue) /\ c = queue[1]
  BY <1>1, ServeEffect
<1>2. /\ Document(c).desired = Document(c).reported \/ c # "set_tare"
      /\ c = "set_tare" => Reports(Document(c), tare)
  BY DocumentIs DEF Reports
<1>3. ~Reporting
  BY <1>1 DEF Reporting, Preparing
<1>4. \/ /\ op' = Idle /\ Refuse(c)
      \/ /\ op'.cmd = c /\ op'.doc = Document(c) /\ op'.stage \in {"accepted", "publish"}
         /\ UNCHANGED missed
  <2> DEFINE o == [stage |-> "publish", cmd |-> c, doc |-> Document(c),
                   slots |-> <<0, 0>>, ack |-> FirstOf(FreeAcks)]
             n == [o EXCEPT !.stage = "accepted", !.slots = Take(FreeSlots)]
  <2>1. \/ op' = Idle /\ Refuse(c)
        \/ op' = o /\ UNCHANGED missed
        \/ op' = n /\ UNCHANGED missed
    BY Zenon DEF Serve
  <2>2. o.cmd = c /\ o.doc = Document(c) /\ o.stage = "publish"
    OBVIOUS
  <2>3. n.cmd = c /\ n.doc = Document(c) /\ n.stage = "accepted"
    OBVIOUS
  <2> HIDE DEF n, o
  <2> QED BY <2>1, <2>2, <2>3
<1>5. Reporting' => c = "set_tare" /\ op'.doc = Document(c)
  BY <1>4 DEF Reporting, Preparing
<1>6. Agreeing'
  BY <1>1, <1>2, <1>5 DEF ValueInv, Agreeing
<1>7. ASSUME ~missed'
      PROVE  ~missed /\ Coming'
  <2>1. ~missed
    BY <1>4, <1>7, Zenon DEF Refuse
  <2>2. Coming
    BY <1>1, <2>1 DEF ValueInv, Agreeing
  <2>3. CASE c = "set_tare"
    <3>1. ~Refuse(c)
      BY <1>7, <2>3, Zenon DEF Refuse
    <3>2. op'.cmd = c /\ op'.doc = Document(c) /\ op'.stage \in {"accepted", "publish"}
      BY <1>4, <3>1
    <3>3. Reporting' /\ Reports(op.doc, tare)'
      BY <1>1, <1>2, <2>3, <3>2 DEF Reporting, Preparing, Reports, Idle
    <3> QED BY <2>1, <3>3 DEF Coming
  <2>4. CASE c # "set_tare"
    <3>1. ~Reporting'
      BY <1>5, <2>4
    <3>2. ASSUME NEW i \in 1..Len(queue), queue[i] = "set_tare"
          PROVE  \E j \in 1..Len(queue') : queue'[j] = "set_tare"
      <4>1. i # 1
        BY <2>4, <3>2
      <4>2. i - 1 \in 1..Len(queue') /\ queue'[i - 1] = queue[i]
        BY <1>1, <4>1
      <4> QED BY <3>2, <4>2
    <3>3. Coming'
      BY <1>1, <1>3, <2>2, <3>1, <3>2, ComingStays
    <3> QED BY <2>1, <3>3
  <2> QED BY <2>3, <2>4
<1> QED BY <1>6, <1>7 DEF ValueInv, Agreeing

LEMMA SubscribeValues ==
  ASSUME Records, ValueInv, SubscribeAccepted \/ SubscribeRejected
  PROVE  ValueInv'
<1>1. /\ op.stage \in {"accepted", "rejected"}
      /\ \/ op' = [op EXCEPT !.stage = "rejected"] /\ UNCHANGED missed
         \/ op' = [op EXCEPT !.stage = "publish"] /\ UNCHANGED missed
         \/ op' = Idle /\ Refuse(op.cmd)
      /\ UNCHANGED <<up, down, tare, queue, started, desired, reported>>
  BY DEF SubscribeAccepted, SubscribeRejected, device, cloud
<1>2. op \in OpRec /\ started /\ op # Idle
  BY <1>1, WhileSubscribing
<1>3. \/ /\ op'.cmd = op.cmd /\ op'.doc = op.doc /\ op'.stage \in {"rejected", "publish"}
         /\ UNCHANGED missed
      \/ op' = Idle /\ Refuse(op.cmd)
  BY <1>1, <1>2 DEF OpRec
<1>4. Reporting <=> op.cmd = "set_tare"
  BY <1>1, <1>2 DEF Reporting, Preparing
<1>5. CASE /\ op'.cmd = op.cmd /\ op'.doc = op.doc /\ op'.stage \in {"rejected", "publish"}
           /\ UNCHANGED missed
  <2>1. Reporting' <=> Reporting
    BY <1>4, <1>5 DEF Reporting, Preparing, Idle
  <2>2. Agreeing'
    BY <1>1, <1>5, <2>1 DEF ValueInv, Agreeing
  <2>3. ~missed' => Coming'
    BY <1>1, <1>2, <1>5, <2>1, ComingStays DEF ValueInv, Agreeing
  <2> QED BY <2>2, <2>3 DEF ValueInv, Agreeing
<1>6. CASE op' = Idle /\ Refuse(op.cmd)
  <2>1. ~Reporting'
    BY <1>6 DEF Reporting, Preparing
  <2>2. Agreeing'
    BY <1>1, <2>1 DEF ValueInv, Agreeing
  <2>3. ASSUME ~missed' PROVE Coming'
    <3>1. ~missed /\ op.cmd = "set_fw"
      BY <1>6, <2>3, Zenon DEF Refuse
    <3>2. ~Reporting /\ Coming
      BY <1>2, <1>4, <3>1 DEF ValueInv, Agreeing
    <3> QED BY <1>1, <2>1, <3>2, ComingStays
  <2> QED BY <2>2, <2>3 DEF ValueInv, Agreeing
<1> QED BY <1>3, <1>5, <1>6

\* What the device was preparing is on its way.
LEMMA PublishRequestValues ==
  ASSUME Records, ValueInv, PublishRequest
  PROVE  ValueInv'
<1>1. /\ op.stage = "publish"
      /\ \/ /\ up' = Append(up, [cmd |-> op.cmd, doc |-> op.doc]) /\ UNCHANGED missed
            /\ op' = IF op.cmd = "get_tare" THEN Idle ELSE [op EXCEPT !.stage = "expire"]
         \/ op' = Idle /\ Refuse(op.cmd) /\ UNCHANGED up
      /\ UNCHANGED <<down, tare, queue, started, desired, reported>>
  BY DEF PublishRequest, device, cloud
<1>2. op # Idle /\ op \in OpRec /\ op.cmd \in Command /\ op.doc \in Doc
  BY <1>1 DEF Records, OpInv, Idle, OpRec
<1>3. started /\ (Reporting <=> op.cmd = "set_tare")
  BY <1>1, <1>2 DEF Records, StartInv, Reporting, Preparing
<1>4. ~Reporting'
  <2>1. [op EXCEPT !.stage = "expire"].stage = "expire"
    BY <1>2 DEF OpRec
  <2> QED BY <1>1, <2>1 DEF Reporting, Preparing
<1>5. CASE op' = Idle /\ Refuse(op.cmd) /\ UNCHANGED up
  <2>1. Agreeing'
    BY <1>4, <1>5 DEF ValueInv, Agreeing
  <2>2. ASSUME ~missed' PROVE Coming'
    <3>1. ~missed /\ op.cmd = "set_fw"
      BY <1>5, <2>2, Zenon DEF Refuse
    <3>2. ~Reporting /\ Coming
      BY <1>3, <3>1 DEF ValueInv, Agreeing
    <3> QED BY <1>1, <1>4, <1>5, <3>2, ComingStays
  <2> QED BY <2>1, <2>2 DEF ValueInv, Agreeing
<1>6. CASE up' = Append(up, [cmd |-> op.cmd, doc |-> op.doc]) /\ UNCHANGED missed
  <2> DEFINE e == [cmd |-> op.cmd, doc |-> op.doc]
  <2>1. e \in [cmd : Command, doc : Doc] /\ up \in Seq([cmd : Command, doc : Doc])
    BY <1>2 DEF Records, TypeOK
  <2>2. e.cmd = op.cmd /\ e.doc = op.doc
    OBVIOUS
  <2> HIDE DEF e
  <2>3. up' = Append(up, e)
    BY <1>6 DEF e
  <2>4. /\ Len(up) \in Nat /\ Len(up') = Len(up) + 1
        /\ \A i \in 1..Len(up) : up'[i] = up[i]
        /\ up'[Len(up) + 1] = e
    BY <2>1, <2>3, AppendToQueue
  <2>5. Agreeing'
    <3>1. op.cmd = "set_tare" => op.doc.desired = op.doc.reported
      BY <1>3 DEF ValueInv, Agreeing
    <3>2. \A i \in 1..Len(up') : i \in 1..Len(up) \/ i = Len(up) + 1
      BY <2>4
    <3>3. \A i \in 1..Len(up') : up'[i].cmd = "set_tare" => up'[i].doc.desired = up'[i].doc.reported
      BY <2>2, <2>4, <3>1, <3>2 DEF ValueInv, Agreeing
    <3> QED BY <1>4, <3>3 DEF Agreeing
  <2>6. ASSUME ~missed' PROVE Coming'
    <3>1. Coming
      BY <1>3, <1>6, <2>6 DEF ValueInv, Agreeing
    <3>2. CASE \/ \E i \in 1..Len(queue) : queue[i] = "set_tare"
               \/ \E i \in 1..Len(down) : down[i].topic = Delta
      BY <1>1, <3>2 DEF Coming
    <3>3. CASE Reporting /\ Reports(op.doc, tare)
      <4> DEFINE n == Len(up) + 1
      <4>1. n \in 1..Len(up') /\ up'[n].cmd = "set_tare" /\ Reports(up'[n].doc, tare')
        BY <1>1, <1>3, <2>2, <2>4, <3>3
      <4>2. \A j \in n + 1..Len(up') : up'[j].cmd # "set_tare"
        BY <2>4
      <4> HIDE DEF n
      <4>3. \E i \in 1..Len(up') : /\ up'[i].cmd = "set_tare" /\ Reports(up'[i].doc, tare')
                                   /\ \A j \in i + 1..Len(up') : up'[j].cmd # "set_tare"
        BY <4>1, <4>2
      <4> QED BY <1>4, <4>3 DEF Coming, Reports
    <3>4. CASE ~Reporting /\ \E i \in 1..Len(up) :
                 /\ up[i].cmd = "set_tare" /\ Reports(up[i].doc, tare)
                 /\ \A j \in i + 1..Len(up) : up[j].cmd # "set_tare"
      <4>1. PICK i \in 1..Len(up) : /\ up[i].cmd = "set_tare" /\ Reports(up[i].doc, tare)
                                    /\ \A j \in i + 1..Len(up) : up[j].cmd # "set_tare"
        BY <3>4
      <4>2. i \in 1..Len(up') /\ up'[i].cmd = "set_tare" /\ Reports(up'[i].doc, tare')
        BY <1>1, <2>4, <4>1
      <4>3. \A j \in i + 1..Len(up') : up'[j].cmd # "set_tare"
        BY <1>3, <2>2, <2>4, <3>4, <4>1
      <4> QED BY <1>4, <4>2, <4>3 DEF Coming, Reports
    <3>5. CASE /\ ~Reporting /\ \A i \in 1..Len(up) : up[i].cmd # "set_tare"
               /\ desired = tare /\ reported = tare
      <4>1. \A i \in 1..Len(up') : up'[i].cmd # "set_tare"
        BY <1>3, <2>2, <2>4, <3>5
      <4> QED BY <1>1, <1>4, <3>5, <4>1 DEF Coming
    <3> QED BY <3>1, <3>2, <3>3, <3>4, <3>5 DEF Coming
  <2> QED BY <2>5, <2>6 DEF ValueInv, Agreeing
<1> QED BY <1>1, <1>5, <1>6
LEMMA AppWritesValues ==
  ASSUME Records, ValueInv, AppWrites
  PROVE  ValueInv'
<1>1. PICK v \in Value \ {desired} :
        /\ desired' = v
        /\ \/ v = reported /\ UNCHANGED <<down, missed>>
           \/ /\ down' = Publish([topic |-> Delta, token |-> 0, value |-> v])
              /\ missed' = (missed \/ Lost([topic |-> Delta, token |-> 0, value |-> v]))
  BY DEF AppWrites
<1>2. UNCHANGED <<op, up, tare, queue, started, reported>>
  BY DEF AppWrites, device
<1>3. Reporting' <=> Reporting
  BY <1>2 DEF Reporting, Preparing
<1>4. Agreeing'
  BY <1>2, <1>3 DEF ValueInv, Agreeing
<1>5. ASSUME started', ~missed'
      PROVE  Coming'
  <2>1. CASE v = reported /\ UNCHANGED <<down, missed>>
    <3>1. Coming
      BY <1>2, <1>5, <2>1 DEF ValueInv, Agreeing
    <3>2. ~(desired = tare /\ reported = tare)
      BY <2>1
    <3>3. CASE \/ \E i \in 1..Len(queue) : queue[i] = "set_tare"
               \/ \E i \in 1..Len(down) : down[i].topic = Delta
      BY <1>2, <2>1, <3>3 DEF Coming
    <3>4. CASE Reporting /\ Reports(op.doc, tare)
      <4>1. Reporting' /\ Reports(op.doc, tare)'
        BY <1>2, <1>3, <3>4 DEF Reports
      <4> QED BY <4>1 DEF Coming
    <3>5. CASE ~Reporting /\ \E i \in 1..Len(up) :
                 /\ up[i].cmd = "set_tare" /\ Reports(up[i].doc, tare)
                 /\ \A j \in i + 1..Len(up) : up[j].cmd # "set_tare"
      <4>1. ~Reporting' /\ (\E i \in 1..Len(up) :
                 /\ up[i].cmd = "set_tare" /\ Reports(up[i].doc, tare)
                 /\ \A j \in i + 1..Len(up) : up[j].cmd # "set_tare")'
        BY <1>2, <1>3, <3>5 DEF Reports
      <4> QED BY <4>1 DEF Coming
    <3> QED BY <3>1, <3>2, <3>3, <3>4, <3>5 DEF Coming
  <2>2. CASE /\ down' = Publish([topic |-> Delta, token |-> 0, value |-> v])
             /\ missed' = (missed \/ Lost([topic |-> Delta, token |-> 0, value |-> v]))
    <3> DEFINE m == [topic |-> Delta, token |-> 0, value |-> v]
    <3>1. m \in Message /\ m.topic = Delta
      BY DEF Message, Tare
    <3>2. down' = Publish(m) /\ ~Lost(m)
      BY <1>5, <2>2, Zenon
    <3> HIDE DEF m
    <3>3. Len(down) + 1 \in 1..Len(down') /\ down'[Len(down) + 1] = m
      BY <3>1, <3>2, Published
    <3>4. \E i \in 1..Len(down') : down'[i].topic = Delta
      BY <3>1, <3>3
    <3> QED BY <3>4 DEF Coming
  <2> QED BY <1>1, <2>1, <2>2
<1> QED BY <1>4, <1>5 DEF ValueInv, Agreeing

\* An answer to anything but an update of the value changes nothing that matters.
LEMMA AwsLeaves ==
  ASSUME Records, Coming, AwsAnswers, up[1].cmd # "set_tare", UNCHANGED <<desired, reported>>
  PROVE  Coming'
<1>1. /\ Len(up) \in Nat /\ Len(up) >= 1 /\ Len(up') = Len(up) - 1
      /\ \A i \in 1..Len(up) - 1 : up'[i] = up[i + 1]
  BY NextRequest
<1>2. PICK m \in Message : down' = Publish(m)
  BY AwsMessage
<1>3. \A i \in 1..Len(down) : i \in 1..Len(down') /\ down'[i] = down[i]
  BY <1>2, Published
<1>4. UNCHANGED <<op, tare, queue>>
  BY DEF AwsAnswers, device
<1>5. Reporting' <=> Reporting
  BY <1>4 DEF Reporting, Preparing
<1>6. CASE \E i \in 1..Len(queue) : queue[i] = "set_tare"
  BY <1>4, <1>6 DEF Coming
<1>7. CASE \E i \in 1..Len(down) : down[i].topic = Delta
  BY <1>3, <1>7 DEF Coming
<1>8. CASE Reporting /\ Reports(op.doc, tare)
  <2>1. Reporting' /\ Reports(op.doc, tare)'
    BY <1>4, <1>5, <1>8 DEF Reports
  <2> QED BY <2>1 DEF Coming
<1>9. CASE ~Reporting /\ \E i \in 1..Len(up) :
             /\ up[i].cmd = "set_tare" /\ Reports(up[i].doc, tare)
             /\ \A j \in i + 1..Len(up) : up[j].cmd # "set_tare"
  <2>1. PICK i \in 1..Len(up) : /\ up[i].cmd = "set_tare" /\ Reports(up[i].doc, tare)
                                /\ \A j \in i + 1..Len(up) : up[j].cmd # "set_tare"
    BY <1>9
  <2>2. i - 1 \in 1..Len(up') /\ up'[i - 1] = up[i]
    <3>1. i # 1
      BY <2>1
    <3> QED BY <1>1, <3>1
  <2>3. \A j \in (i - 1) + 1..Len(up') : up'[j].cmd # "set_tare"
    <3> SUFFICES ASSUME NEW j \in (i - 1) + 1..Len(up') PROVE up'[j].cmd # "set_tare"
      OBVIOUS
    <3>1. j \in 1..Len(up) - 1 /\ j + 1 \in i + 1..Len(up)
      BY <1>1
    <3> QED BY <1>1, <2>1, <3>1
  <2>4. \E k \in 1..Len(up') : /\ up'[k].cmd = "set_tare" /\ Reports(up'[k].doc, tare')
                               /\ \A j \in k + 1..Len(up') : up'[j].cmd # "set_tare"
    BY <1>4, <2>1, <2>2, <2>3
  <2> QED BY <1>5, <1>9, <2>4 DEF Coming, Reports
<1>10. CASE /\ ~Reporting /\ \A i \in 1..Len(up) : up[i].cmd # "set_tare"
            /\ desired = tare /\ reported = tare
  <2>1. \A i \in 1..Len(up') : i + 1 \in 1..Len(up) /\ up'[i] = up[i + 1]
    BY <1>1
  <2>2. \A i \in 1..Len(up') : up'[i].cmd # "set_tare"
    BY <1>10, <2>1
  <2> QED BY <1>4, <1>5, <1>10, <2>2 DEF Coming
<1> QED BY <1>6, <1>7, <1>8, <1>9, <1>10 DEF Coming

\* AWS takes an update of the value: either it is the last, and carries the
\* device's value, or something is still coming, or the shadow was right again.
LEMMA AwsTakes ==
  ASSUME Records, ValueInv, AwsAnswers, AwsUpdates, up[1].cmd = "set_tare", started, ~missed'
  PROVE  Coming'
<1>1. /\ Len(up) \in Nat /\ Len(up) >= 1 /\ Len(up') = Len(up) - 1
      /\ \A i \in 1..Len(up) - 1 : up'[i] = up[i + 1]
      /\ Head(up) = up[1]
  BY NextRequest
<1> DEFINE d == up[1].doc
<1>2. /\ desired' = d.desired /\ reported' = d.reported
      /\ missed' = (missed /\ ~(desired' = reported' /\ Repaired(reported')))
  BY NextRequest DEF AwsUpdates
<1>3. d.desired = d.reported
  <2>1. 1 \in 1..Len(up)
    BY <1>1
  <2> QED BY <2>1 DEF ValueInv, Agreeing
<1> HIDE DEF d
<1>4. PICK m \in Message : down' = Publish(m)
  BY AwsMessage
<1>5. \A i \in 1..Len(down) : i \in 1..Len(down') /\ down'[i] = down[i]
  BY <1>4, Published
<1>6. UNCHANGED <<op, tare, queue>>
  BY DEF AwsAnswers, device
<1>7. Reporting' <=> Reporting
  BY <1>6 DEF Reporting, Preparing
<1>8. CASE ~missed
  <2>1. Coming
    BY <1>8 DEF ValueInv, Agreeing
  <2>2. CASE \E i \in 1..Len(queue) : queue[i] = "set_tare"
    BY <1>6, <2>2 DEF Coming
  <2>3. CASE \E i \in 1..Len(down) : down[i].topic = Delta
    BY <1>5, <2>3 DEF Coming
  <2>4. CASE Reporting /\ Reports(op.doc, tare)
    <3>1. Reporting' /\ Reports(op.doc, tare)'
      BY <1>6, <1>7, <2>4 DEF Reports
    <3> QED BY <3>1 DEF Coming
  <2>5. CASE ~Reporting /\ \E i \in 1..Len(up) :
               /\ up[i].cmd = "set_tare" /\ Reports(up[i].doc, tare)
               /\ \A j \in i + 1..Len(up) : up[j].cmd # "set_tare"
    <3>1. PICK i \in 1..Len(up) : /\ up[i].cmd = "set_tare" /\ Reports(up[i].doc, tare)
                                  /\ \A j \in i + 1..Len(up) : up[j].cmd # "set_tare"
      BY <2>5
    <3>2. CASE i = 1
      <4>1. \A j \in 1..Len(up') : j + 1 \in i + 1..Len(up) /\ up'[j] = up[j + 1]
        BY <1>1, <3>2
      <4>2. \A j \in 1..Len(up') : up'[j].cmd # "set_tare"
        BY <3>1, <4>1
      <4>3. desired' = tare' /\ reported' = tare'
        BY <1>2, <1>6, <3>1, <3>2 DEF Reports, d
      <4> QED BY <1>7, <2>5, <4>2, <4>3 DEF Coming
    <3>3. CASE i # 1
      <4>1. i - 1 \in 1..Len(up') /\ up'[i - 1] = up[i]
        BY <1>1, <3>3
      <4>2. \A j \in (i - 1) + 1..Len(up') : up'[j].cmd # "set_tare"
        <5> SUFFICES ASSUME NEW j \in (i - 1) + 1..Len(up') PROVE up'[j].cmd # "set_tare"
          OBVIOUS
        <5>1. j \in 1..Len(up) - 1 /\ j + 1 \in i + 1..Len(up)
          BY <1>1
        <5> QED BY <1>1, <3>1, <5>1
      <4>3. \E k \in 1..Len(up') : /\ up'[k].cmd = "set_tare" /\ Reports(up'[k].doc, tare')
                                   /\ \A j \in k + 1..Len(up') : up'[j].cmd # "set_tare"
        BY <1>6, <3>1, <4>1, <4>2
      <4> QED BY <1>7, <2>5, <4>3 DEF Coming, Reports
    <3> QED BY <3>2, <3>3
  <2>6. CASE \A i \in 1..Len(up) : up[i].cmd # "set_tare"
    <3>1. 1 \in 1..Len(up)
      BY <1>1
    <3> QED BY <2>6, <3>1
  <2> QED BY <2>1, <2>2, <2>3, <2>4, <2>5, <2>6 DEF Coming
<1>9. CASE missed
  <2>1. desired' = reported' /\ Repaired(reported')
    BY <1>2, <1>9, Zenon
  <2>2. /\ reported' = tare /\ Len(up) = 1
        /\ op.stage \in {"accepted", "rejected", "publish"} => op.doc.reported = tare
    BY <2>1 DEF Repaired
  <2>3. desired' = tare' /\ reported' = tare' /\ Len(up') = 0
    BY <1>1, <1>6, <2>1, <2>2
  <2>4. CASE Reporting
    <3>1. op \in OpRec /\ op.stage # "expire"
      BY <2>4 DEF Reporting, Preparing, Records, OpInv
    <3>2. op.stage \in {"accepted", "rejected", "publish"}
      BY <3>1 DEF OpRec, Stages
    <3>3. op.doc.desired = op.doc.reported
      BY <2>4 DEF ValueInv, Agreeing
    <3>4. Reporting' /\ Reports(op.doc, tare)'
      BY <1>6, <1>7, <2>2, <2>4, <3>2, <3>3 DEF Reports
    <3> QED BY <3>4 DEF Coming
  <2>5. CASE ~Reporting
    <3>1. \A i \in 1..Len(up') : up'[i].cmd # "set_tare"
      BY <2>3
    <3> QED BY <1>7, <2>3, <2>5, <3>1 DEF Coming
  <2> QED BY <2>4, <2>5
<1> QED BY <1>8, <1>9

LEMMA AwsAnswersValues ==
  ASSUME Records, ValueInv, AwsAnswers
  PROVE  ValueInv'
<1>1. /\ Len(up) \in Nat /\ Len(up) >= 1 /\ Len(up') = Len(up) - 1
      /\ \A i \in 1..Len(up) - 1 : up'[i] = up[i + 1]
      /\ Head(up) = up[1] /\ up[1].cmd \in Command /\ started
  BY NextRequest
<1>2. UNCHANGED <<op, started>>
  BY DEF AwsAnswers
<1>3. Reporting' <=> Reporting
  BY <1>2 DEF Reporting, Preparing
<1>4. Agreeing'
  <2>1. \A i \in 1..Len(up') : i + 1 \in 1..Len(up) /\ up'[i] = up[i + 1]
    BY <1>1
  <2> QED BY <1>2, <1>3, <2>1 DEF ValueInv, Agreeing
<1>5. ASSUME ~missed'
      PROVE  Coming'
  <2>1. CASE up[1].cmd = "set_tare"
    <3>1. AwsUpdates
      <4>1. ~AwsGets
        BY <1>1, <2>1 DEF AwsGets
      <4>2. ~AwsRejects
        <5>1. Head(up).cmd # "set_fw"
          BY <1>1, <2>1
        <5> QED BY <1>5, <5>1, Zenon DEF AwsRejects
      <4> QED BY <4>1, <4>2 DEF AwsAnswers
    <3> QED BY <1>1, <1>5, <2>1, <3>1, AwsTakes
  <2>2. CASE up[1].cmd # "set_tare"
    <3>1. Head(up).cmd # "set_tare"
      BY <1>1, <2>2
    <3>2. UNCHANGED <<desired, reported>>
      BY <3>1 DEF AwsAnswers, AwsUpdates, AwsGets, AwsRejects
    <3>3. ~missed
      BY <1>5, <3>1, Zenon DEF AwsAnswers, AwsUpdates, AwsGets, AwsRejects
    <3>4. Coming
      BY <1>1, <3>3 DEF ValueInv, Agreeing
    <3> QED BY <2>2, <3>2, <3>4, AwsLeaves
  <2> QED BY <2>1, <2>2
<1> QED BY <1>4, <1>5 DEF ValueInv, Agreeing

\* The start, the session and the end of a request
LEMMA OtherValues ==
  ASSUME Records, ValueInv,
         Start \/ SessionBreaks \/ Reconnects \/ Restarts \/ ExpireDone \/ UNCHANGED vars
  PROVE  ValueInv'
<1>1. CASE Start
  <2>1. /\ UNCHANGED <<op, up>> /\ op = Idle /\ up = <<>>
    BY <1>1 DEF Start, Records, StartInv
  <2>2. ~Reporting'
    BY <2>1 DEF Reporting, Preparing
  <2>3. Coming'
    BY <1>1, StartKeeps DEF Coming
  <2> QED BY <2>1, <2>2, <2>3 DEF ValueInv, Agreeing
<1>2. CASE SessionBreaks
  <2>1. up' = <<>> /\ missed' = TRUE /\ UNCHANGED op
    BY <1>2 DEF SessionBreaks
  <2>2. Reporting' <=> Reporting
    BY <2>1 DEF Reporting, Preparing
  <2> QED BY <2>1, <2>2 DEF ValueInv, Agreeing
<1>3. CASE Restarts
  <2>1. up' = <<>> /\ missed' = TRUE /\ op' = Idle
    BY <1>3 DEF Restarts
  <2>2. ~Reporting'
    BY <2>1 DEF Reporting, Preparing
  <2> QED BY <2>1, <2>2 DEF ValueInv, Agreeing
<1>4. CASE Reconnects \/ ExpireDone \/ UNCHANGED vars
  <2>1. /\ UNCHANGED <<up, down, tare, queue, started, desired, reported, missed>>
        /\ op' = op \/ (op.stage = "expire" /\ op' = Idle)
    BY <1>4 DEF Reconnects, ExpireDone, vars, device, cloud
  <2>2. (Reporting' <=> Reporting) /\ (Reporting => op' = op)
    BY <2>1 DEF Reporting, Preparing
  <2>3. Agreeing'
    BY <2>1, <2>2 DEF ValueInv, Agreeing
  <2>4. started' /\ ~missed' => Coming'
    BY <2>1, <2>2, ComingStays DEF ValueInv, Agreeing
  <2> QED BY <2>3, <2>4 DEF ValueInv, Agreeing
<1> QED BY <1>1, <1>2, <1>3, <1>4

LEMMA NextValues ==
  ASSUME Records, ValueInv, [Next]_vars
  PROVE  ValueInv'
BY ReadValues, ServeValues, SubscribeValues, PublishRequestValues, AppWritesValues,
   AwsAnswersValues, OtherValues DEF Next, Make, World

LEMMA InitValues == Init => ValueInv
<1> SUFFICES ASSUME Init PROVE ValueInv
  OBVIOUS
<1>1. op = Idle /\ up = <<>> /\ ~started
  BY DEF Init
<1>2. ~Reporting
  BY <1>1 DEF Reporting, Preparing
<1> QED BY <1>1, <1>2 DEF ValueInv, Agreeing

\* Whatever is coming has come when all is quiet.
LEMMA ValuesAgree ==
  ASSUME ValueInv
  PROVE  InSync
<1> SUFFICES ASSUME Quiet, ~missed PROVE tare = desired /\ tare = reported
  BY DEF InSync
<1>1. started /\ op = Idle /\ queue = <<>> /\ up = <<>> /\ down = <<>>
  BY DEF Quiet
<1>2. ~Reporting
  BY <1>1 DEF Reporting, Preparing
<1>3. Coming
  BY <1>1 DEF ValueInv, Agreeing
<1> QED BY <1>1, <1>2, <1>3 DEF Coming

\* Device and shadow agree whenever nothing is under way and no failure has been
\* left unrepaired, in whatever order values were written, deltas and answers
\* read and updates published.
THEOREM InSyncKept == Spec => []InSync
<1>1. Init => Records /\ ValueInv
  BY InitRecords, InitValues
<1>2. Records /\ ValueInv /\ [Next]_vars => Records' /\ ValueInv'
  BY NextRecords, NextValues
<1>3. ValueInv => InSync
  BY ValuesAgree
<1> QED BY <1>1, <1>2, <1>3, PTL DEF Spec

-----------------------------------------------------------------------------
(* The record of errors.                                                   *)

\* The count covers the answers still to come because at most that many codes
\* were counted when sending began, once in a boot; the chain of calls is short
\* because each failed save leaves Comm as the newest code.
RingInv ==
  /\ CountCoversAnswers
  /\ phase \in {"off", "load", "blank", "connect"} => left = 0 /\ waiting = 0
  /\ phase = "off" => nest = 0
  /\ nest <= 3
  /\ nest = 2 => ring.idx = 0 \/ ring.code[ring.idx - 1] = Comm
  /\ nest = 3 => ring.idx = 1 /\ ring.code[0] = Comm

LEMMA NextIndex == \A i \in Slot : Next1(i) \in Slot /\ (i = 0 => Next1(i) = 1)
                                   /\ (Next1(i) = 0 \/ Next1(i) = i + 1)
BY RingAssumption DEF Slot, Next1

LEMMA RecentTypes == \A l \in Seq(Code) : Recent(l) \in Seq(Code)
BY RingAssumption DEF Recent

LEMMA EmptyTypes == Empty \in Ring
<1>1. 0 \in Slot /\ 0 \in 0..Size /\ <<>> \in Seq(Code)
  BY RingAssumption DEF Slot
<1> QED
  BY <1>1 DEF Empty, Ring

LEMMA EmptyCount == Empty.cnt = 0
BY DEF Empty

\* The ring a boot begins with
LEMMA StartTypes ==
  \A r \in Ring : /\ Blank(r) \in Ring /\ Blank(r).cnt >= 0
                  /\ ErrorInit(r) \in Ring /\ ErrorInit(r).cnt >= 0
<1> SUFFICES ASSUME NEW r \in Ring
             PROVE /\ Blank(r) \in Ring /\ Blank(r).cnt >= 0
                   /\ ErrorInit(r) \in Ring /\ ErrorInit(r).cnt >= 0
  OBVIOUS
<1>1. /\ r.log \in Seq(Code) /\ r.lost \in BOOLEAN /\ (r.log # <<>>) \in BOOLEAN
      /\ \A q \in Ring : q.cnt >= 0
  BY RingAssumption DEF Ring
<1>2. \A l \in Seq(Code) : \A b \in BOOLEAN :
        [Empty EXCEPT !.log = l, !.lost = b] \in Ring
  BY EmptyTypes DEF Ring
<1>3. Blank(r) \in Ring
  <2> DEFINE b == r.log # <<>>
  <2>1. Blank(r) = [Empty EXCEPT !.log = r.log, !.lost = b]
    BY DEF Blank
  <2>2. r.log \in Seq(Code) /\ b \in BOOLEAN
    BY <1>1
  <2> HIDE DEF b
  <2> QED
    BY <1>2, <2>1, <2>2
<1>4. ErrorInit(r) \in Ring
  <2>1. [Empty EXCEPT !.log = r.log, !.lost = r.lost] \in Ring
    BY <1>1, <1>2
  <2> QED
    BY <2>1, EmptyTypes DEF ErrorInit
<1> QED
  BY <1>1, <1>3, <1>4

\* One call of bsp_error_add that writes
LEMMA WriteInv ==
  ASSUME RTypeOK, RingInv, NEW e \in Code, Write(e)
  PROVE  /\ RTypeOK'
         /\ ring'.cnt >= ring.cnt
         /\ ring'.idx = Next1(ring.idx) /\ ring'.code[ring.idx] = e
<1>1. ring \in Ring /\ ring.idx \in Slot /\ ring.cnt \in 0..Size /\ Size \in Nat
  BY RingAssumption DEF RTypeOK, Ring
<1> DEFINE code1 == [ring.code EXCEPT ![ring.idx] = e]
           idx1  == Next1(ring.idx)
           cnt1  == IF ring.cnt < Size THEN ring.cnt + 1 ELSE ring.cnt
           log1  == IF ring.removed THEN ring.log ELSE Recent(Append(ring.log, e))
<1>2. /\ ring' = [ring EXCEPT !.code = code1, !.idx = idx1, !.cnt = cnt1,
                              !.log = log1]
      /\ nest' = nest + 1 /\ flight' = flight \ {ring.idx}
      /\ UNCHANGED <<stored, open, phase, start, left, waiting>>
  BY <1>1 DEF Write, Ring
<1>3. code1 \in [Slot -> Code \cup {None}] /\ code1[ring.idx] = e
  BY <1>1 DEF Ring
<1>4. idx1 \in Slot
  BY <1>1, NextIndex
<1>5. cnt1 \in 0..Size /\ cnt1 >= ring.cnt
  BY <1>1
<1>7. log1 \in Seq(Code)
  <2>1. ring.log \in Seq(Code)
    BY <1>1 DEF Ring
  <2>2. Append(ring.log, e) \in Seq(Code)
    BY <2>1
  <2> QED
    BY <2>1, <2>2, RecentTypes
<1> HIDE DEF code1, idx1, cnt1, log1
<1>8. ring' \in Ring /\ ring'.cnt = cnt1 /\ ring'.idx = idx1 /\ ring'.code = code1
  BY <1>1, <1>2, <1>3, <1>4, <1>5, <1>7 DEF Ring
<1>9. RTypeOK'
  BY <1>2, <1>8 DEF RTypeOK
<1> QED
  BY <1>3, <1>5, <1>8, <1>9 DEF idx1

LEMMA RInitInv == RInit => RTypeOK /\ RingInv
<1> SUFFICES ASSUME RInit PROVE RTypeOK /\ RingInv
  OBVIOUS
<1>1. RTypeOK
  <2>1. 0 \in Slot /\ 0 \in 0..Size /\ {} \in SUBSET Slot
    BY RingAssumption DEF Slot
  <2> QED
    BY <2>1, EmptyTypes DEF RInit, RTypeOK
<1>2. RingInv
  BY RingAssumption DEF RInit, RingInv, CountCoversAnswers, Empty
<1> QED
  BY <1>1, <1>2

LEMMA AddInv == RTypeOK /\ RingInv /\ (Add \/ LoadFails) => RTypeOK' /\ RingInv'
<1> SUFFICES ASSUME RTypeOK, RingInv, Add \/ LoadFails PROVE RTypeOK' /\ RingInv'
  OBVIOUS
<1>1. PICK e \in Code : Write(e)
  BY RingAssumption DEF Add, LoadFails, Added
<1>2. RTypeOK' /\ ring'.cnt >= ring.cnt
  BY <1>1, WriteInv
<1>3. nest' = 1 /\ UNCHANGED <<phase, left, waiting>> /\ phase # "off"
  BY <1>1 DEF Add, LoadFails, Write
<1>4. CountCoversAnswers'
  BY <1>2, <1>3 DEF RingInv, CountCoversAnswers, RTypeOK, Ring
<1> QED
  BY <1>2, <1>3, <1>4 DEF RingInv

LEMMA SyncFailsInv == RTypeOK /\ RingInv /\ SyncFails => RTypeOK' /\ RingInv'
<1> SUFFICES ASSUME RTypeOK, RingInv, SyncFails PROVE RTypeOK' /\ RingInv'
  OBVIOUS
<1>0. nest \in 1..3 /\ ring.idx \in Slot
  BY DEF SyncFails, RingInv, RTypeOK, Ring
<1>1. CASE Added(Comm)
  <2>1. Write(Comm) /\ ~Same(Comm)
    BY <1>1 DEF Added
  <2>2. /\ RTypeOK' /\ ring'.cnt >= ring.cnt
        /\ ring'.idx = Next1(ring.idx) /\ ring'.code[ring.idx] = Comm
    BY <2>1, WriteInv, RingAssumption
  <2>3. nest' = nest + 1 /\ UNCHANGED <<phase, left, waiting>>
    BY <2>1 DEF Write
  <2>4. CountCoversAnswers'
    BY <2>2, <2>3 DEF RingInv, CountCoversAnswers, RTypeOK, Ring
  <2>5. phase # "off"
    BY <1>0 DEF RingInv
  <2>6. nest = 1 \/ (nest = 2 /\ ring.idx = 0)
    BY <1>0, <2>1 DEF RingInv, Same, Slot
  <2>7. CASE nest = 1
    BY <1>0, <2>2, <2>3, <2>4, <2>5, <2>7, NextIndex DEF RingInv, Slot
  <2>8. CASE nest = 2 /\ ring.idx = 0
    BY <1>0, <2>2, <2>3, <2>4, <2>5, <2>8, NextIndex DEF RingInv
  <2> QED
    BY <2>6, <2>7, <2>8
<1>2. CASE nest' = 0 /\ UNCHANGED <<ring, stored, open, task>>
  BY <1>2 DEF RTypeOK, RingInv, CountCoversAnswers, task
<1> QED
  BY <1>1, <1>2 DEF SyncFails

LEMMA AcceptedInv == RTypeOK /\ RingInv /\ UpdateAccepted => RTypeOK' /\ RingInv'
<1> SUFFICES ASSUME RTypeOK, RingInv, UpdateAccepted PROVE RTypeOK' /\ RingInv'
  OBVIOUS
<1>1. PICK i \in Slot \cup {-1} :
        /\ Answered(i)
        /\ ring' = [ring EXCEPT !.cnt = @ - 1, !.removed = TRUE, !.log = <<>>]
        /\ nest' = 1
  BY DEF UpdateAccepted, Remove
<1>2. /\ ring.cnt \in 0..Size /\ Size \in Nat /\ left \in Nat /\ waiting \in 0..Size
      /\ ring \in Ring
  BY RingAssumption DEF RTypeOK, Ring
<1>3. /\ waiting > 0 /\ waiting' = waiting - 1 /\ phase \in {"send", "done"}
      /\ UNCHANGED <<stored, open, phase, start, left>> /\ flight' \subseteq flight
  BY <1>1 DEF Answered
<1>4. ring.cnt - 1 \in 0..Size /\ left + waiting <= ring.cnt
  BY <1>2, <1>3 DEF RingInv, CountCoversAnswers
<1>5. <<>> \in Seq(Code)
  OBVIOUS
<1>6. ring' = [ring EXCEPT !.cnt = ring.cnt - 1, !.removed = TRUE, !.log = <<>>]
  BY <1>1, <1>2 DEF Ring
<1>7. ring' \in Ring /\ ring'.cnt = ring.cnt - 1
  BY <1>2, <1>4, <1>5, <1>6 DEF Ring
<1>8. RTypeOK'
  BY <1>1, <1>2, <1>3, <1>7 DEF RTypeOK
<1>9. RingInv'
  BY <1>1, <1>2, <1>3, <1>4, <1>7 DEF RingInv, CountCoversAnswers
<1> QED
  BY <1>8, <1>9

LEMMA RNextInv == RTypeOK /\ RingInv /\ [RNext]_rvars => RTypeOK' /\ RingInv'
<1> SUFFICES ASSUME RTypeOK, RingInv, [RNext]_rvars PROVE RTypeOK' /\ RingInv'
  OBVIOUS
<1> USE DEF RingInv, CountCoversAnswers
<1>0. /\ ring.cnt \in 0..Size /\ left \in 0..Size /\ waiting \in 0..Size
      /\ Size \in Nat /\ stored.cnt \in 0..Size
  BY RingAssumption DEF RTypeOK, Ring
<1>1. CASE UNCHANGED rvars
  BY <1>1 DEF RTypeOK, rvars, task
<1>2. CASE SyncOk
  BY <1>2 DEF SyncOk, RTypeOK, task
<1>3. CASE Boot \/ OpenFails \/ LoadRingFails
  BY <1>3 DEF Boot, OpenFails, LoadRingFails, RTypeOK
<1>9. CASE LoadRing
  <2>1. ring' \in Ring /\ ring'.cnt >= 0
    BY <1>9, StartTypes DEF LoadRing, RTypeOK
  <2> QED
    BY <1>9, <2>1 DEF LoadRing, RTypeOK
<1>10. CASE BlankBoot
  <2>1. ring' \in Ring /\ ring'.cnt >= 0
    BY <1>10, StartTypes DEF BlankBoot, RTypeOK
  <2> QED
    BY <1>10, <2>1 DEF BlankBoot, RTypeOK
<1>11. CASE FactoryReset
  <2>1. ring' \in Ring /\ ring'.cnt >= 0 /\ stored' \in Ring
    BY <1>11, EmptyTypes, EmptyCount DEF FactoryReset, RTypeOK
  <2> QED
    BY <1>11, <2>1 DEF FactoryReset, RTypeOK
<1>4. CASE Restart
  <2>1. 0 \in Slot /\ 0 \in 0..Size
    BY RingAssumption DEF Slot
  <2>2. ring' \in Ring /\ ring'.cnt >= 0
    BY <1>4, StartTypes DEF Restart, RTypeOK
  <2>3. RTypeOK'
    BY <1>4, <2>1, <2>2 DEF Restart, RTypeOK
  <2>4. RingInv'
    BY <1>4, <2>2 DEF Restart
  <2> QED
    BY <2>3, <2>4
<1>5. CASE ReadStart
  <2>1. 0 \in Slot /\ ring.idx \in Slot
    BY RingAssumption DEF Slot, RTypeOK, Ring
  <2> QED
    BY <1>0, <1>5, <2>1 DEF ReadStart, RTypeOK
<1>6. CASE SendOne
  <2>1. Next1(start) \in Slot /\ start \in Slot
    BY NextIndex DEF RTypeOK
  <2>2. left' \in 0..Size /\ waiting' \in 0..Size /\ left' + waiting' <= ring.cnt
    BY <1>0, <1>6 DEF SendOne, ReadCode
  <2> QED
    BY <1>0, <1>6, <2>1, <2>2 DEF SendOne, ReadCode, RTypeOK
<1>7. CASE SendDone
  BY <1>7 DEF SendDone, RTypeOK
<1>8. CASE NotAccepted
  <2>1. /\ waiting > 0 /\ waiting' = waiting - 1 /\ phase \in {"send", "done"}
        /\ UNCHANGED <<ring, nest, stored, open, phase, start, left>>
        /\ flight' \subseteq flight
    BY <1>8 DEF NotAccepted, Answered
  <2> QED
    BY <1>0, <2>1 DEF RTypeOK
<1> QED
  BY <1>1, <1>2, <1>3, <1>4, <1>5, <1>6, <1>7, <1>8, <1>9, <1>10, <1>11,
     AddInv, SyncFailsInv, AcceptedInv
  DEF RNext

-----------------------------------------------------------------------------
LEMMA RInductive == RSpec => [](RTypeOK /\ RingInv)
<1>1. RInit => RTypeOK /\ RingInv
  BY RInitInv
<1>2. RTypeOK /\ RingInv /\ [RNext]_rvars => (RTypeOK /\ RingInv)'
  BY RNextInv
<1> QED
  BY <1>1, <1>2, PTL DEF RSpec

\* err_idx and err_start index the array code, and err_cnt stays within it
\* (RTypeOK), through errors, saves that fail, answers and restarts.
THEOREM IndicesInRange == RSpec => []RTypeOK
BY RInductive, PTL

\* bsp_error_remove never decrements a count of zero (CountCoversAnswers).
THEOREM CountNeverUnderflows == RSpec => []CountCoversAnswers
<1>1. RingInv => CountCoversAnswers
  BY DEF RingInv
<1> QED
  BY <1>1, RInductive, PTL

\* bsp_error_add and sys_nvs_store nest no deeper than three adds
\* (RecursionBounded).
THEOREM RecursionEnds == RSpec => []RecursionBounded
<1>1. RingInv => RecursionBounded
  BY DEF RingInv, RecursionBounded
<1> QED
  BY <1>1, RInductive, PTL
-----------------------------------------------------------------------------
(* What a boot reads.                                                      *)

\* Where the k-th oldest code is
Oldest(r)   == IF r.cnt >= Size THEN r.idx ELSE 0
Place(r, k) == IF Oldest(r) + k - 1 >= Size THEN Oldest(r) + k - 1 - Size
               ELSE Oldest(r) + k - 1

\* As long as nothing was removed, the ring holds the newest codes recorded; one
\* that is not full yet fills up from slot 0, which is why reading may start
\* there.  It holds all of them unless it was started over.
Aligned(r) ==
  /\ Len(r.log) <= Size
  /\ ~r.removed => /\ r.cnt <= Len(r.log)
                   /\ ~r.lost => Len(r.log) = r.cnt
                   /\ r.cnt < Size => r.idx = r.cnt
                   /\ \A k \in 1..r.cnt :
                        r.code[Place(r, k)] = r.log[Len(r.log) - (r.cnt - k)]

LogInv == Aligned(ring) /\ Aligned(stored)

LEMMA EmptyAligned == Aligned(Empty)
BY RingAssumption DEF Aligned, Empty

\* The ring a boot begins with
LEMMA StartAligned ==
  \A r \in Ring : Aligned(r) => Aligned(Blank(r)) /\ Aligned(ErrorInit(r))
<1> SUFFICES ASSUME NEW r \in Ring, Aligned(r)
             PROVE Aligned(Blank(r)) /\ Aligned(ErrorInit(r))
  OBVIOUS
<1>1. r.log \in Seq(Code) /\ r.cnt \in 0..Size /\ Size \in Nat /\ Size >= 2
      /\ Len(r.log) \in Nat /\ Len(r.log) <= Size
  BY RingAssumption DEF Ring, Aligned
<1>2. ASSUME NEW q, q.idx = 0, q.cnt = 0, q.log = r.log, ~q.lost => Len(r.log) = 0
      PROVE  Aligned(q)
  BY <1>1, <1>2 DEF Aligned
<1>3. Aligned(Blank(r))
  <2> DEFINE q == Blank(r)
  <2>1. q.idx = 0 /\ q.cnt = 0 /\ q.log = r.log /\ q.lost = (r.log # <<>>)
    BY DEF Blank, Empty
  <2>2. ~q.lost => Len(r.log) = 0
    BY <1>1, <2>1
  <2> HIDE DEF q
  <2>3. Aligned(q)
    BY <1>2, <2>1, <2>2
  <2> QED
    BY <2>3 DEF q
<1>4. Aligned(ErrorInit(r))
  <2>1. CASE r.cnt > 0
    BY <2>1 DEF ErrorInit
  <2>2. CASE ~(r.cnt > 0) /\ r.removed
    BY <2>2, EmptyAligned DEF ErrorInit
  <2>3. CASE ~(r.cnt > 0) /\ ~r.removed
    <3> DEFINE q == ErrorInit(r)
    <3>1. q.idx = 0 /\ q.cnt = 0 /\ q.log = r.log /\ q.lost = r.lost
      BY <2>3 DEF ErrorInit, Empty
    <3>2. r.cnt = 0
      BY <1>1, <2>3
    <3>3. ~r.lost => Len(r.log) = 0
      BY <2>3, <3>2 DEF Aligned
    <3> HIDE DEF q
    <3>4. Aligned(q)
      BY <1>2, <3>1, <3>3
    <3> QED
      BY <3>4 DEF q
  <2> QED
    BY <2>1, <2>2, <2>3
<1> QED
  BY <1>3, <1>4

\* Recent keeps the end of a log.
LEMMA RecentEnd ==
  ASSUME NEW l \in Seq(Code), Len(l) <= Size + 1
  PROVE  /\ Recent(l) \in Seq(Code)
         /\ Len(Recent(l)) = IF Len(l) > Size THEN Size ELSE Len(l)
         /\ \A d \in 0..Len(Recent(l))-1 : Recent(l)[Len(Recent(l)) - d] = l[Len(l) - d]
<1>1. Size \in Nat /\ Size >= 2 /\ Len(l) \in Nat
  BY RingAssumption
<1>2. CASE Len(l) > Size
  <2>1. Len(l) = Size + 1 /\ Recent(l) = SubSeq(l, 2, Size + 1)
    BY <1>1, <1>2 DEF Recent
  <2>2. /\ SubSeq(l, 2, Size + 1) \in Seq(Code) /\ Len(SubSeq(l, 2, Size + 1)) = Size
        /\ \A j \in 1..Size : SubSeq(l, 2, Size + 1)[j] = l[j + 1]
    BY <1>1, <2>1
  <2> QED
    BY <1>1, <1>2, <2>1, <2>2
<1>3. CASE ~(Len(l) > Size)
  <2>1. Recent(l) = l
    BY <1>3 DEF Recent
  <2> QED
    BY <1>3, <2>1
<1> QED
  BY <1>2, <1>3

LEMMA ModuloIsPlace ==
  \A r \in Ring : \A k \in 1..r.cnt :
    (Oldest(r) + k - 1) % Size = Place(r, k) /\ Place(r, k) \in Slot
<1> SUFFICES ASSUME NEW r \in Ring, NEW k \in 1..r.cnt
             PROVE (Oldest(r) + k - 1) % Size = Place(r, k) /\ Place(r, k) \in Slot
  OBVIOUS
<1>1. /\ r.cnt \in 0..Size /\ Oldest(r) \in 0..Size-1
      /\ Size \in Nat /\ Size > 0
  BY RingAssumption DEF Ring, Slot, Oldest
<1>2. Oldest(r) + k - 1 \in 0..2*Size-2
  BY <1>1
<1>3. \A a \in Nat : a < Size => a % Size = a
  BY <1>1
<1>4. \A a \in Nat : a >= Size /\ a < 2 * Size => a % Size = a - Size
  BY <1>1
<1> QED
  BY <1>1, <1>2, <1>3, <1>4 DEF Place, Slot

LEMMA WriteAligned ==
  ASSUME RTypeOK, Aligned(ring), NEW e \in Code, Write(e)
  PROVE  Aligned(ring')
<1> DEFINE log0 == Append(ring.log, e)
           L    == Len(ring.log)
<1>1. /\ ring \in Ring /\ ring.idx \in Slot /\ ring.cnt \in 0..Size
      /\ Size \in Nat /\ Size >= 2 /\ ring.log \in Seq(Code)
      /\ ring.code \in [Slot -> Code \cup {None}]
      /\ L \in Nat /\ L <= Size
  BY RingAssumption DEF RTypeOK, Ring, Aligned
<1>2. /\ ring'.code = [ring.code EXCEPT ![ring.idx] = e]
      /\ ring'.idx = Next1(ring.idx)
      /\ ring'.cnt = IF ring.cnt < Size THEN ring.cnt + 1 ELSE ring.cnt
      /\ ring'.removed = ring.removed /\ ring'.lost = ring.lost
      /\ ring'.log = IF ring.removed THEN ring.log ELSE Recent(log0)
  BY <1>1 DEF Write, Ring
<1>0. CASE ring.removed
  BY <1>0, <1>1, <1>2 DEF Aligned
<1>9. CASE ~ring.removed
  <2>1. /\ ring.cnt <= L
        /\ ~ring.lost => L = ring.cnt
        /\ ring.cnt < Size => ring.idx = ring.cnt
        /\ \A k \in 1..ring.cnt : ring.code[Place(ring, k)] = ring.log[L - (ring.cnt - k)]
    BY <1>9 DEF Aligned
  <2>2. /\ log0 \in Seq(Code) /\ Len(log0) = L + 1
        /\ \A k \in 1..L : log0[k] = ring.log[k]
        /\ log0[L + 1] = e
    BY <1>1
  <2>10. ring'.log = Recent(log0)
    BY <1>2, <1>9
  <2> HIDE DEF log0, L
  <2>3. /\ Len(ring'.log) = IF L < Size THEN L + 1 ELSE Size
        /\ \A d \in 0..Len(ring'.log)-1 : ring'.log[Len(ring'.log) - d] = log0[L + 1 - d]
    <3>1. Len(log0) <= Size + 1 /\ L + 1 = Len(log0)
      BY <1>1, <2>2
    <3>2. /\ Len(Recent(log0)) = IF Len(log0) > Size THEN Size ELSE Len(log0)
          /\ \A d \in 0..Len(Recent(log0))-1 :
               Recent(log0)[Len(Recent(log0)) - d] = log0[Len(log0) - d]
      BY <2>2, <3>1, RecentEnd
    <3> QED
      BY <1>1, <2>10, <3>1, <3>2
  <2>4. /\ ring'.cnt \in 1..Len(ring'.log)
        /\ ~ring'.lost => Len(ring'.log) = ring'.cnt
        /\ Len(ring'.log) <= Size
    BY <1>1, <1>2, <2>1, <2>3
  <2>5. ASSUME NEW k \in 1..ring'.cnt
        PROVE  ring'.log[Len(ring'.log) - (ring'.cnt - k)] = log0[L + 1 - (ring'.cnt - k)]
    <3> DEFINE d == ring'.cnt - k
    <3>1. d \in 0..Len(ring'.log)-1
      BY <1>1, <2>3, <2>4, <2>5
    <3> HIDE DEF d
    <3>2. ring'.log[Len(ring'.log) - d] = log0[L + 1 - d]
      BY <2>3, <3>1
    <3> QED
      BY <3>2 DEF d
  <2>6. CASE ring.cnt < Size
    <3>1. ring'.cnt = ring.cnt + 1 /\ ring.idx = ring.cnt
      BY <1>2, <2>1, <2>6
    <3>2. ring'.cnt < Size => ring'.idx = ring'.cnt
      BY <1>1, <1>2, <3>1 DEF Next1
    <3>3. Oldest(ring) = 0 /\ Oldest(ring') = 0
      BY <1>1, <1>2, <2>6, <3>1 DEF Oldest, Next1
    <3>4. ASSUME NEW k \in 1..ring'.cnt
          PROVE  ring'.code[Place(ring', k)] = log0[L + 1 - (ring'.cnt - k)]
      <4>1. Place(ring', k) = k - 1 /\ k - 1 \in Slot
        BY <1>1, <2>6, <3>1, <3>3 DEF Place, Slot
      <4>2. CASE k = ring.cnt + 1
        <5>1. ring'.code[k - 1] = e
          BY <1>1, <1>2, <3>1, <4>1, <4>2
        <5>2. L + 1 - (ring'.cnt - k) = L + 1
          BY <1>1, <3>1, <4>2
        <5> QED
          BY <2>2, <4>1, <5>1, <5>2
      <4>3. CASE k \in 1..ring.cnt
        <5>1. Place(ring, k) = k - 1 /\ k - 1 # ring.idx
          BY <1>1, <2>6, <3>1, <3>3, <4>3 DEF Place
        <5>2. ring'.code[k - 1] = ring.code[k - 1]
          BY <1>1, <1>2, <4>1, <5>1
        <5>3. L + 1 - (ring'.cnt - k) = L - (ring.cnt - k) /\ L - (ring.cnt - k) \in 1..L
          BY <1>1, <2>1, <3>1, <4>3
        <5> QED
          BY <2>1, <2>2, <4>1, <4>3, <5>1, <5>2, <5>3
      <4> QED
        BY <1>1, <3>1, <4>2, <4>3
    <3> QED
      BY <2>4, <2>5, <3>2, <3>4 DEF Aligned
  <2>7. CASE ring.cnt = Size
    <3>1. /\ ring'.cnt = Size /\ L = Size
          /\ Oldest(ring) = ring.idx /\ Oldest(ring') = Next1(ring.idx)
      BY <1>1, <1>2, <2>1, <2>7 DEF Oldest
    <3>2. ASSUME NEW k \in 1..Size
          PROVE  ring'.code[Place(ring', k)] = log0[L + 1 - (ring'.cnt - k)]
      <4>0. L + 1 - (ring'.cnt - k) = k + 1
        BY <1>1, <3>1
      <4>1. CASE k = Size
        <5>1. Place(ring', k) = ring.idx
          BY <1>1, <3>1, <4>1 DEF Place, Next1, Slot
        <5>2. ring'.code[ring.idx] = e
          BY <1>1, <1>2
        <5>3. k + 1 = L + 1
          BY <1>1, <3>1, <4>1
        <5> QED
          BY <2>2, <4>0, <5>1, <5>2, <5>3
      <4>2. CASE k < Size
        <5>1. /\ Place(ring', k) = Place(ring, k + 1) /\ Place(ring, k + 1) # ring.idx
              /\ Place(ring, k + 1) \in Slot
          <6>1. k \in 1..Size-1 /\ ring.idx \in 0..Size-1 /\ Size \in Nat
            BY <1>1, <4>2 DEF Slot
          <6>2. Place(ring, k + 1) = IF ring.idx + k >= Size THEN ring.idx + k - Size
                                     ELSE ring.idx + k
            BY <3>1, <6>1 DEF Place
          <6>3. Place(ring', k) = IF Next1(ring.idx) + k - 1 >= Size
                                  THEN Next1(ring.idx) + k - 1 - Size
                                  ELSE Next1(ring.idx) + k - 1
            BY <3>1 DEF Place
          <6> QED
            BY <6>1, <6>2, <6>3 DEF Next1, Slot
        <5> DEFINE j == k + 1
        <5>2. j \in 1..ring.cnt /\ L - (ring.cnt - j) = j /\ j \in 1..L
          BY <1>1, <2>7, <3>1, <4>2
        <5>3. ring'.code[Place(ring, j)] = ring.code[Place(ring, j)]
          BY <1>1, <1>2, <5>1
        <5>4. Place(ring', k) = Place(ring, j) /\ L + 1 - (ring'.cnt - k) = j
          BY <4>0, <5>1
        <5> HIDE DEF j
        <5>5. ring.code[Place(ring, j)] = ring.log[j] /\ log0[j] = ring.log[j]
          BY <2>1, <2>2, <5>2
        <5> QED
          BY <5>3, <5>4, <5>5
      <4> QED
        BY <1>1, <4>1, <4>2
    <3>3. \A k \in 1..ring'.cnt :
            ring'.code[Place(ring', k)] = ring'.log[Len(ring'.log) - (ring'.cnt - k)]
      BY <2>5, <3>1, <3>2
    <3>4. ring'.cnt <= Len(ring'.log) /\ ~(ring'.cnt < Size)
      BY <1>1, <2>4, <3>1
    <3> QED
      BY <2>4, <3>3, <3>4 DEF Aligned
  <2> QED
    BY <1>1, <2>6, <2>7
<1> QED
  BY <1>0, <1>9

LEMMA NextLogInv == RTypeOK /\ LogInv /\ [RNext]_rvars => LogInv'
<1> SUFFICES ASSUME RTypeOK, LogInv, [RNext]_rvars PROVE LogInv'
  OBVIOUS
<1>0. ASSUME NEW r \in {ring, stored, Empty, Blank(stored), ErrorInit(ring), ErrorInit(stored)},
             NEW q \in {ring, stored, Empty},
             ring' = r, stored' = q
      PROVE  LogInv'
  <2>1. Aligned(r) /\ Aligned(q)
    BY <1>0, StartAligned, EmptyAligned DEF LogInv, RTypeOK
  <2>2. Aligned(ring') /\ Aligned(stored')
    BY <1>0, <2>1
  <2> QED
    BY <2>2 DEF LogInv, Aligned, Place, Oldest
<1>1. ASSUME NEW e \in Code, Write(e) PROVE LogInv'
  <2>1. Aligned(ring') /\ stored' = stored
    BY <1>1, WriteAligned DEF LogInv, Write
  <2> QED
    BY <2>1 DEF LogInv, Aligned, Place, Oldest
<1>2. CASE Add \/ LoadFails
  BY <1>1, <1>2, RingAssumption DEF Add, LoadFails, Added
<1>3. CASE SyncFails
  BY <1>0, <1>1, <1>3, RingAssumption DEF SyncFails, Added
<1>4. CASE SyncOk \/ Restart
  BY <1>0, <1>4 DEF SyncOk, Restart
<1>5. CASE LoadRing \/ BlankBoot \/ FactoryReset
  BY <1>0, <1>5 DEF LoadRing, BlankBoot, FactoryReset
<1>6. CASE UpdateAccepted
  <2>1. ring'.removed /\ ring'.log = <<>> /\ stored' = stored
    BY <1>6 DEF UpdateAccepted, Answered, Remove, RTypeOK, Ring
  <2>2. Aligned(ring')
    BY <2>1, RingAssumption DEF Aligned
  <2> QED
    BY <2>1, <2>2 DEF LogInv, Aligned, Place, Oldest
<1>7. CASE \/ Boot \/ OpenFails \/ LoadRingFails
           \/ ReadStart \/ SendOne \/ SendDone \/ NotAccepted \/ UNCHANGED rvars
  BY <1>0, <1>7 DEF Boot, OpenFails, LoadRingFails, ReadStart, SendOne, SendDone,
     NotAccepted, Answered, rvars
<1> QED
  BY <1>2, <1>3, <1>4, <1>5, <1>6, <1>7 DEF RNext

LEMMA ReadStep ==
  RTypeOK /\ LogInv /\ [RNext]_rvars =>
    (phase = "connect" /\ phase' = "send" /\ ~ring.removed =>
       /\ left' <= Len(ring.log)
       /\ ~ring.lost => left' = Len(ring.log)
       /\ \A k \in 1..left' :
            ring.code[(start' + k - 1) % Size] = ring.log[Len(ring.log) - left' + k])
<1> SUFFICES ASSUME RTypeOK, LogInv, [RNext]_rvars,
                    phase = "connect", phase' = "send", ~ring.removed
             PROVE  /\ left' <= Len(ring.log)
                    /\ ~ring.lost => left' = Len(ring.log)
                    /\ \A k \in 1..left' :
                         ring.code[(start' + k - 1) % Size]
                           = ring.log[Len(ring.log) - left' + k]
  OBVIOUS
<1>1. ReadStart
  BY DEF RNext, Add, Added, Write, SyncOk, SyncFails, Boot, OpenFails, LoadFails,
     LoadRing, LoadRingFails, FactoryReset, BlankBoot, Restart, SendOne, SendDone,
     UpdateAccepted, NotAccepted, Answered, task, rvars
<1>2. left' = ring.cnt /\ start' = Oldest(ring) /\ ring \in Ring
  BY <1>1 DEF ReadStart, Oldest, RTypeOK
<1>3. /\ ring.cnt <= Len(ring.log)
      /\ ~ring.lost => Len(ring.log) = ring.cnt
      /\ \A k \in 1..ring.cnt :
           ring.code[Place(ring, k)] = ring.log[Len(ring.log) - (ring.cnt - k)]
  BY DEF LogInv, Aligned
<1>4. ASSUME NEW k \in 1..ring.cnt
      PROVE  ring.code[(Oldest(ring) + k - 1) % Size] = ring.log[Len(ring.log) - ring.cnt + k]
  <2>1. (Oldest(ring) + k - 1) % Size = Place(ring, k)
    BY <1>2, ModuloIsPlace
  <2>2. Len(ring.log) - (ring.cnt - k) = Len(ring.log) - ring.cnt + k
    BY <1>2 DEF Ring
  <2>3. ring.code[Place(ring, k)] = ring.log[Len(ring.log) - (ring.cnt - k)]
    BY <1>3
  <2> QED
    BY <2>1, <2>2, <2>3
<1> QED
  BY <1>2, <1>3, <1>4

\* Until a first code is removed, sys_aws_send_error_code starts to read at the
\* oldest code and goes on to the newest, for a ring of any size, full or not
\* (ReadsInOrder); it is all the ring has room for, unless a setting that could
\* not be loaded made the ring start over.
THEOREM NewestAreRead == RSpec => ReadsInOrder
<1>1. RInit => LogInv
  BY EmptyAligned DEF RInit, LogInv
<1> QED
  BY <1>1, IndicesInRange, NextLogInv, ReadStep, PTL DEF RSpec, ReadsInOrder
=============================================================================
