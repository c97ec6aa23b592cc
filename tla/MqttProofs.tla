------------------------------ MODULE MqttProofs ------------------------------
(***************************************************************************)
(* What the MQTT client keeps for any topics, number of handlers and bounds *)
(* on packets and nesting, and what is true of the bytes of every packet.  *)
(*                                                                         *)
(* The invariant Core says what the stack of calls may look like (Stack),  *)
(* that the state of the client is one that suits the innermost call       *)
(* (Suits), and that a client that takes itself for connected has the one  *)
(* context of its session; it bears NoCallStuck and OneContext.  ServedInv *)
(* adds what the calls under way have asked the broker for, and bears      *)
(* HandlersAreServed; PendingInv adds that the slot a subscription has     *)
(* chosen stays free until it is used, and bears AcceptedHasHandler.       *)
(*                                                                         *)
(* Of the bytes, WireInv says that those on the way, those that have       *)
(* arrived and those in the buffer are a piece of one stream, the packets  *)
(* the broker has sent, and that the piece begins where a packet ends      *)
(* (Stream).  It is kept as long as the history is Whole; with RoundTrip   *)
(* it bears ReadWhole.  BuffersHold needs the types only.                  *)
(***************************************************************************)
EXTENDS MqttClient, MqttWire, FiniteSetTheorems, WellFoundedInduction, SequenceTheorems, TLAPS

-----------------------------------------------------------------------------
(* The first free slot.                                                    *)

\* Any set of natural numbers has a least one.
LEMMA LeastElement ==
  ASSUME NEW T, T \subseteq Nat, T # {}
  PROVE  \E m \in T : \A n \in T : m <= n
<1> DEFINE R == OpToRel(<, Nat)
<1>1. IsWellFoundedOn(R, Nat)
  BY NatLessThanWellFounded
<1>2. \A x, y \in Nat : x < y => <<x, y>> \in R
  BY DEF OpToRel
<1> HIDE DEF R
<1>3. PICK m \in T : \A n \in T : ~(<<n, m>> \in R)
  BY <1>1, WFMin
<1>4. \A n \in T : ~(n < m)
  BY <1>2, <1>3
<1>5. \A n \in T : m <= n
  BY <1>4
<1> QED BY <1>5

\* get_free_message_handler_index finds the first slot that is free, or none.
LEMMA FirstFreeIsFree ==
  /\ FirstFree \in 1..NumHandlers + 1
  /\ FirstFree \notin Used
  /\ \A r \in 1..FirstFree - 1 : r \in Used
<1> DEFINE T == {s \in 1..NumHandlers + 1 : s \notin Used}
<1>1. NumHandlers \in Nat \ {0}
  BY ClientAssumption
<1>2. NumHandlers + 1 \in T
  BY <1>1 DEF Used, Slot
<1>3. PICK m \in T : \A n \in T : m <= n
  <2>1. T \subseteq Nat /\ T # {}
    BY <1>1, <1>2
  <2> HIDE DEF T
  <2> QED BY <2>1, LeastElement
<1>4. m \in 1..NumHandlers + 1 /\ m \notin Used /\ \A r \in 1..m - 1 : r \in Used
  BY <1>1, <1>3
<1> HIDE DEF T
<1> QED BY <1>4 DEF FirstFree

-----------------------------------------------------------------------------
(* The calls under way.                                                    *)

Plain == {"subscribe", "unsubscribe", "publish"}

\* What is known of a single call: a subscription has chosen its slot, and the
\* disconnect handler connects by itself only if the client does not.
CallOK(c) ==
  /\ c \in Call
  /\ c.op = "subscribe" => c.slot \in Slot /\ c.topic \in Topic
  /\ c.op = "unsubscribe" => c.topic \in Topic
  /\ c.op = "deliver" => c.slot > 0
  /\ c.op = "lost" => c.slot = 0 \/ (c.slot = 1 /\ ~auto)

\* c may be the outermost call: it is made at rest.
Outermost(c) == c.op = "yield" \/ (c.op \in Request /\ c.saved = "idle")

\* c may be called within d, and remembers the state that belongs to d.
CalledBy(c, d) ==
  \/ c.op = "deliver" /\ d.op \in Request /\ c.saved = d.op
  \/ c.op = "deliver" /\ d.op = "yield" /\ c.saved \in {"yield", "idle"}
  \/ c.op \in Plain /\ d.op = "deliver" /\ c.saved = "callback"
  \/ c.op = "resubscribe" /\ d.op = "yield" /\ c.saved = "idle"
  \/ c.op = "resubscribe" /\ d.op = "lost" /\ d.slot = 1 /\ c.saved = "idle"
  \/ c.op = "lost" /\ d.op = "yield"

Stack(cs) ==
  /\ cs \in Seq(Call)
  /\ \A i \in 1..Len(cs) : CallOK(cs[i])
  /\ cs # <<>> => Outermost(cs[Len(cs)])
  /\ \A i \in 1..Len(cs) - 1 : CalledBy(cs[i], cs[i + 1])

LEMMA PushStack ==
  ASSUME NEW cs, Stack(cs), NEW c, CallOK(c),
         cs = <<>> => Outermost(c),
         cs # <<>> => CalledBy(c, cs[1])
  PROVE  /\ Stack(<<c>> \o cs)
         /\ <<c>> \o cs # <<>> /\ (<<c>> \o cs)[1] = c
         /\ Len(<<c>> \o cs) = Len(cs) + 1
         /\ \A i \in 1..Len(cs) : (<<c>> \o cs)[i + 1] = cs[i]
         /\ \A i \in 1..Len(cs) + 1 : (<<c>> \o cs)[i] = IF i = 1 THEN c ELSE cs[i - 1]
<1> DEFINE ds == <<c>> \o cs
<1>1. cs \in Seq(Call) /\ c \in Call
  BY DEF Stack, CallOK
<1>2. ds \in Seq(Call) /\ Len(ds) = Len(cs) + 1 /\ Len(cs) \in Nat
  BY <1>1
<1>3. \A i \in 1..Len(cs) + 1 : ds[i] = IF i = 1 THEN c ELSE cs[i - 1]
  BY <1>1
<1>4. (cs = <<>>) <=> (Len(cs) = 0)
  BY <1>1
<1> HIDE DEF ds
<1>5. ds # <<>> /\ ds[1] = c /\ \A i \in 1..Len(cs) : ds[i + 1] = cs[i]
  BY <1>2, <1>3
<1>6. \A i \in 1..Len(ds) : CallOK(ds[i])
  BY <1>2, <1>3 DEF Stack
<1>7. Outermost(ds[Len(ds)])
  <2>1. CASE cs = <<>>
    BY <1>2, <1>4, <1>5, <2>1
  <2>2. CASE cs # <<>>
    <3>1. Len(cs) \in 1..Len(cs) /\ ds[Len(ds)] = cs[Len(cs)]
      BY <1>2, <1>4, <1>5, <2>2
    <3> QED BY <2>2, <3>1 DEF Stack
  <2> QED BY <2>1, <2>2
<1>8. ASSUME NEW i \in 1..Len(ds) - 1
      PROVE  CalledBy(ds[i], ds[i + 1])
  <2>1. CASE i = 1
    <3>1. cs # <<>> /\ ds[i] = c /\ ds[i + 1] = cs[1]
      BY <1>2, <1>3, <1>4, <2>1
    <3> QED BY <3>1
  <2>2. CASE i # 1
    <3>1. i - 1 \in 1..Len(cs) - 1 /\ ds[i] = cs[i - 1] /\ ds[i + 1] = cs[(i - 1) + 1]
      BY <1>2, <1>3, <2>2
    <3> QED BY <3>1 DEF Stack
  <2> QED BY <2>1, <2>2
<1> QED BY <1>2, <1>3, <1>5, <1>6, <1>7, <1>8 DEF Stack, ds

LEMMA PopStack ==
  ASSUME NEW cs, Stack(cs), cs # <<>>
  PROVE  /\ Stack(Tail(cs))
         /\ Len(Tail(cs)) = Len(cs) - 1
         /\ \A i \in 1..Len(cs) - 1 : Tail(cs)[i] = cs[i + 1]
<1> DEFINE ds == Tail(cs)
<1>1. cs \in Seq(Call) /\ Len(cs) \in Nat /\ Len(cs) > 0
  BY DEF Stack
<1>2. ds \in Seq(Call) /\ Len(ds) = Len(cs) - 1 /\ \A i \in 1..Len(cs) - 1 : ds[i] = cs[i + 1]
  BY <1>1
<1>3. ds # <<>> => Len(ds) > 0
  BY <1>2
<1> HIDE DEF ds
<1>4. \A i \in 1..Len(ds) : CallOK(ds[i])
  BY <1>1, <1>2 DEF Stack
<1>5. ds # <<>> => Outermost(ds[Len(ds)])
  BY <1>1, <1>2, <1>3 DEF Stack
<1>6. \A i \in 1..Len(ds) - 1 : CalledBy(ds[i], ds[i + 1])
  BY <1>1, <1>2 DEF Stack
<1> QED BY <1>2, <1>4, <1>5, <1>6 DEF Stack, ds

\* A stack stays one when topics change, or the slot of the innermost call.
LEMMA SameStack ==
  ASSUME NEW cs, Stack(cs), NEW ds \in Seq(Call), Len(ds) = Len(cs),
         \A i \in 1..Len(cs) :
           /\ CallOK(ds[i]) /\ ds[i].op = cs[i].op /\ ds[i].saved = cs[i].saved
           /\ i > 1 => ds[i].slot = cs[i].slot
  PROVE  Stack(ds)
<1>1. cs \in Seq(Call) /\ Len(cs) \in Nat
  BY DEF Stack
<1>2. ds # <<>> => cs # <<>> /\ Len(cs) \in 1..Len(cs)
  BY <1>1
<1>3. ds # <<>> => Outermost(ds[Len(ds)])
  BY <1>2 DEF Stack, Outermost
<1>4. ASSUME NEW i \in 1..Len(ds) - 1 PROVE CalledBy(ds[i], ds[i + 1])
  <2>1. i \in 1..Len(cs) /\ i + 1 \in 1..Len(cs) /\ i + 1 > 1
    BY <1>1
  <2>2. CalledBy(cs[i], cs[i + 1])
    BY <1>1 DEF Stack
  <2> QED BY <2>1, <2>2 DEF CalledBy
<1> QED BY <1>3, <1>4 DEF Stack

LEMMA OverwrittenStack ==
  ASSUME NEW cs, Stack(cs)
  PROVE  /\ Stack(Overwritten(cs)) /\ Len(Overwritten(cs)) = Len(cs)
         /\ \A i \in 1..Len(cs) :
              /\ Overwritten(cs)[i].op = cs[i].op /\ Overwritten(cs)[i].saved = cs[i].saved
              /\ Overwritten(cs)[i].slot = cs[i].slot /\ Overwritten(cs)[i].last = cs[i].last
              /\ cs[i].op # "deliver" => Overwritten(cs)[i] = cs[i]
<1> DEFINE O(c) == IF c.op = "deliver" THEN [c EXCEPT !.topic = Stale] ELSE c
           ds == Overwritten(cs)
<1>1. cs \in Seq(Call) /\ Len(cs) \in Nat /\ DOMAIN cs = 1..Len(cs)
  BY DEF Stack
<1>2. ds = [i \in 1..Len(cs) |-> O(cs[i])]
  BY <1>1 DEF Overwritten
<1>3. ASSUME NEW c, CallOK(c)
      PROVE  /\ O(c) \in Call /\ O(c).op = c.op /\ O(c).saved = c.saved /\ O(c).slot = c.slot
             /\ O(c).last = c.last /\ (c.op # "deliver" => O(c) = c)
             /\ CallOK(O(c))
  <2>1. c \in Call
    BY <1>3 DEF CallOK
  <2>2. CASE c.op = "deliver"
    <3>1. O(c) = [c EXCEPT !.topic = Stale]
      BY <2>2
    <3>2. /\ O(c) \in Call /\ O(c).op = c.op /\ O(c).saved = c.saved /\ O(c).slot = c.slot
          /\ O(c).last = c.last
      BY <2>1, <3>1 DEF Call
    <3> HIDE DEF O
    <3> QED BY <1>3, <2>2, <3>2 DEF CallOK
  <2>3. CASE c.op # "deliver"
    <3>1. O(c) = c
      BY <2>3
    <3> HIDE DEF O
    <3> QED BY <1>3, <2>1, <3>1
  <2> QED BY <2>2, <2>3
<1> HIDE DEF O
<1>4. \A i \in 1..Len(cs) : ds[i] = O(cs[i]) /\ CallOK(cs[i])
  BY <1>2 DEF Stack
<1>5. ds \in Seq(Call) /\ Len(ds) = Len(cs)
  <2>1. ds \in [1..Len(cs) -> Call]
    BY <1>2, <1>3, <1>4
  <2> HIDE DEF ds
  <2> QED BY <1>1, <2>1
<1> HIDE DEF ds
<1>6. Stack(ds)
  BY <1>3, <1>4, <1>5, SameStack
<1> QED BY <1>3, <1>4, <1>5, <1>6 DEF ds
-----------------------------------------------------------------------------
(* The state of the client while it is in a call, and the TLS context.     *)

AtRest == {"initialized", "idle", "error", "manual", "pending"}

InCall(c, s) ==
  \/ c.op \in Request /\ s = c.op
  \/ c.op = "deliver" /\ s \in {"callback", "manual"}
  \/ c.op = "yield" /\ s \in {"yield", "idle", "manual", "pending"}
  \/ c.op = "lost" /\ c.slot = 0 /\ s \in {"manual", "error"}
  \/ c.op = "lost" /\ c.slot = 1 /\ s \in {"idle", "manual", "pending"}

\* A state the client may have when it is in the calls of a stack
Suits(cs, s) == IF cs # <<>> THEN InCall(cs[1], s) ELSE s \in AtRest

\* A connected client has a session, and one that a handler disconnected none.
HasSession ==
  /\ state \in Connected => session # "closed"
  /\ state = "manual" => session = "closed"

Control ==
  /\ auto \in AutoReconnect /\ state \in ClientState /\ tls \in Nat
  /\ session \in {"closed", "up", "broken"}
  /\ Stack(calls) /\ Suits(calls, state)
  /\ HasSession /\ OneContext

\* What is on its way has a topic if the model looks at it.
ToPacket   == [type : {"SUBSCRIBE", "UNSUBSCRIBE"}, topic : Topic]
              \cup [type : {"PUBLISH", "PINGREQ"}, topic : {None}]
FromPacket == [type : {"PUBLISH"}, topic : Topic]
              \cup [type : {"SUBACK", "UNSUBACK", "PUBACK", "PINGRESP"}, topic : {None}]

Packets == toBroker \in Seq(ToPacket) /\ fromBroker \in Seq(FromPacket)

Data ==
  /\ handlers \in [Slot -> Topic \cup {None}]
  /\ granted \in SUBSET Topic /\ ping \in BOOLEAN /\ wait \in Nat
  /\ held \in SUBSET Topic /\ dropped \in SUBSET Topic /\ restored \in BOOLEAN

Core == Control /\ Packets /\ Data

LEMMA TopCall ==
  ASSUME Control, Within
  PROVE  /\ calls \in Seq(Call) /\ Len(calls) > 0
         /\ CallOK(Top) /\ Top \in Call /\ InCall(Top, state)
         /\ Len(calls) = 1 \/ Len(calls) > 1
         /\ Len(calls) = 1 => Outermost(Top)
         /\ Len(calls) > 1 => CalledBy(Top, calls[2]) /\ CallOK(calls[2]) /\ calls[2] \in Call
         /\ Top.op = "yield" => Len(calls) = 1
         /\ Top.op = "lost" => Len(calls) = 2 /\ calls[2].op = "yield"
         /\ Top.op = "deliver" => Len(calls) > 1
<1>1. Stack(calls) /\ calls # <<>> /\ InCall(Top, state)
  BY DEF Control, Within, Suits, Top
<1>2. /\ calls \in Seq(Call) /\ Len(calls) > 0 /\ (Len(calls) = 1 \/ Len(calls) > 1)
      /\ Len(calls) > 1 => Len(calls) = 2 \/ Len(calls) > 2
  <2>1. calls \in Seq(Call) /\ Len(calls) \in Nat /\ Len(calls) # 0
    BY <1>1 DEF Stack
  <2>2. \A n \in Nat : n # 0 => n > 0 /\ (n = 1 \/ n > 1) /\ (n > 1 => n = 2 \/ n > 2)
    OBVIOUS
  <2> QED BY <2>1, <2>2, Zenon
<1>3. CallOK(Top) /\ Top \in Call
  <2>1. CallOK(calls[1])
    BY <1>1, <1>2 DEF Stack
  <2> QED BY <2>1 DEF Top, CallOK
<1>4. Len(calls) = 1 => Outermost(Top)
  BY <1>1, <1>2 DEF Stack, Top
<1>5. Len(calls) > 1 => CalledBy(Top, calls[2]) /\ CallOK(calls[2]) /\ calls[2] \in Call
  <2> SUFFICES ASSUME Len(calls) > 1
               PROVE  CalledBy(calls[1], calls[2]) /\ CallOK(calls[2]) /\ calls[2] \in Call
    BY DEF Top
  <2>1. 1 \in 1..Len(calls) - 1 /\ 2 \in 1..Len(calls) /\ 1 + 1 = 2
    BY <1>2
  <2>2. CallOK(calls[2]) /\ CalledBy(calls[1], calls[1 + 1])
    BY <1>1, <2>1 DEF Stack
  <2> QED BY <2>1, <2>2 DEF CallOK
<1>6. Top.op = "yield" => Len(calls) = 1
  BY <1>2, <1>5 DEF CalledBy, Plain
<1>7. Top.op = "deliver" => Len(calls) > 1
  BY <1>2, <1>4 DEF Outermost, Request
<1>8. Top.op = "lost" => Len(calls) = 2 /\ calls[2].op = "yield"
  <2> SUFFICES ASSUME Top.op = "lost" PROVE Len(calls) = 2 /\ calls[2].op = "yield"
    OBVIOUS
  <2>1. Len(calls) > 1 /\ calls[2].op = "yield"
    BY <1>2, <1>4, <1>5 DEF Outermost, Request, CalledBy, Plain
  <2>2. ~(Len(calls) > 2)
    <3> SUFFICES ASSUME Len(calls) > 2 PROVE FALSE
      OBVIOUS
    <3>1. 2 \in 1..Len(calls) - 1 /\ 2 + 1 = 3
      BY <1>2
    <3>2. CalledBy(calls[2], calls[2 + 1])
      BY <1>1, <3>1 DEF Stack
    <3> QED BY <2>1, <3>2 DEF CalledBy, Plain
  <2> QED BY <1>2, <2>1, <2>2
<1> QED BY <1>1, <1>2, <1>3, <1>4, <1>5, <1>6, <1>7, <1>8

\* A request that ends gives back the state of the call it was made in.
LEMMA AfterRequest ==
  ASSUME Control, Within, Top.op \in Request, NEW cs,
         cs = Tail(calls) \/ cs = Overwritten(Tail(calls))
  PROVE  /\ Stack(cs)
         /\ Top.saved \in Connected /\ Top.saved \in ClientState /\ Suits(cs, Top.saved)
         /\ Len(calls) > 1 /\ calls[2].op = "yield" => Suits(cs, "yield")
<1> DEFINE ds == Tail(calls)
<1>1. Stack(ds) /\ Len(ds) = Len(calls) - 1 /\ calls \in Seq(Call) /\ ds \in Seq(Call)
      /\ (Len(calls) > 1 => ds[1] = calls[2])
  BY TopCall, PopStack DEF Control, Within, Stack
<1>2. /\ Stack(cs) /\ Len(cs) = Len(ds)
      /\ Len(ds) > 0 => cs[1].op = ds[1].op /\ cs[1].saved = ds[1].saved /\ cs[1].slot = ds[1].slot
  <2>1. CASE cs = ds
    BY <1>1, <2>1
  <2>2. CASE cs = Overwritten(ds)
    <3> HIDE DEF ds
    <3>1. /\ Stack(Overwritten(ds)) /\ Len(Overwritten(ds)) = Len(ds)
          /\ \A i \in 1..Len(ds) :
               /\ Overwritten(ds)[i].op = ds[i].op /\ Overwritten(ds)[i].saved = ds[i].saved
               /\ Overwritten(ds)[i].slot = ds[i].slot
      BY <1>1, OverwrittenStack
    <3> QED BY <1>1, <2>2, <3>1
  <2> QED BY <2>1, <2>2
<1>3. cs # <<>> <=> Len(calls) > 1
  BY <1>1, <1>2, TopCall DEF Stack
<1> HIDE DEF ds
<1>4. /\ Len(calls) = 1 => Top.saved = "idle"
      /\ Len(calls) > 1 => \/ calls[2].op = "deliver" /\ Top.saved = "callback"
                           \/ calls[2].op = "yield" /\ Top.saved = "idle"
                           \/ calls[2].op = "lost" /\ calls[2].slot = 1 /\ Top.saved = "idle"
  BY TopCall DEF Outermost, CalledBy, Plain, Request
<1>5. Len(calls) = 1 \/ Len(calls) > 1
  BY TopCall
<1>6. Len(calls) > 1 => cs[1].op = calls[2].op /\ cs[1].slot = calls[2].slot
  BY <1>1, <1>2
<1>7. Suits(cs, Top.saved)
  <2>1. CASE Len(calls) = 1
    BY <1>3, <1>4, <2>1 DEF Suits, AtRest
  <2>2. CASE Len(calls) > 1
    BY <1>3, <1>4, <1>6, <2>2 DEF Suits, InCall
  <2> QED BY <1>5, <2>1, <2>2
<1>8. Len(calls) > 1 /\ calls[2].op = "yield" => Suits(cs, "yield")
  BY <1>3, <1>6 DEF Suits, InCall
<1>9. Top.saved \in Connected /\ Top.saved \in ClientState
  BY <1>4, <1>5 DEF Connected, ClientState
<1> QED BY <1>2, <1>7, <1>8, <1>9
LEMMA StackPrime ==
  ASSUME NEW cs, Stack(cs), auto' = auto, calls' = cs
  PROVE  Stack(calls)'
BY DEF Stack, CallOK

\* A step that keeps the context, the session and whether the client takes
\* itself for connected.
LEMMA SameContext ==
  ASSUME Control, UNCHANGED <<auto, tls, session>>, Stack(calls'),
         state' \in ClientState, Suits(calls', state'),
         state' \in Connected <=> state \in Connected,
         state' = "manual" => session = "closed"
  PROVE  Control'
<1>1. Stack(calls)'
  BY StackPrime
<1>2. Suits(calls, state)'
  BY DEF Suits
<1>3. HasSession'
  BY DEF Control, HasSession
<1>4. OneContext'
  BY DEF Control, OneContext
<1> QED BY <1>1, <1>2, <1>3, <1>4 DEF Control

\* A request is made at rest or in the handler of a message.
LEMMA StartControl ==
  ASSUME Control, NEW op \in Plain, MayStart(op), NEW t, NEW slot,
         CallOK([op |-> op, saved |-> state, topic |-> t, slot |-> slot, last |-> 0]),
         calls' = Push(op, t, slot, 0, calls),
         state' = op, UNCHANGED <<auto, tls, session>>
  PROVE  Control'
<1> DEFINE c == [op |-> op, saved |-> state, topic |-> t, slot |-> slot, last |-> 0]
<1>1. CallOK(c) /\ calls' = <<c>> \o calls /\ c.op = op /\ c.saved = state
  BY DEF Push
<1> HIDE DEF c
<1>2. op \in Request /\ op \in Connected /\ op \in ClientState /\ op # "manual"
  BY DEF Plain, Request, Connected, ClientState
<1>3. state \in Connected
  BY DEF MayStart, Connected
<1>4. calls = <<>> => Outermost(c)
  BY <1>1, <1>2 DEF Control, Suits, AtRest, MayStart, Outermost
<1>5. calls # <<>> => CalledBy(c, calls[1])
  <2> SUFFICES ASSUME calls # <<>> PROVE CalledBy(c, calls[1])
    OBVIOUS
  <2>1. calls[1].op = "deliver"
    BY DEF MayStart, Within, InCallback, Top
  <2>2. state = "callback"
    BY <2>1 DEF Control, Suits, InCall, MayStart, Request
  <2> QED BY <1>1, <2>1, <2>2 DEF CalledBy
<1>6. Stack(calls') /\ calls' # <<>> /\ calls'[1] = c
  <2>1. Stack(calls)
    BY DEF Control
  <2>2. Stack(<<c>> \o calls) /\ <<c>> \o calls # <<>> /\ (<<c>> \o calls)[1] = c
    BY <1>1, <1>4, <1>5, <2>1, PushStack, Zenon
  <2> QED BY <1>1, <2>2, Zenon
<1>7. Suits(calls', op)
  BY <1>1, <1>2, <1>6 DEF Suits, InCall
<1> QED BY <1>2, <1>3, <1>6, <1>7, SameContext

LEMMA SubscribeControl ==
  ASSUME Core, NEW t \in Topic, Subscribe(t)
  PROVE  Control'
<1>1. /\ MayStart("subscribe") /\ FirstFree \in Slot
      /\ calls' = Push("subscribe", t, FirstFree, 0, calls)
      /\ state' = "subscribe" /\ UNCHANGED <<auto, tls, session>>
  BY DEF Subscribe
<1>2. "subscribe" \in Plain /\ Control
  BY DEF Plain, Core
<1>3. CallOK([op |-> "subscribe", saved |-> state, topic |-> t, slot |-> FirstFree, last |-> 0])
  BY <1>1, <1>2, ClientAssumption DEF CallOK, Call, Request, Control, Slot
<1> QED BY <1>1, <1>2, <1>3, StartControl

LEMMA UnsubscribeControl ==
  ASSUME Core, NEW t \in Topic, Unsubscribe(t)
  PROVE  Control'
<1>1. /\ MayStart("unsubscribe") /\ calls' = Push("unsubscribe", t, 0, 0, calls)
      /\ state' = "unsubscribe" /\ UNCHANGED <<auto, tls, session>>
  BY DEF Unsubscribe
<1>2. "unsubscribe" \in Plain /\ Control
  BY DEF Plain, Core
<1>3. CallOK([op |-> "unsubscribe", saved |-> state, topic |-> t, slot |-> 0, last |-> 0])
  BY <1>2, ClientAssumption DEF CallOK, Call, Request, Control
<1> QED BY <1>1, <1>2, <1>3, StartControl

LEMMA PublishControl ==
  ASSUME Core, Publish
  PROVE  Control'
<1>1. /\ MayStart("publish") /\ calls' = Push("publish", None, 0, 0, calls)
      /\ state' = "publish" /\ UNCHANGED <<auto, tls, session>>
  BY DEF Publish, net
<1>2. "publish" \in Plain /\ Control
  BY DEF Plain, Core
<1>3. CallOK([op |-> "publish", saved |-> state, topic |-> None, slot |-> 0, last |-> 0])
  BY <1>2, ClientAssumption DEF CallOK, Call, Request, Control
<1> QED BY <1>1, <1>2, <1>3, StartControl

\* An answer, or none, ends a request.
LEMMA EndControl ==
  ASSUME Control, Within, Top.op \in Request,
         calls' = Tail(calls) \/ calls' = Overwritten(Tail(calls)),
         \/ state' = CompareAndSet(Top.op, Top.saved)
         \/ state' = CompareAndSet(Top.op, AfterResubscribe),
         UNCHANGED <<auto, tls, session>>
  PROVE  Control'
<1>1. state = Top.op
  BY TopCall DEF InCall, Request
<1>2. state \in Connected
  BY <1>1 DEF Connected
<1>3. /\ Stack(calls') /\ Top.saved \in Connected /\ Top.saved \in ClientState
      /\ Suits(calls', Top.saved)
      /\ Len(calls) > 1 /\ calls[2].op = "yield" => Suits(calls', "yield")
  BY AfterRequest
<1>4. state' = Top.saved \/ (state' = "yield" /\ Suits(calls', "yield"))
  BY <1>1, <1>3 DEF CompareAndSet, AfterResubscribe
<1>5. state' \in Connected /\ state' \in ClientState /\ Suits(calls', state')
  BY <1>3, <1>4 DEF Connected, ClientState
<1>6. state' # "manual"
  BY <1>5 DEF Connected, Request
<1> QED BY <1>2, <1>3, <1>5, <1>6, SameContext

\* A change of the slot the innermost call has come to
LEMMA SlotControl ==
  ASSUME Control, Within, Top.op \in {"resubscribe", "deliver"}, NEW s \in 1..NumHandlers + 1,
         calls' = [calls EXCEPT ![1].slot = s],
         UNCHANGED <<auto, tls, session, state>>
  PROVE  /\ Control'
         /\ Len(calls') = Len(calls) /\ calls'[1] = [Top EXCEPT !.slot = s]
         /\ \A i \in 2..Len(calls) : calls'[i] = calls[i]
<1> DEFINE c == [Top EXCEPT !.slot = s]
<1>0. calls \in Seq(Call) /\ Len(calls) > 0 /\ Stack(calls)
  BY TopCall DEF Control, Stack
<1>1. calls' = [calls EXCEPT ![1] = c]
  BY DEF Top
<1>2. c \in Call /\ c.op = Top.op /\ c.saved = Top.saved /\ c.slot = s
  <2>1. Top \in Call
    BY TopCall
  <2> QED BY <2>1, ClientAssumption DEF Call
<1> HIDE DEF c
<1>3. CallOK(c)
  BY <1>2, ClientAssumption DEF CallOK
<1>4. /\ calls' \in Seq(Call) /\ Len(calls') = Len(calls) /\ calls' # <<>>
      /\ calls'[1] = c /\ \A i \in 2..Len(calls) : calls'[i] = calls[i]
  BY <1>0, <1>1, <1>2
<1>5. \A i \in 1..Len(calls) :
        /\ CallOK(calls'[i]) /\ calls'[i].op = calls[i].op /\ calls'[i].saved = calls[i].saved
        /\ i > 1 => calls'[i].slot = calls[i].slot
  <2>1. ASSUME NEW i \in 1..Len(calls), i = 1
        PROVE  CallOK(calls'[i]) /\ calls'[i].op = calls[i].op /\ calls'[i].saved = calls[i].saved
    BY <1>2, <1>3, <1>4, <2>1 DEF Top
  <2>2. ASSUME NEW i \in 1..Len(calls), i # 1
        PROVE  CallOK(calls'[i]) /\ calls'[i] = calls[i]
    BY <1>0, <1>4, <2>2 DEF Stack
  <2> QED BY <2>1, <2>2
<1>6. Stack(calls')
  BY <1>0, <1>4, <1>5, SameStack
<1>7. Suits(calls', state')
  BY <1>2, <1>4, TopCall DEF Suits, InCall
<1>8. Control'
  BY <1>6, <1>7, SameContext DEF Control, HasSession
<1> QED BY <1>4, <1>8 DEF c
\* Messages are read in a request or a yield.
LEMMA ReadingState ==
  ASSUME Control, Reading
  PROVE  /\ Within /\ state \in Connected /\ state # "callback"
         /\ Top.op \in Request => state = Top.op
         /\ Top.op = "yield" => state \in {"yield", "idle"}
<1>1. Within /\ Top.op \in Request \cup {"yield"} /\ state # "pending" /\ session # "closed"
  BY DEF Reading
<1>2. InCall(Top, state) /\ state # "manual"
  BY <1>1, TopCall DEF Control, HasSession
<1>3. Top.op \in Request => state = Top.op
  BY <1>2 DEF InCall, Request
<1>4. Top.op = "yield" => state \in {"yield", "idle"}
  BY <1>1, <1>2 DEF InCall, Request
<1>5. state \in Connected /\ state # "callback"
  BY <1>1, <1>3, <1>4 DEF Connected, Request
<1> QED BY <1>1, <1>3, <1>4, <1>5

LEMMA HandlePublishControl ==
  ASSUME Core, HandlePublish
  PROVE  Control'
<1> DEFINE c == [op |-> "deliver", saved |-> state, topic |-> fromBroker[1].topic,
                 slot |-> 1, last |-> 0]
           cs == Overwritten(calls)
<1>1. /\ Reading /\ fromBroker # <<>> /\ fromBroker[1].type = "PUBLISH"
      /\ calls' = <<c>> \o cs /\ state' = "callback" /\ UNCHANGED <<auto, tls, session>>
      /\ Control
  BY DEF HandlePublish, Received, Push, Core
<1>2. fromBroker[1].topic \in Topic
  <2>1. fromBroker[1] \in FromPacket
    BY <1>1 DEF Core, Packets
  <2> QED BY <1>1, <2>1 DEF FromPacket
<1>3. CallOK(c) /\ c.op = "deliver" /\ c.saved = state
  BY <1>1, <1>2, ClientAssumption DEF CallOK, Call, Request, Control
<1> HIDE DEF c
<1>4. /\ Stack(cs) /\ Len(cs) = Len(calls) /\ cs # <<>>
      /\ cs[1].op = Top.op
  <2>1. Stack(calls) /\ calls # <<>>
    BY <1>1, ReadingState DEF Control, Within
  <2>2. 1 \in 1..Len(calls) /\ calls \in Seq(Call)
    BY <2>1 DEF Stack
  <2>3. Stack(cs) /\ Len(cs) = Len(calls) /\ cs[1].op = calls[1].op
    BY <2>1, <2>2, OverwrittenStack
  <2>4. cs # <<>>
    BY <2>2, <2>3 DEF Stack
  <2> QED BY <2>3, <2>4 DEF Top
<1> HIDE DEF cs
<1>5. CalledBy(c, cs[1])
  BY <1>1, <1>3, <1>4, ReadingState DEF CalledBy, Reading
<1>6. Stack(calls') /\ calls' # <<>> /\ calls'[1] = c
  <2>1. Stack(<<c>> \o cs) /\ <<c>> \o cs # <<>> /\ (<<c>> \o cs)[1] = c
    BY <1>3, <1>4, <1>5, PushStack, Zenon
  <2> QED BY <1>1, <2>1, Zenon
<1>7. Suits(calls', state')
  BY <1>1, <1>3, <1>6 DEF Suits, InCall
<1>8. state' \in ClientState /\ state' \in Connected /\ state \in Connected /\ state' # "manual"
  BY <1>1, ReadingState DEF ClientState, Connected
<1> QED BY <1>1, <1>6, <1>7, <1>8, SameContext

LEMMA ReadOtherControl ==
  ASSUME Core, ReadOther
  PROVE  Control'
<1>1. Reading /\ calls' = Overwritten(calls) /\ UNCHANGED <<auto, tls, session, state>> /\ Control
  BY DEF ReadOther, Core
<1>2. Stack(calls) /\ calls # <<>> /\ calls \in Seq(Call) /\ 1 \in 1..Len(calls)
  BY <1>1, ReadingState DEF Control, Within, Stack
<1>3. /\ Stack(calls') /\ Len(calls') = Len(calls)
      /\ calls'[1].op = calls[1].op /\ calls'[1].slot = calls[1].slot
  BY <1>1, <1>2, OverwrittenStack
<1>4. Suits(calls', state)
  BY <1>1, <1>2, <1>3 DEF Control, Suits, InCall, Stack
<1> QED BY <1>1, <1>3, <1>4, SameContext DEF Control, HasSession

LEMMA AnsweredControl ==
  ASSUME Core,
         \/ SubscribeAnswered \/ UnsubscribeAnswered \/ PublishAnswered
         \/ ResubscribeAnswered \/ RequestFails
  PROVE  Control'
<1>0. Control
  BY DEF Core
<1>1. CASE SubscribeAnswered \/ UnsubscribeAnswered \/ PublishAnswered
  <2>1. /\ Within /\ Top.op \in Request /\ Returns(Tail(calls)) /\ UNCHANGED <<auto, tls, session>>
    BY <1>1 DEF SubscribeAnswered, UnsubscribeAnswered, PublishAnswered, Answered, Received,
                Reading, net, Request
  <2> QED BY <1>0, <2>1, EndControl DEF Returns
<1>2. CASE RequestFails
  BY <1>0, <1>2, EndControl DEF RequestFails, net
<1>3. CASE ResubscribeAnswered
  <2> DEFINE next == CHOOSE s \in ToRestore : \A r \in ToRestore : s <= r
  <2>1. Within /\ Top.op = "resubscribe" /\ UNCHANGED <<auto, tls, session>>
    BY <1>3 DEF ResubscribeAnswered, Answered, Received, Reading
  <2>2. CASE ToRestore # {} /\ calls' = [calls EXCEPT ![1].slot = next] /\ UNCHANGED state
    <3>1. next \in ToRestore
      <4>1. ToRestore \subseteq Nat
        BY ClientAssumption DEF ToRestore, Used, Slot
      <4>2. \E m \in ToRestore : \A n \in ToRestore : m <= n
        BY <2>2, <4>1, LeastElement
      <4> QED BY <4>2
    <3>2. next \in 1..NumHandlers + 1
      BY <3>1, ClientAssumption DEF ToRestore, Used, Slot
    <3> HIDE DEF next
    <3> QED BY <1>0, <2>1, <2>2, <3>2, SlotControl
  <2>3. CASE calls' = Tail(calls) /\ state' = CompareAndSet("resubscribe", AfterResubscribe)
    BY <1>0, <2>1, <2>3, EndControl DEF Request
  <2> QED BY <1>3, <2>2, <2>3 DEF ResubscribeAnswered
<1> QED BY <1>1, <1>2, <1>3

LEMMA CallHandlerControl ==
  ASSUME Core, CallHandler
  PROVE  Control'
<1>1. Control /\ Within /\ Top.op = "deliver" /\ UNCHANGED <<auto, tls, session, state>>
  BY DEF CallHandler, net, Core
<1>2. PICK s \in Matching : calls' = [calls EXCEPT ![1].slot = s + 1]
  BY DEF CallHandler
<1>3. s + 1 \in 1..NumHandlers + 1
  BY <1>2, ClientAssumption DEF Matching, Used, Slot
<1> QED BY <1>1, <1>2, <1>3, SlotControl
\* When the handlers are through, the call goes on that read the message, or
\* fails if one of them has disconnected.
LEMMA HandlersDoneControl ==
  ASSUME Core, HandlersDone
  PROVE  Control'
<1>1. /\ Control /\ Within /\ Top.op = "deliver" /\ UNCHANGED <<auto, tls, session>>
      /\ Stack(calls) /\ calls # <<>> /\ calls \in Seq(Call)
  BY DEF HandlersDone, Core, net, Control, Within, Stack
<1>2. Len(calls) > 1 /\ CalledBy(Top, calls[2]) /\ state \in {"callback", "manual"}
  BY <1>1, TopCall DEF InCall, Request
<1>3. \/ calls[2].op \in Request /\ Top.saved = calls[2].op
      \/ calls[2].op = "yield" /\ Top.saved \in {"yield", "idle"}
  BY <1>1, <1>2 DEF CalledBy, Plain
<1> DEFINE ds == Tail(calls)
<1>4. Stack(ds) /\ ds # <<>> /\ ds \in Seq(Call) /\ ds[1] = calls[2]
  <2>1. Stack(ds) /\ ds \in Seq(Call) /\ Len(ds) > 0
    BY <1>1, <1>2, PopStack DEF Stack
  <2>2. ds[1] = calls[2]
    BY <1>1, <1>2
  <2> HIDE DEF ds
  <2> QED BY <2>1, <2>2
<1>5. CASE state = "callback" /\ calls' = ds /\ state' = Top.saved
  <2> HIDE DEF ds
  <2>1. Suits(calls', state')
    BY <1>3, <1>4, <1>5 DEF Suits, InCall
  <2>2. state \in Connected /\ state' \in Connected /\ state' \in ClientState /\ state' # "manual"
    BY <1>3, <1>5 DEF Connected, ClientState, Request
  <2> QED BY <1>1, <1>4, <1>5, <2>1, <2>2, SameContext
<1>6. CASE state # "callback" /\ calls' = Tail(ds) /\ UNCHANGED state
  <2> HIDE DEF ds
  <2>1. Stack(Tail(ds)) /\ Len(Tail(ds)) = Len(ds) - 1 /\ Tail(ds) \in Seq(Call)
    BY <1>4, PopStack DEF Stack
  <2>2. Suits(Tail(ds), "manual")
    <3>1. CASE Tail(ds) = <<>>
      BY <3>1 DEF Suits, AtRest
    <3>2. CASE Tail(ds) # <<>>
      <4>1. Len(Tail(ds)) > 0
        BY <2>1, <3>2
      <4>2. 1 \in 1..Len(ds) - 1 /\ Tail(ds)[1] = ds[1 + 1]
        BY <1>4, <2>1, <4>1
      <4>3. CalledBy(ds[1], ds[1 + 1])
        BY <1>4, <4>2 DEF Stack
      <4>4. ds[1].op \in Request \cup {"yield"}
        BY <1>3, <1>4
      <4> QED BY <3>2, <4>2, <4>3, <4>4 DEF CalledBy, Suits, InCall, Request
    <3> QED BY <3>1, <3>2
  <2>3. state = "manual"
    BY <1>2, <1>6
  <2> QED BY <1>1, <1>6, <2>1, <2>2, <2>3, SameContext DEF Control, HasSession
<1> QED BY <1>5, <1>6 DEF HandlersDone

LEMMA YieldControl ==
  ASSUME Core, Yield
  PROVE  Control'
<1> DEFINE c == [op |-> "yield", saved |-> state, topic |-> None, slot |-> 0, last |-> 0]
<1>1. /\ Control /\ calls = <<>> /\ calls' = <<c>> \o calls /\ UNCHANGED <<auto, tls, session>>
  BY DEF Yield, Core, Within, Push, net
<1>0. \/ state = "idle" /\ state' = "yield"
      \/ state = "pending" /\ state' = "pending"
  BY DEF Yield, CompareAndSet
<1>2. CallOK(c) /\ c.op = "yield"
  BY <1>1, ClientAssumption DEF CallOK, Call, Control
<1> HIDE DEF c
<1>3. Outermost(c)
  BY <1>2 DEF Outermost
<1>4. Stack(calls') /\ calls' # <<>> /\ calls'[1] = c
  <2>1. Stack(calls)
    BY <1>1 DEF Control
  <2>2. Stack(<<c>> \o calls) /\ <<c>> \o calls # <<>> /\ (<<c>> \o calls)[1] = c
    BY <1>1, <1>2, <1>3, <2>1, PushStack, Zenon
  <2> QED BY <1>1, <2>2, Zenon
<1>5. Suits(calls', state')
  BY <1>0, <1>2, <1>4 DEF Suits, InCall
<1> QED BY <1>0, <1>1, <1>4, <1>5, SameContext DEF Connected, ClientState, Request

\* The calls in which nothing is read are few.
LEMMA SmallStacks ==
  ASSUME Control, Within
  PROVE  /\ Top.op = "yield" => Tail(calls) = <<>>
         /\ Top.op = "lost" => Stack(Tail(calls)) /\ Tail(calls) # <<>> /\ Tail(calls)[1].op = "yield"
                               /\ Tail(Tail(calls)) = <<>>
<1>1. Stack(calls) /\ calls # <<>> /\ calls \in Seq(Call)
  BY DEF Control, Within, Stack
<1>2. ASSUME Top.op = "yield" PROVE Tail(calls) = <<>>
  <2>1. Len(calls) = 1
    BY <1>2, TopCall
  <2>2. Tail(calls) \in Seq(Call) /\ Len(Tail(calls)) = 0
    BY <1>1, <2>1
  <2> QED BY <2>2, EmptySeq
<1>3. ASSUME Top.op = "lost"
      PROVE  /\ Stack(Tail(calls)) /\ Tail(calls) # <<>> /\ Tail(calls)[1].op = "yield"
             /\ Tail(Tail(calls)) = <<>>
  <2>1. Len(calls) = 2 /\ calls[2].op = "yield"
    BY <1>3, TopCall
  <2>2. Stack(Tail(calls))
    BY <1>1, PopStack
  <2>3. Tail(calls) \in Seq(Call) /\ Len(Tail(calls)) = 1 /\ Tail(calls)[1] = calls[2]
    BY <1>1, <2>1
  <2>4. Tail(calls) # <<>>
    <3>1. \A s \in Seq(Call) : Len(s) = 1 => s # <<>>
      OBVIOUS
    <3> QED BY <2>3, <3>1, Zenon
  <2>5. Tail(Tail(calls)) \in Seq(Call) /\ Len(Tail(Tail(calls))) = 0
    BY <2>3, <2>4
  <2>6. Tail(Tail(calls)) = <<>>
    BY <2>5, EmptySeq
  <2> QED BY <2>1, <2>2, <2>3, <2>4, <2>6
<1> QED BY <1>2, <1>3

LEMMA EmptyStack == Stack(<<>>) /\ \A s \in AtRest : Suits(<<>>, s)
BY DEF Stack, Suits

LEMMA YieldEndsControl ==
  ASSUME Core, YieldEnds
  PROVE  Control'
<1>1. /\ Control /\ Within /\ Top.op = "yield" /\ calls' = Tail(calls)
      /\ state' = CompareAndSet("yield", "idle") /\ UNCHANGED <<auto, tls, session>>
  BY DEF YieldEnds, InYield, Core, net
<1>2. calls' = <<>> /\ state \in {"yield", "idle", "manual", "pending"}
  BY <1>1, SmallStacks, TopCall DEF InCall, Request
<1>3. state' \in AtRest /\ state' \in ClientState /\ (state' \in Connected <=> state \in Connected)
      /\ (state' = "manual" => session = "closed")
  BY <1>1, <1>2 DEF CompareAndSet, AtRest, ClientState, Connected, Request, Control, HasSession
<1> QED BY <1>1, <1>2, <1>3, EmptyStack, SameContext

\* A session that is opened or not, from a client that is not connected
LEMMA ReconnectControl ==
  ASSUME Core, NEW below, Stack(below), auto' = auto,
         \/ below = <<>> /\ calls = <<>>
         \/ below # <<>> /\ below[1].op = "yield"
         \/ below # <<>> /\ below[1].op = "lost" /\ below[1].slot = 1,
         auto => state \notin Connected,
         ReconnectOpens(below) \/ ReconnectFails(below)
  PROVE  Control'
<1>0. /\ Control /\ state \in ClientState /\ tls \in Nat
      /\ auto => tls = 0
  BY DEF Core, Control, OneContext
<1>1. CASE ReconnectOpens(below) /\ 1 \in Used
  <2> DEFINE c == [op |-> "resubscribe", saved |-> "idle", topic |-> None,
                   slot |-> 1, last |-> LastToRestore]
  <2>1. /\ calls' = <<c>> \o below /\ state' = "resubscribe"
        /\ tls' = tls + 1 /\ session' = "up"
    BY <1>1 DEF ReconnectOpens, OpenSession
  <2>2. LastToRestore \in 0..NumHandlers
    BY FirstFreeIsFree, ClientAssumption DEF LastToRestore
  <2>3. CallOK(c) /\ c.op = "resubscribe" /\ c.saved = "idle"
    BY <2>2, ClientAssumption DEF CallOK, Call, Request, ClientState, Connected
  <2> HIDE DEF c
  <2>4. Outermost(c)
    BY <2>3 DEF Outermost, Request
  <2>9. below # <<>> => CalledBy(c, below[1])
    BY <2>3 DEF CalledBy
  <2>5. Stack(calls') /\ calls' # <<>> /\ calls'[1] = c
    <3>1. Stack(<<c>> \o below) /\ <<c>> \o below # <<>> /\ (<<c>> \o below)[1] = c
      BY <2>3, <2>4, <2>9, PushStack
    <3> QED BY <2>1, <3>1, Zenon
  <2>6. Stack(calls)' /\ Suits(calls, state)'
    BY <2>1, <2>3, <2>5, StackPrime DEF Suits, InCall, Request
  <2>7. state' \in ClientState /\ state' \in Connected /\ state' # "manual"
    BY <2>1 DEF ClientState, Connected, Request
  <2>8. tls' \in Nat /\ (auto => tls' = 1)
    BY <1>0, <2>1
  <2> QED BY <1>0, <2>1, <2>6, <2>7, <2>8 DEF Control, HasSession, OneContext
<1>2. CASE ReconnectOpens(below) /\ 1 \notin Used
  <2>1. /\ calls' = below /\ tls' = tls + 1 /\ session' = "up"
        /\ state' = IF below # <<>> /\ below[1].op = "yield" THEN "yield" ELSE "idle"
    BY <1>2 DEF ReconnectOpens, OpenSession
  <2>2. Stack(calls)' /\ Suits(calls, state)'
    BY <2>1, StackPrime DEF Suits, InCall, AtRest
  <2>3. state' \in ClientState /\ state' \in Connected /\ state' # "manual"
    BY <2>1 DEF ClientState, Connected
  <2>4. tls' \in Nat /\ (auto => tls' = 1)
    BY <1>0, <2>1
  <2> QED BY <1>0, <2>1, <2>2, <2>3, <2>4 DEF Control, HasSession, OneContext
<1>3. CASE ReconnectFails(below)
  <2>1. calls' = below /\ tls' = tls /\ session' = "closed" /\ state' = "pending"
    BY <1>3 DEF ReconnectFails, OpenFails
  <2>2. Stack(calls)' /\ Suits(calls, state)'
    BY <2>1, StackPrime DEF Suits, InCall, AtRest
  <2>3. state' \in ClientState /\ state' \notin Connected
    BY <2>1 DEF ClientState, Connected, Request
  <2> QED BY <1>0, <2>1, <2>2, <2>3 DEF Control, HasSession, OneContext
<1> QED BY <1>1, <1>2, <1>3
LEMMA HandleReconnectControl ==
  ASSUME Core, HandleReconnect
  PROVE  Control'
<1>1. /\ Control /\ Within /\ Top.op = "yield" /\ state = "pending" /\ auto' = auto
      /\ ReconnectOpens(calls) \/ ReconnectFails(calls)
  BY DEF HandleReconnect, InYield, Core
<1>2. Stack(calls) /\ calls # <<>> /\ calls[1].op = "yield"
  BY <1>1 DEF Control, Within, Top
<1>3. state \notin Connected
  BY <1>1 DEF Connected, Request
<1> QED BY <1>1, <1>2, <1>3, ReconnectControl

LEMMA AttemptReconnectControl ==
  ASSUME Core, AttemptReconnect
  PROVE  Control'
<1>1. /\ Control /\ calls = <<>> /\ state \notin Connected /\ auto' = auto
      /\ ReconnectOpens(<<>>) \/ ReconnectFails(<<>>)
  BY DEF AttemptReconnect, Within, Core
<1> QED BY <1>1, EmptyStack, ReconnectControl

LEMMA ConnectControl ==
  ASSUME Core, Connect
  PROVE  Control'
<1>1. /\ Control /\ calls = <<>> /\ calls' = <<>> /\ state \notin Connected /\ auto' = auto
      /\ tls \in Nat
  BY DEF Connect, Within, Core, Control
<1>2. Stack(calls)' /\ Suits(calls, "idle")' /\ Suits(calls, "error")'
  BY <1>1 DEF Stack, Suits, AtRest
<1>3. CASE OpenSession /\ state' = "idle"
  BY <1>1, <1>2, <1>3 DEF OpenSession, Control, HasSession, OneContext, Connected, ClientState
<1>4. CASE OpenFails /\ state' = "error"
  BY <1>1, <1>2, <1>4 DEF OpenFails, Control, HasSession, OneContext, Connected, ClientState, Request
<1> QED BY <1>3, <1>4 DEF Connect

LEMMA DisconnectControl ==
  ASSUME Core, Disconnect
  PROVE  Control'
<1>1. /\ Control /\ state \in Connected /\ state' = "manual" /\ UNCHANGED <<auto, calls>>
      /\ session' = "closed" /\ tls' = IF tls > 0 THEN tls - 1 ELSE 0
      /\ tls \in Nat /\ Stack(calls)
  BY DEF Disconnect, CloseSession, Core, Control
<1>2. Stack(calls)'
  BY <1>1, StackPrime
<1>3. Suits(calls, state)'
  <2>1. calls = <<>> \/ (calls # <<>> /\ calls[1].op = "deliver")
    BY DEF Disconnect, Within, InCallback, Top
  <2> QED BY <1>1, <2>1 DEF Suits, InCall, AtRest
<1>4. tls' \in Nat /\ (auto => tls' = 0)
  BY <1>1 DEF Control, OneContext
<1>5. state' \in ClientState /\ state' \notin Connected
  BY <1>1 DEF ClientState, Connected, Request
<1> QED BY <1>1, <1>2, <1>3, <1>4, <1>5 DEF Control, HasSession, OneContext

LEMMA HandleDisconnectControl ==
  ASSUME Core, HandleDisconnect
  PROVE  Control'
<1> DEFINE c == [op |-> "lost", saved |-> state, topic |-> None, slot |-> 0, last |-> 0]
<1>1. /\ Control /\ Within /\ Top.op = "yield" /\ auto' = auto
      /\ session' = "closed" /\ tls' = IF tls > 0 THEN tls - 1 ELSE 0
      /\ state' = IF state \in Connected THEN "manual" ELSE "error"
      /\ tls \in Nat /\ Stack(calls) /\ calls # <<>>
  BY DEF HandleDisconnect, InYield, CloseSession, Core, Control, Within
<1>0. calls' = <<c>> \o calls
  BY DEF HandleDisconnect, Push
<1>2. CallOK(c) /\ c.op = "lost" /\ c.slot = 0
  BY <1>1, ClientAssumption DEF CallOK, Call, Control
<1> HIDE DEF c
<1>3. CalledBy(c, calls[1])
  BY <1>1, <1>2 DEF CalledBy, Top
<1>4. Stack(calls') /\ calls' # <<>> /\ calls'[1] = c
  <2>1. Stack(<<c>> \o calls) /\ <<c>> \o calls # <<>> /\ (<<c>> \o calls)[1] = c
    BY <1>1, <1>2, <1>3, PushStack
  <2> QED BY <1>0, <2>1, Zenon
<1>5. Stack(calls)' /\ Suits(calls, state)'
  BY <1>1, <1>2, <1>4, StackPrime DEF Suits, InCall
<1>6. tls' \in Nat /\ (auto => tls' = 0)
  BY <1>1 DEF Control, OneContext
<1>7. state' \in ClientState /\ state' \notin Connected
  BY <1>1 DEF ClientState, Connected, Request
<1> QED BY <1>1, <1>5, <1>6, <1>7 DEF Control, HasSession, OneContext

\* The stack in which the disconnect handler connects again
LEMMA LostBelow ==
  ASSUME Control, Within, Top.op = "lost", ~auto,
         NEW below, below = [calls EXCEPT ![1].slot = 1]
  PROVE  /\ Stack(below) /\ below # <<>> /\ below[1].op = "lost" /\ below[1].slot = 1
         /\ \A i \in 1..Len(below) : below[i].op \in {"lost", "yield"}
<1> DEFINE c == [Top EXCEPT !.slot = 1]
<1>1. Stack(calls) /\ calls # <<>> /\ calls \in Seq(Call) /\ Len(calls) > 0
  BY DEF Control, Within, Stack
<1>2. below = [calls EXCEPT ![1] = c]
  BY DEF Top
<1>3. c \in Call /\ c.op = Top.op /\ c.saved = Top.saved /\ c.slot = 1
  <2>1. Top \in Call
    BY TopCall
  <2> QED BY <2>1, ClientAssumption DEF Call
<1> HIDE DEF c
<1>4. CallOK(c)
  BY <1>3 DEF CallOK
<1>5. /\ below \in Seq(Call) /\ Len(below) = Len(calls) /\ below # <<>>
      /\ below[1] = c /\ \A i \in 2..Len(calls) : below[i] = calls[i]
  BY <1>1, <1>2, <1>3
<1>6. \A i \in 1..Len(calls) :
        /\ CallOK(below[i]) /\ below[i].op = calls[i].op /\ below[i].saved = calls[i].saved
        /\ i > 1 => below[i].slot = calls[i].slot
  <2>1. ASSUME NEW i \in 1..Len(calls), i = 1
        PROVE  CallOK(below[i]) /\ below[i].op = calls[i].op /\ below[i].saved = calls[i].saved
    BY <1>3, <1>4, <1>5, <2>1 DEF Top
  <2>2. ASSUME NEW i \in 1..Len(calls), i # 1
        PROVE  CallOK(below[i]) /\ below[i] = calls[i]
    BY <1>1, <1>5, <2>2 DEF Stack
  <2> QED BY <2>1, <2>2
<1>7. Stack(below)
  BY <1>1, <1>5, <1>6, SameStack
<1>8. ASSUME NEW i \in 1..Len(below) PROVE below[i].op \in {"lost", "yield"}
  <2>1. Len(calls) = 2 /\ calls[2].op = "yield"
    BY TopCall
  <2>2. Len(below) = 2 /\ below[2] = calls[2] /\ below[1] = c
    BY <1>5, <2>1
  <2>3. i = 1 \/ i = 2
    <3>1. i \in 1..2
      BY <2>2
    <3>2. \A n \in 1..2 : n = 1 \/ n = 2
      OBVIOUS
    <3> QED BY <3>1, <3>2, Zenon
  <2>4. below[1].op = "lost" /\ below[2].op = "yield"
    BY <1>3, <2>1, <2>2
  <2> QED BY <2>3, <2>4, Zenon
<1> QED BY <1>3, <1>5, <1>7, <1>8

LEMMA LostHandlerControl ==
  ASSUME Core, LostHandler
  PROVE  Control'
<1> DEFINE below == [calls EXCEPT ![1].slot = 1]
<1>1. /\ Control /\ Within /\ Top.op = "lost" /\ ~auto /\ auto' = auto
      /\ ReconnectOpens(below) \/ ReconnectFails(below)
  BY DEF LostHandler, Core
<1>2. Stack(below) /\ below # <<>> /\ below[1].op = "lost" /\ below[1].slot = 1
  BY <1>1, LostBelow
<1> HIDE DEF below
<1> QED BY <1>1, <1>2, ReconnectControl

LEMMA LostReturnsControl ==
  ASSUME Core, LostReturns
  PROVE  Control'
<1>1. /\ Control /\ Within /\ Top.op = "lost" /\ UNCHANGED <<auto, tls, session>>
      /\ auto \/ Top.slot = 1
  BY DEF LostReturns, Core, net
<1>2. CASE auto /\ calls' = Tail(calls) /\ state' = "pending"
  <2>1. Top.slot = 0
    BY <1>1, <1>2, TopCall DEF CallOK
  <2>2. state \notin Connected
    BY <1>1, <2>1, TopCall DEF InCall, Connected, Request
  <2>3. Stack(calls') /\ Suits(calls', state')
    BY <1>1, <1>2, SmallStacks DEF Suits, InCall
  <2>4. state' \in ClientState /\ state' \notin Connected /\ state' # "manual"
    BY <1>2 DEF ClientState, Connected, Request
  <2> QED BY <1>1, <2>2, <2>3, <2>4, SameContext
<1>3. CASE ~auto /\ calls' = Tail(Tail(calls)) /\ state' = "error"
  <2>1. calls' = <<>>
    BY <1>1, <1>3, SmallStacks
  <2>2. Stack(calls)'
    BY <1>1, <2>1, EmptyStack, StackPrime
  <2>4. Suits(calls, state)'
    BY <1>3, <2>1 DEF Suits, AtRest
  <2>3. state' \in ClientState /\ state' \notin Connected /\ state' # "manual"
    BY <1>3 DEF ClientState, Connected, Request
  <2> QED BY <1>1, <1>3, <2>2, <2>3, <2>4 DEF Control, HasSession, OneContext
<1> QED BY <1>2, <1>3 DEF LostReturns

LEMMA WorldControl ==
  ASSUME Core, KeepAlive \/ World \/ UNCHANGED vars
  PROVE  Control'
<1>0. Control
  BY DEF Core
<1>1. UNCHANGED <<auto, state, calls, tls>>
  BY DEF KeepAlive, World, BrokerAnswers, BrokerPublishes, SessionBreaks, vars, net
<1>2. session' = session \/ (session = "up" /\ session' = "broken")
  BY DEF KeepAlive, World, BrokerAnswers, BrokerPublishes, SessionBreaks, vars, net
<1>3. Stack(calls)'
  BY <1>0, <1>1 DEF Control, Stack, CallOK
<1> QED BY <1>0, <1>1, <1>2, <1>3 DEF Control, HasSession, OneContext, Suits

\* Whatever the step, calls stay nested and the state that of the innermost one.
LEMMA NextControl ==
  ASSUME Core, [Next]_vars
  PROVE  Control'
<1>1. CASE Application
  BY <1>1, ConnectControl, DisconnectControl, AttemptReconnectControl, PublishControl,
     YieldControl, SubscribeControl, UnsubscribeControl DEF Application
<1>2. CASE Client
  BY <1>2, AnsweredControl, HandlePublishControl, ReadOtherControl, CallHandlerControl,
     HandlersDoneControl, YieldEndsControl, WorldControl, HandleDisconnectControl,
     LostHandlerControl, LostReturnsControl, HandleReconnectControl DEF Client
<1>3. CASE World \/ UNCHANGED vars
  BY <1>3, WorldControl
<1> QED BY <1>1, <1>2, <1>3 DEF Next
-----------------------------------------------------------------------------
(* What is on its way, and the data of the client and the broker.          *)

\* A packet written
LEMMA SentPackets ==
  ASSUME Packets, NEW type, NEW t, [type |-> type, topic |-> t] \in ToPacket,
         Send(type, t)
  PROVE  toBroker' \in Seq(ToPacket)
BY DEF Send, Packets

\* A packet read
LEMMA TakenPackets ==
  ASSUME Packets, fromBroker # <<>>, fromBroker' = Tail(fromBroker), UNCHANGED toBroker
  PROVE  Packets'
<1>1. fromBroker' \in Seq(FromPacket)
  BY DEF Packets
<1> QED BY <1>1 DEF Packets

LEMMA NoPackets ==
  ASSUME toBroker' = <<>>, fromBroker' = <<>>
  PROVE  Packets'
BY DEF Packets

\* A new session starts with at most a subscription on its way.
LEMMA ReconnectPackets ==
  ASSUME Core, NEW below, ReconnectOpens(below) \/ ReconnectFails(below)
  PROVE  /\ Packets' /\ restored' \in BOOLEAN /\ ping' \in BOOLEAN
         /\ granted' \in SUBSET Topic /\ dropped' \in SUBSET Topic
<1>1. Data
  BY DEF Core
<1>2. CASE ReconnectOpens(below)
  <2> DEFINE p == [type |-> "SUBSCRIBE", topic |-> handlers[1]]
  <2>1. CASE 1 \in Used
    <3>1. handlers[1] \in Topic
      BY <1>1, <2>1 DEF Data, Used
    <3>2. p \in ToPacket
      BY <3>1 DEF ToPacket
    <3>3. toBroker' = <<p>> /\ fromBroker' = <<>>
      BY <1>2, <2>1 DEF ReconnectOpens, OpenSession
    <3> HIDE DEF p
    <3>4. Packets'
      BY <3>2, <3>3 DEF Packets
    <3> QED BY <1>2, <2>1, <3>4 DEF ReconnectOpens, OpenSession
  <2>2. CASE 1 \notin Used
    <3>1. Packets'
      BY <1>2, <2>2, NoPackets DEF ReconnectOpens, OpenSession
    <3> QED BY <1>2, <2>2, <3>1 DEF ReconnectOpens, OpenSession
  <2> QED BY <2>1, <2>2
<1>3. CASE ReconnectFails(below)
  BY <1>1, <1>3, NoPackets DEF ReconnectFails, OpenFails, Data
<1> QED BY <1>2, <1>3

LEMMA ApplicationData ==
  ASSUME Core, Application
  PROVE  Packets' /\ Data'
<1>0. Packets /\ Data
  BY DEF Core
<1>1. CASE Connect
  <2>1. Packets'
    BY <1>1, NoPackets DEF Connect, OpenSession, OpenFails
  <2> QED BY <1>0, <1>1, <2>1 DEF Connect, OpenSession, OpenFails, Data
<1>2. CASE Disconnect
  <2>1. Packets'
    BY <1>2, NoPackets DEF Disconnect, CloseSession
  <2> QED BY <1>0, <1>2, <2>1 DEF Disconnect, Data, history
<1>3. CASE AttemptReconnect
  BY <1>0, <1>3, ReconnectPackets DEF AttemptReconnect, Data
<1>4. CASE Publish
  <2>1. [type |-> "PUBLISH", topic |-> None] \in ToPacket
    BY DEF ToPacket
  <2>2. Send("PUBLISH", None) /\ UNCHANGED fromBroker
    BY <1>4 DEF Publish
  <2>3. Packets'
    BY <1>0, <2>1, <2>2, SentPackets DEF Packets
  <2> QED BY <1>0, <1>4, <2>3 DEF Publish, Data, history
<1>5. CASE Yield
  BY <1>0, <1>5 DEF Yield, net, history, Packets, Data
<1>6. ASSUME NEW t \in Topic, Subscribe(t)
      PROVE  Packets' /\ Data'
  <2>1. [type |-> "SUBSCRIBE", topic |-> t] \in ToPacket
    BY DEF ToPacket
  <2>2. Send("SUBSCRIBE", t) /\ UNCHANGED fromBroker
    BY <1>6 DEF Subscribe
  <2>3. Packets'
    BY <1>0, <2>1, <2>2, SentPackets DEF Packets
  <2> QED BY <1>0, <1>6, <2>3 DEF Subscribe, Data
<1>7. ASSUME NEW t \in Topic, Unsubscribe(t)
      PROVE  Packets' /\ Data'
  <2>1. [type |-> "UNSUBSCRIBE", topic |-> t] \in ToPacket
    BY DEF ToPacket
  <2>2. Send("UNSUBSCRIBE", t) /\ UNCHANGED fromBroker
    BY <1>7 DEF Unsubscribe
  <2>3. Packets'
    BY <1>0, <2>1, <2>2, SentPackets DEF Packets
  <2> QED BY <1>0, <1>7, <2>3 DEF Unsubscribe, Data
<1> QED BY <1>1, <1>2, <1>3, <1>4, <1>5, <1>6, <1>7 DEF Application
NextOne == CHOOSE s \in ToRestore : \A r \in ToRestore : s <= r

\* The next handler to be subscribed for is the first one left.
LEMMA NextToRestore ==
  ASSUME Core, ToRestore # {}
  PROVE  NextOne \in ToRestore /\ NextOne \in Slot /\ handlers[NextOne] \in Topic
         /\ \A r \in ToRestore : NextOne <= r
<1>1. ToRestore \subseteq Nat /\ ToRestore \subseteq Used
  BY ClientAssumption DEF ToRestore, Used, Slot
<1>2. \E m \in ToRestore : \A n \in ToRestore : m <= n
  BY <1>1, LeastElement
<1>3. NextOne \in ToRestore /\ \A r \in ToRestore : NextOne <= r
  BY <1>2 DEF NextOne
<1> QED BY <1>1, <1>3 DEF Used, Core, Data

LEMMA ClientData ==
  ASSUME Core, Client
  PROVE  Packets' /\ Data'
<1>0. Packets /\ Data /\ Control
  BY DEF Core
<1>1. CASE SubscribeAnswered
  <2>1. Within /\ Top.op = "subscribe" /\ fromBroker # <<>>
    BY <1>1 DEF SubscribeAnswered, Answered, Received, Reading
  <2>2. Top.slot \in Slot /\ Top.topic \in Topic
    BY <1>0, <2>1, TopCall DEF CallOK
  <2>3. Packets'
    BY <1>0, <1>1, <2>1, TakenPackets DEF SubscribeAnswered, Answered
  <2>4. handlers' = [handlers EXCEPT ![Top.slot] = Top.topic] /\ held' = held \cup {Top.topic}
        /\ UNCHANGED <<granted, ping, wait, dropped, restored>>
    BY <1>1 DEF SubscribeAnswered
  <2> QED BY <1>0, <2>2, <2>3, <2>4 DEF Data
<1>2. CASE UnsubscribeAnswered
  <2>1. fromBroker # <<>>
    BY <1>2 DEF UnsubscribeAnswered, Answered, Received
  <2>2. Packets'
    BY <1>0, <1>2, <2>1, TakenPackets DEF UnsubscribeAnswered, Answered
  <2> QED BY <1>0, <1>2, <2>2 DEF UnsubscribeAnswered, Data
<1>3. CASE PublishAnswered
  <2>1. Packets'
    BY <1>0, <1>3, TakenPackets DEF PublishAnswered, Answered, Received
  <2> QED BY <1>0, <1>3, <2>1 DEF PublishAnswered, Data, history
<1>4. CASE ResubscribeAnswered
  <2>1. /\ fromBroker # <<>> /\ fromBroker' = Tail(fromBroker)
        /\ UNCHANGED <<handlers, granted, ping, wait, held>>
    BY <1>4 DEF ResubscribeAnswered, Answered, Received
  <2>2. CASE ToRestore # {} /\ Send("SUBSCRIBE", handlers[NextOne])
             /\ dropped' = dropped \ {handlers[NextOne]} /\ UNCHANGED restored
    <3>1. handlers[NextOne] \in Topic
      BY <2>2, NextToRestore
    <3>2. [type |-> "SUBSCRIBE", topic |-> handlers[NextOne]] \in ToPacket
      BY <3>1 DEF ToPacket
    <3>3. toBroker' \in Seq(ToPacket)
      BY <1>0, <2>2, <3>2, SentPackets
    <3>4. fromBroker' \in Seq(FromPacket)
      BY <1>0, <2>1 DEF Packets
    <3>6. Packets'
      BY <3>3, <3>4 DEF Packets
    <3> QED BY <1>0, <2>1, <2>2, <3>6 DEF Data
  <2>3. CASE restored' = (\A s \in Used : s <= Top.last) /\ UNCHANGED <<toBroker, dropped>>
    <3>1. Packets'
      BY <1>0, <2>1, <2>3, TakenPackets
    <3> QED BY <1>0, <2>1, <2>3, <3>1 DEF Data
  <2> QED BY <1>4, <2>2, <2>3 DEF ResubscribeAnswered, NextOne
<1>5. CASE RequestFails
  BY <1>0, <1>5 DEF RequestFails, LongerWait, net, history, Packets, Data
<1>6. CASE HandlePublish
  <2>1. Packets'
    BY <1>0, <1>6, TakenPackets DEF HandlePublish, Received
  <2> QED BY <1>0, <1>6, <2>1 DEF HandlePublish, Data, history
<1>7. CASE ReadOther
  <2>1. Packets'
    BY <1>0, <1>7, TakenPackets DEF ReadOther
  <2>2. ping' \in BOOLEAN
    BY <1>0, <1>7 DEF ReadOther, Data
  <2> QED BY <1>0, <1>7, <2>1, <2>2 DEF ReadOther, Data, history
<1>8. CASE CallHandler
  BY <1>0, <1>8 DEF CallHandler, net, history, Packets, Data
<1>9. CASE HandlersDone
  BY <1>0, <1>9 DEF HandlersDone, net, history, Packets, Data
<1>10. CASE YieldEnds
  BY <1>0, <1>10 DEF YieldEnds, net, history, Packets, Data
<1>11. CASE KeepAlive
  <2>1. [type |-> "PINGREQ", topic |-> None] \in ToPacket
    BY DEF ToPacket
  <2>2. Send("PINGREQ", None) /\ UNCHANGED fromBroker
    BY <1>11 DEF KeepAlive
  <2>3. Packets'
    BY <1>0, <2>1, <2>2, SentPackets DEF Packets
  <2> QED BY <1>0, <1>11, <2>3 DEF KeepAlive, Data, history
<1>12. CASE HandleDisconnect
  <2>1. Packets'
    BY <1>12, NoPackets DEF HandleDisconnect, CloseSession
  <2> QED BY <1>0, <1>12, <2>1 DEF HandleDisconnect, Data, history
<1>13. CASE LostHandler
  <2>1. PICK below : ReconnectOpens(below) \/ ReconnectFails(below)
    BY <1>13 DEF LostHandler
  <2> QED BY <1>0, <1>13, <2>1, ReconnectPackets DEF LostHandler, Data
<1>14. CASE LostReturns
  BY <1>0, <1>14, ClientAssumption DEF LostReturns, net, history, Packets, Data
<1>15. CASE HandleReconnect
  <2>1. wait' \in Nat
    BY <1>0, <1>15 DEF HandleReconnect, Data
  <2>2. ReconnectOpens(calls) \/ ReconnectFails(calls)
    BY <1>15 DEF HandleReconnect
  <2> QED BY <1>0, <1>15, <2>1, <2>2, ReconnectPackets DEF HandleReconnect, Data
<1> QED BY <1>1, <1>2, <1>3, <1>4, <1>5, <1>6, <1>7, <1>8, <1>9, <1>10, <1>11, <1>12, <1>13,
           <1>14, <1>15 DEF Client

LEMMA WorldData ==
  ASSUME Core, World \/ UNCHANGED vars
  PROVE  Packets' /\ Data'
<1>0. Packets /\ Data
  BY DEF Core
<1>1. CASE BrokerAnswers
  <2> DEFINE p == toBroker[1]
             a == CASE p.type = "SUBSCRIBE" -> "SUBACK" [] p.type = "UNSUBSCRIBE" -> "UNSUBACK"
                    [] p.type = "PUBLISH" -> "PUBACK"   [] p.type = "PINGREQ" -> "PINGRESP"
             b == [type |-> a, topic |-> None]
  <2>1. /\ toBroker # <<>> /\ toBroker' = Tail(toBroker) /\ fromBroker' = Append(fromBroker, b)
        /\ granted' = CASE p.type = "SUBSCRIBE"   -> granted \cup {p.topic}
                        [] p.type = "UNSUBSCRIBE" -> granted \ {p.topic}
                        [] OTHER -> granted
        /\ UNCHANGED <<handlers, ping, wait, held, dropped, restored>>
    BY <1>1 DEF BrokerAnswers, history
  <2>2. p \in ToPacket /\ toBroker' \in Seq(ToPacket)
    BY <1>0, <2>1 DEF Packets
  <2>3. /\ p.type \in {"SUBSCRIBE", "UNSUBSCRIBE", "PUBLISH", "PINGREQ"}
        /\ p.type \in {"SUBSCRIBE", "UNSUBSCRIBE"} => p.topic \in Topic
    BY <2>2 DEF ToPacket
  <2> HIDE DEF p
  <2>4. a \in {"SUBACK", "UNSUBACK", "PUBACK", "PINGRESP"}
    BY <2>3
  <2>5. granted' \in SUBSET Topic
    BY <1>0, <2>1, <2>3 DEF Data
  <2> HIDE DEF a
  <2>6. b \in FromPacket
    BY <2>4 DEF FromPacket
  <2> HIDE DEF b
  <2>7. fromBroker' \in Seq(FromPacket)
    BY <1>0, <2>1, <2>6 DEF Packets
  <2> QED BY <1>0, <2>1, <2>2, <2>5, <2>7 DEF Packets, Data
<1>2. CASE BrokerPublishes
  <2>1. PICK t \in granted : fromBroker' = Append(fromBroker, [type |-> "PUBLISH", topic |-> t])
    BY <1>2 DEF BrokerPublishes
  <2>2. [type |-> "PUBLISH", topic |-> t] \in FromPacket
    BY <1>0 DEF FromPacket, Data
  <2>3. fromBroker' \in Seq(FromPacket)
    BY <1>0, <2>1, <2>2 DEF Packets
  <2> QED BY <1>0, <1>2, <2>3 DEF BrokerPublishes, Packets, Data, history
<1>3. CASE SessionBreaks
  BY <1>0, <1>3 DEF SessionBreaks, Packets, Data, history
<1>4. CASE UNCHANGED vars
  BY <1>0, <1>4 DEF vars, net, history, Packets, Data
<1> QED BY <1>1, <1>2, <1>3, <1>4 DEF World

-----------------------------------------------------------------------------
(* Theorems on the calls.                                                  *)

LEMMA InitCore == Init => Core
<1> SUFFICES ASSUME Init PROVE Core
  OBVIOUS
<1>1. Stack(calls) /\ Suits(calls, state)
  BY EmptyStack DEF Init, AtRest
<1>2. Control
  BY <1>1 DEF Init, Control, HasSession, OneContext, ClientState, Connected, Request
<1>3. Packets
  BY DEF Init, Packets
<1>4. Data
  BY DEF Init, Data
<1> QED BY <1>2, <1>3, <1>4 DEF Core

LEMMA CoreInvariant == Spec => []Core
<1>1. Core /\ [Next]_vars => Core'
  BY NextControl, ApplicationData, ClientData, WorldData DEF Core, Next
<1> QED BY <1>1, InitCore, PTL DEF Spec

\* Every variable of the client, the broker and the network keeps its type: the
\* stack of calls, the slots of the handlers and the packets on their way.
THEOREM TypeCorrect == Spec => []TypeOK
<1>1. Core => TypeOK
  <2> SUFFICES ASSUME Core PROVE TypeOK
    OBVIOUS
  <2>1. ToPacket \subseteq Packet /\ FromPacket \subseteq Packet
    BY DEF ToPacket, FromPacket, Packet
  <2>2. toBroker \in Seq(Packet) /\ fromBroker \in Seq(Packet)
    BY <2>1 DEF Core, Packets
  <2> QED BY <2>2 DEF Core, Control, Data, Stack, TypeOK
<1> QED BY <1>1, CoreInvariant, PTL

\* However calls nest and fail, and handlers disconnect in the middle of one, a
\* client at rest is never left in the state of a call, in which
\* aws_iot_mqtt_yield, subscribe and publish would refuse it for ever, and no
\* request waits for its answer in a session that was closed.
THEOREM CallsEnd == Spec => []NoCallStuck
<1>1. Core => IdleAtRest
  BY DEF Core, Control, Suits, AtRest, IdleAtRest, Within
<1>2. Core => WaitsInSession
  <2> SUFFICES ASSUME Core, Within, Top.op \in Request PROVE session # "closed"
    BY DEF WaitsInSession
  <2>1. Control
    BY DEF Core
  <2>2. state = Top.op
    BY <2>1, TopCall DEF InCall, Request
  <2> QED BY <2>1, <2>2 DEF Control, HasSession, Connected
<1> QED BY <1>1, <1>2, CoreInvariant, PTL DEF NoCallStuck

\* With automatic reconnection the TLS context is set up exactly while the client
\* takes itself for connected: iot_tls_connect, which sets contexts up without
\* freeing them, is only called when there is none, and iot_tls_destroy only when
\* there is one.
THEOREM NoContextLeaks == Spec => []OneContext
<1>1. Core => OneContext
  BY DEF Core, Control
<1> QED BY <1>1, CoreInvariant, PTL
-----------------------------------------------------------------------------
(* Which subscriptions are under way.                                      *)

Subscribing == {"subscribe", "resubscribe"}

\* The subscriptions under way, but for the n innermost calls, are those there
\* were, as deep in the stack as they were.
Kept(cs, ds, n) ==
  \A i \in 1..Len(ds) : i > n /\ ds[i].op \in Subscribing
    => i + Len(cs) - Len(ds) \in 1..Len(cs) /\ ds[i] = cs[i + Len(cs) - Len(ds)]

LEMMA KeptCalls ==
  ASSUME NEW cs, Stack(cs)
  PROVE  /\ Kept(cs, cs, 0)
         /\ Kept(cs, Overwritten(cs), 0)
         /\ cs # <<>> => Kept(cs, Tail(cs), 0) /\ Kept(cs, Overwritten(Tail(cs)), 0)
         /\ cs # <<>> /\ Tail(cs) # <<>> => Kept(cs, Tail(Tail(cs)), 0)
<1>1. cs \in Seq(Call) /\ Len(cs) \in Nat
  BY DEF Stack
<1>2. Kept(cs, cs, 0)
  BY <1>1 DEF Kept
<1>3. Kept(cs, Overwritten(cs), 0)
  BY <1>1, OverwrittenStack DEF Kept, Subscribing
<1>4. ASSUME cs # <<>>
      PROVE  Kept(cs, Tail(cs), 0) /\ Kept(cs, Overwritten(Tail(cs)), 0)
  <2> DEFINE ds == Tail(cs)
  <2>1. Stack(ds) /\ Len(ds) = Len(cs) - 1 /\ \A i \in 1..Len(cs) - 1 : ds[i] = cs[i + 1]
    BY <1>4, PopStack
  <2> HIDE DEF ds
  <2>2. /\ Len(Overwritten(ds)) = Len(ds)
        /\ \A i \in 1..Len(ds) : /\ Overwritten(ds)[i].op = ds[i].op
                                 /\ ds[i].op # "deliver" => Overwritten(ds)[i] = ds[i]
    BY <2>1, OverwrittenStack
  <2>3. Kept(cs, ds, 0)
    BY <1>1, <2>1 DEF Kept
  <2>4. Kept(cs, Overwritten(ds), 0)
    BY <1>1, <2>1, <2>2 DEF Kept, Subscribing
  <2> QED BY <2>3, <2>4 DEF ds
<1>5. ASSUME cs # <<>>, Tail(cs) # <<>>
      PROVE  Kept(cs, Tail(Tail(cs)), 0)
  <2> DEFINE ds == Tail(cs)
             es == Tail(ds)
  <2>1. Stack(ds) /\ Len(ds) = Len(cs) - 1 /\ \A i \in 1..Len(cs) - 1 : ds[i] = cs[i + 1]
    BY <1>5, PopStack
  <2>2. ds # <<>>
    BY <1>5
  <2> HIDE DEF ds
  <2>3. Len(es) = Len(ds) - 1 /\ \A i \in 1..Len(ds) - 1 : es[i] = ds[i + 1]
    BY <2>1, <2>2, PopStack
  <2> HIDE DEF es
  <2>4. Kept(cs, es, 0)
    BY <1>1, <2>1, <2>3 DEF Kept
  <2> QED BY <2>4 DEF ds, es
<1> QED BY <1>2, <1>3, <1>4, <1>5

LEMMA KeptPush ==
  ASSUME NEW cs, Stack(cs), NEW c
  PROVE  Kept(cs, <<c>> \o cs, 1) /\ Kept(cs, <<c>> \o Overwritten(cs), 1)
<1>1. cs \in Seq(Call) /\ Len(cs) \in Nat /\ Overwritten(cs) \in Seq(Call)
      /\ Len(Overwritten(cs)) = Len(cs)
  BY OverwrittenStack DEF Stack
<1>2. ASSUME NEW ds \in Seq(Call)
      PROVE  /\ Len(<<c>> \o ds) = Len(ds) + 1
             /\ \A i \in 1..Len(ds) + 1 : i > 1 => (<<c>> \o ds)[i] = ds[i - 1]
  OBVIOUS
<1>3. Kept(cs, <<c>> \o cs, 1)
  BY <1>1, <1>2 DEF Kept
<1>4. \A i \in 1..Len(cs) : Overwritten(cs)[i].op \in Subscribing => Overwritten(cs)[i] = cs[i]
  BY OverwrittenStack DEF Subscribing
<1>5. Kept(cs, <<c>> \o Overwritten(cs), 1)
  BY <1>1, <1>2, <1>4 DEF Kept
<1> QED BY <1>3, <1>5

\* A step that opens no session
LEMMA NextKept ==
  ASSUME Core, [Next]_vars,
         ~Connect, ~AttemptReconnect, ~LostHandler, ~HandleReconnect
  PROVE  /\ Kept(calls, calls', 1)
         /\ \/ Kept(calls, calls', 0)
            \/ calls'[1].op \notin Subscribing
            \/ ResubscribeAnswered
            \/ \E t \in Topic : Subscribe(t)
<1>0. Control /\ Stack(calls)
  BY DEF Core, Control
<1>1. \A ds : Kept(calls, ds, 0) => Kept(calls, ds, 1)
  BY DEF Kept
<1>2. CASE UNCHANGED calls
  BY <1>0, <1>1, <1>2, KeptCalls
<1>3. CASE calls # <<>> /\ (calls' = Tail(calls) \/ calls' = Overwritten(Tail(calls)))
  BY <1>0, <1>1, <1>3, KeptCalls
<1>4. CASE calls' = Overwritten(calls)
  BY <1>0, <1>1, <1>4, KeptCalls
<1>5. CASE \E op, t, slot, last : op \notin Subscribing
             /\ (calls' = Push(op, t, slot, last, calls)
                 \/ calls' = Push(op, t, slot, last, Overwritten(calls)))
  <2>1. PICK op, t, slot, last : op \notin Subscribing
             /\ (calls' = Push(op, t, slot, last, calls)
                 \/ calls' = Push(op, t, slot, last, Overwritten(calls)))
    BY <1>5
  <2> DEFINE c == [op |-> op, saved |-> state, topic |-> t, slot |-> slot, last |-> last]
  <2>2. c.op \notin Subscribing /\ (calls' = <<c>> \o calls \/ calls' = <<c>> \o Overwritten(calls))
    BY <2>1 DEF Push
  <2> HIDE DEF c
  <2>3. Kept(calls, calls', 1)
    BY <1>0, <2>2, KeptPush
  <2>4. calls \in Seq(Call) /\ Overwritten(calls) \in Seq(Call)
    BY <1>0, OverwrittenStack DEF Stack
  <2>5. calls'[1] = c
    <3>1. ASSUME NEW ds \in Seq(Call) PROVE (<<c>> \o ds)[1] = c
      OBVIOUS
    <3> QED BY <2>2, <2>4, <3>1
  <2> QED BY <2>2, <2>3, <2>5
<1>6. CASE \E t \in Topic : Subscribe(t)
  <2>1. PICK c : calls' = <<c>> \o calls
    BY <1>6 DEF Subscribe, Push
  <2> QED BY <1>0, <1>6, <2>1, KeptPush
<1>7. CASE \E s \in 1..NumHandlers + 1 : Within /\ Top.op \in {"resubscribe", "deliver"}
             /\ (Top.op = "resubscribe" => ResubscribeAnswered)
             /\ calls' = [calls EXCEPT ![1].slot = s] /\ UNCHANGED <<auto, tls, session, state>>
  <2>1. PICK s \in 1..NumHandlers + 1 :
             /\ Within /\ Top.op \in {"resubscribe", "deliver"}
             /\ (Top.op = "resubscribe" => ResubscribeAnswered)
             /\ calls' = [calls EXCEPT ![1].slot = s] /\ UNCHANGED <<auto, tls, session, state>>
    BY <1>7
  <2>2. /\ Len(calls') = Len(calls) /\ calls'[1] = [Top EXCEPT !.slot = s]
        /\ \A i \in 2..Len(calls) : calls'[i] = calls[i]
    BY <1>0, <2>1, SlotControl
  <2>3. calls \in Seq(Call) /\ calls # <<>> /\ Top \in Call
    BY <1>0, <2>1, TopCall DEF Stack, Within
  <2>4. Kept(calls, calls', 1)
    BY <2>2, <2>3 DEF Kept
  <2>6. calls'[1].op = Top.op
    BY <2>2, <2>3 DEF Call
  <2> QED BY <2>1, <2>4, <2>6 DEF Subscribing
<1>8. CASE calls # <<>> /\ Tail(calls) # <<>> /\ calls' = Tail(Tail(calls))
  BY <1>0, <1>1, <1>8, KeptCalls
<1>9. CASE Publish \/ Yield \/ HandlePublish \/ HandleDisconnect \/ \E t \in Topic : Unsubscribe(t)
  BY <1>5, <1>9 DEF Publish, Yield, HandlePublish, HandleDisconnect, Unsubscribe, Subscribing
<1>10. CASE \/ SubscribeAnswered \/ UnsubscribeAnswered \/ PublishAnswered \/ RequestFails
            \/ YieldEnds
  BY <1>3, <1>10 DEF SubscribeAnswered, UnsubscribeAnswered, PublishAnswered, Answered, Received,
    Reading, RequestFails, YieldEnds, InYield, Within, Returns
<1>11. CASE ResubscribeAnswered
  <2>1. Within /\ Top.op = "resubscribe" /\ UNCHANGED <<auto, tls, session>>
    BY <1>11 DEF ResubscribeAnswered, Answered, Received, Reading
  <2>2. CASE ToRestore # {} /\ calls' = [calls EXCEPT ![1].slot = NextOne] /\ UNCHANGED state
    <3>1. NextOne \in 1..NumHandlers + 1
      BY <2>2, NextToRestore, ClientAssumption DEF Slot
    <3> QED BY <1>7, <1>11, <2>1, <2>2, <3>1
  <2>3. CASE calls' = Tail(calls)
    BY <1>3, <2>1, <2>3 DEF Within
  <2> QED BY <1>11, <2>2, <2>3 DEF ResubscribeAnswered, NextOne
<1>12. CASE CallHandler
  <2>1. Within /\ Top.op = "deliver" /\ UNCHANGED <<auto, tls, session, state>>
    BY <1>12 DEF CallHandler, net
  <2>2. PICK s \in Matching : calls' = [calls EXCEPT ![1].slot = s + 1]
    BY <1>12 DEF CallHandler
  <2>3. s + 1 \in 1..NumHandlers + 1
    BY <2>2, ClientAssumption DEF Matching, Used, Slot
  <2> QED BY <1>7, <2>1, <2>2, <2>3
<1>13. CASE HandlersDone \/ LostReturns
  <2>1. Within /\ Top.op \in {"deliver", "lost"}
    BY <1>13 DEF HandlersDone, LostReturns
  <2>2. Len(calls) > 1 /\ calls # <<>> /\ calls \in Seq(Call)
    BY <1>0, <2>1, TopCall DEF Within, Stack
  <2>3. Tail(calls) # <<>>
    <3>1. Tail(calls) \in Seq(Call) /\ Len(Tail(calls)) > 0
      BY <2>2
    <3>2. \A ds \in Seq(Call) : Len(ds) > 0 => ds # <<>>
      OBVIOUS
    <3> QED BY <3>1, <3>2, Zenon
  <2> QED BY <1>3, <1>8, <1>13, <2>2, <2>3 DEF HandlersDone, LostReturns
<1>14. CASE ReadOther
  BY <1>4, <1>14 DEF ReadOther
<1>15. CASE Disconnect \/ KeepAlive \/ World \/ UNCHANGED vars
  BY <1>2, <1>15 DEF Disconnect, KeepAlive, World, BrokerAnswers, BrokerPublishes, SessionBreaks, vars
<1> QED BY <1>6, <1>9, <1>10, <1>11, <1>12, <1>13, <1>14, <1>15 DEF Next, Application, Client

-----------------------------------------------------------------------------
(* The handlers are subscribed for.                                        *)

\* The broker of a session that holds g, with the packets q on their way to it
\* and the leaving of d asked for, sends or will send the messages on t, or
\* need not.
ServedBy(t, g, d, q) ==
  t \in g \cup d \/ \E i \in 1..Len(q) : q[i] = [type |-> "SUBSCRIBE", topic |-> t]

\* A topic is only left when that was asked for last.
Ordered(d, q) ==
  \A i \in 1..Len(q) : q[i].type = "UNSUBSCRIBE" =>
    \/ q[i].topic \in d
    \/ \E j \in i + 1..Len(q) : q[j] = [type |-> "SUBSCRIBE", topic |-> q[i].topic]

AllServed(h, g, d, q) ==
  \A s \in Slot : h[s] # None => ServedBy(h[s], g, d, q)

\* What a call has asked for: the topic of a subscription, the handlers a
\* resubscription has come to.
CallServed(c, h, g, d, q) ==
  /\ c.op = "subscribe" => ServedBy(c.topic, g, d, q)
  /\ c.op = "resubscribe" =>
       \A s \in Slot : h[s] # None /\ s <= c.slot => ServedBy(h[s], g, d, q)

ServedInv ==
  session = "up" =>
    /\ Ordered(dropped, toBroker)
    /\ restored => AllServed(handlers, granted, dropped, toBroker)
    /\ \A i \in 1..Len(calls) : CallServed(calls[i], handlers, granted, dropped, toBroker)

\* A step of an open session that leaves what was served so.
LEMMA StaysServed ==
  ASSUME Core, ServedInv, session = "up",
         NEW h \in [Slot -> Topic \cup {None}], NEW g, NEW d, NEW q, NEW cs, NEW r \in BOOLEAN,
         \A t \in Topic : ServedBy(t, granted, dropped, toBroker) => ServedBy(t, g, d, q),
         Ordered(d, q),
         \A s \in Slot : \/ h[s] = None
                         \/ h[s] = handlers[s]
                         \/ ServedBy(h[s], g, d, q),
         \A i \in 1..Len(cs) : cs[i].op \in Subscribing =>
           \/ \E j \in 1..Len(calls) : cs[i] = calls[j]
           \/ CallServed(cs[i], h, g, d, q),
         r => restored \/ AllServed(h, g, d, q)
  PROVE  /\ r => AllServed(h, g, d, q)
         /\ \A i \in 1..Len(cs) : CallServed(cs[i], h, g, d, q)
<1>1. Stack(calls) /\ \A s \in Slot : handlers[s] # None => handlers[s] \in Topic
  BY DEF Core, Control, Data
<1>2. r => AllServed(h, g, d, q)
  BY <1>1 DEF AllServed, ServedInv
<1>3. ASSUME NEW i \in 1..Len(cs) PROVE CallServed(cs[i], h, g, d, q)
  <2>1. CASE cs[i].op \notin Subscribing
    BY <2>1 DEF CallServed, Subscribing
  <2>2. CASE \E j \in 1..Len(calls) : cs[i] = calls[j]
    <3>1. PICK j \in 1..Len(calls) : cs[i] = calls[j]
      BY <2>2
    <3> DEFINE c == calls[j]
    <3>2. CallServed(c, handlers, granted, dropped, toBroker) /\ CallOK(c)
      BY <1>1 DEF ServedInv, Stack
    <3> HIDE DEF c
    <3>3. c.op = "subscribe" => ServedBy(c.topic, g, d, q)
      BY <3>2 DEF CallServed, CallOK
    <3>4. c.op = "resubscribe" =>
            \A s \in Slot : h[s] # None /\ s <= c.slot => ServedBy(h[s], g, d, q)
      BY <1>1, <3>2 DEF CallServed
    <3>5. CallServed(c, h, g, d, q)
      BY <3>3, <3>4 DEF CallServed
    <3> QED BY <3>1, <3>5 DEF c
  <2> QED BY <2>1, <2>2
<1> QED BY <1>2, <1>3

\* A packet more on its way, which is no leaving that was not asked for.
LEMMA AppendServed ==
  ASSUME NEW q \in Seq(ToPacket), NEW p \in ToPacket, NEW g, NEW d, NEW e, Ordered(d, q),
         \/ p.type \notin {"SUBSCRIBE", "UNSUBSCRIBE"} /\ e = d
         \/ p.type = "SUBSCRIBE" /\ e = d \ {p.topic}
         \/ p.type = "UNSUBSCRIBE" /\ e = d \cup {p.topic}
  PROVE  /\ Ordered(e, Append(q, p))
         /\ \A t \in Topic : ServedBy(t, g, d, q) => ServedBy(t, g, e, Append(q, p))
         /\ p.type = "SUBSCRIBE" => ServedBy(p.topic, g, e, Append(q, p))
<1> DEFINE a == Append(q, p)
<1>1. /\ Len(q) \in Nat /\ Len(a) = Len(q) + 1 /\ a[Len(q) + 1] = p
      /\ \A i \in 1..Len(q) : a[i] = q[i]
  OBVIOUS
<1> HIDE DEF a
<1>2. p.type = "SUBSCRIBE" => p = [type |-> "SUBSCRIBE", topic |-> p.topic]
  BY DEF ToPacket
<1>3. Ordered(e, a)
  <2> SUFFICES ASSUME NEW i \in 1..Len(a), a[i].type = "UNSUBSCRIBE"
               PROVE  \/ a[i].topic \in e
                      \/ \E j \in i + 1..Len(a) : a[j] = [type |-> "SUBSCRIBE", topic |-> a[i].topic]
    BY DEF Ordered
  <2>1. CASE i = Len(q) + 1
    BY <1>1, <2>1
  <2>2. CASE i \in 1..Len(q)
    <3>1. \/ q[i].topic \in d
          \/ \E j \in i + 1..Len(q) : q[j] = [type |-> "SUBSCRIBE", topic |-> q[i].topic]
      BY <1>1, <2>2 DEF Ordered
    <3>2. CASE q[i].topic \in d
      <4>1. CASE q[i].topic \in e
        BY <1>1, <2>2, <4>1
      <4>2. CASE q[i].topic \notin e
        <5>1. p = [type |-> "SUBSCRIBE", topic |-> q[i].topic]
          BY <1>2, <3>2, <4>2
        <5>2. Len(q) + 1 \in i + 1..Len(a) /\ a[Len(q) + 1] = [type |-> "SUBSCRIBE", topic |-> a[i].topic]
          BY <1>1, <2>2, <5>1
        <5> QED BY <5>2
      <4> QED BY <4>1, <4>2
    <3>3. CASE \E j \in i + 1..Len(q) : q[j] = [type |-> "SUBSCRIBE", topic |-> q[i].topic]
      <4>1. PICK j \in i + 1..Len(q) : q[j] = [type |-> "SUBSCRIBE", topic |-> q[i].topic]
        BY <3>3
      <4>2. j \in i + 1..Len(a) /\ a[j] = [type |-> "SUBSCRIBE", topic |-> a[i].topic]
        BY <1>1, <2>2, <4>1
      <4> QED BY <4>2
    <3> QED BY <3>1, <3>2, <3>3
  <2> QED BY <1>1, <2>1, <2>2
<1>4. ASSUME NEW t \in Topic, ServedBy(t, g, d, q) PROVE ServedBy(t, g, e, a)
  <2>1. CASE t \in g \cup e
    BY <2>1 DEF ServedBy
  <2>2. CASE t \in d /\ t \notin e
    <3>1. p = [type |-> "SUBSCRIBE", topic |-> t]
      BY <1>2, <2>2
    <3> QED BY <1>1, <3>1 DEF ServedBy
  <2>3. CASE \E i \in 1..Len(q) : q[i] = [type |-> "SUBSCRIBE", topic |-> t]
    <3>1. PICK i \in 1..Len(q) : q[i] = [type |-> "SUBSCRIBE", topic |-> t]
      BY <2>3
    <3>2. i \in 1..Len(a) /\ a[i] = [type |-> "SUBSCRIBE", topic |-> t]
      BY <1>1, <3>1
    <3> QED BY <3>2 DEF ServedBy
  <2> QED BY <1>4, <2>1, <2>2, <2>3 DEF ServedBy
<1>5. p.type = "SUBSCRIBE" => ServedBy(p.topic, g, e, a)
  BY <1>1, <1>2 DEF ServedBy
<1> QED BY <1>3, <1>4, <1>5 DEF a

\* A packet the broker takes.
LEMMA TakeServed ==
  ASSUME NEW q \in Seq(ToPacket), q # <<>>, NEW g, NEW h, NEW d, Ordered(d, q),
         \/ q[1].type \notin {"SUBSCRIBE", "UNSUBSCRIBE"} /\ h = g
         \/ q[1].type = "SUBSCRIBE" /\ h = g \cup {q[1].topic}
         \/ q[1].type = "UNSUBSCRIBE" /\ h = g \ {q[1].topic}
  PROVE  /\ Ordered(d, Tail(q))
         /\ \A t \in Topic : ServedBy(t, g, d, q) => ServedBy(t, h, d, Tail(q))
<1> DEFINE r == Tail(q)
<1>1. /\ Len(q) \in Nat \ {0} /\ Len(r) = Len(q) - 1 /\ r \in Seq(ToPacket)
      /\ \A i \in 1..Len(q) - 1 : r[i] = q[i + 1]
  OBVIOUS
<1> HIDE DEF r
<1>2. \A i \in 2..Len(q) : i - 1 \in 1..Len(r) /\ r[i - 1] = q[i]
  BY <1>1
<1>3. Ordered(d, r)
  <2> SUFFICES ASSUME NEW i \in 1..Len(r), r[i].type = "UNSUBSCRIBE", r[i].topic \notin d
               PROVE  \E j \in i + 1..Len(r) : r[j] = [type |-> "SUBSCRIBE", topic |-> r[i].topic]
    BY DEF Ordered
  <2>1. i + 1 \in 1..Len(q) /\ r[i] = q[i + 1]
    BY <1>1
  <2>2. PICK j \in (i + 1) + 1..Len(q) : q[j] = [type |-> "SUBSCRIBE", topic |-> r[i].topic]
    BY <2>1 DEF Ordered
  <2>3. j - 1 \in i + 1..Len(r) /\ r[j - 1] = q[j]
    BY <1>1, <1>2, <2>1, <2>2
  <2> QED BY <2>2, <2>3
<1>4. ASSUME NEW t, NEW j \in 2..Len(q), q[j] = [type |-> "SUBSCRIBE", topic |-> t]
      PROVE  ServedBy(t, h, d, r)
  <2>1. j - 1 \in 1..Len(r) /\ r[j - 1] = [type |-> "SUBSCRIBE", topic |-> t]
    BY <1>2, <1>4
  <2> QED BY <2>1 DEF ServedBy
<1>5. ASSUME NEW t \in Topic, ServedBy(t, g, d, q) PROVE ServedBy(t, h, d, r)
  <2>1. CASE t \in h \cup d
    BY <2>1 DEF ServedBy
  <2>2. CASE t \in g /\ t \notin h \cup d
    <3>1. q[1].type = "UNSUBSCRIBE" /\ q[1].topic = t /\ 1 \in 1..Len(q)
      BY <1>1, <2>2
    <3>2. PICK j \in 1 + 1..Len(q) : q[j] = [type |-> "SUBSCRIBE", topic |-> t]
      BY <2>2, <3>1 DEF Ordered
    <3> QED BY <1>4, <3>2
  <2>3. CASE \E i \in 1..Len(q) : q[i] = [type |-> "SUBSCRIBE", topic |-> t]
    <3>1. PICK i \in 1..Len(q) : q[i] = [type |-> "SUBSCRIBE", topic |-> t]
      BY <2>3
    <3>2. CASE i = 1
      <4>1. q[1].type = "SUBSCRIBE" /\ q[1].topic = t
        BY <3>1, <3>2
      <4>2. t \in h
        BY <4>1
      <4> QED BY <4>2 DEF ServedBy
    <3>3. CASE i # 1
      BY <1>1, <1>4, <3>1, <3>3
    <3> QED BY <3>2, <3>3
  <2> QED BY <1>5, <2>1, <2>2, <2>3 DEF ServedBy
<1> QED BY <1>3, <1>5 DEF r

\* A subscription under way was so before, but for the one a step is about.
LEMMA OldCalls ==
  ASSUME Core, [Next]_vars,
         ~Connect, ~AttemptReconnect, ~LostHandler, ~HandleReconnect,
         NEW i \in 1..Len(calls'), calls'[i].op \in Subscribing
  PROVE  \/ \E j \in 1..Len(calls) : calls'[i] = calls[j]
         \/ i = 1 /\ (ResubscribeAnswered \/ \E t \in Topic : Subscribe(t))
<1> DEFINE j == i + Len(calls) - Len(calls')
<1>1. ASSUME Kept(calls, calls', 0) \/ (Kept(calls, calls', 1) /\ i # 1)
      PROVE  j \in 1..Len(calls) /\ calls'[i] = calls[j]
  <2>1. i > 0 /\ (i # 1 => i > 1)
    OBVIOUS
  <2> QED BY <1>1, <2>1 DEF Kept
<1> HIDE DEF j
<1>2. CASE i # 1
  BY <1>1, <1>2, NextKept
<1>3. CASE i = 1
  <2>1. calls'[1].op \in Subscribing
    BY <1>3
  <2> QED BY <1>1, <1>3, <2>1, NextKept
<1> QED BY <1>2, <1>3

\* A step that touches no packet on its way to the broker.
LEMMA QuietServed ==
  ASSUME Core, ServedInv, [Next]_vars, Data',
         ~Connect, ~AttemptReconnect, ~LostHandler, ~HandleReconnect,
         ~ResubscribeAnswered, ~(\E t \in Topic : Subscribe(t)),
         session' = session, UNCHANGED <<granted, dropped, toBroker, restored>>,
         session = "up" => \A s \in Slot :
           \/ handlers'[s] \in {None, handlers[s]}
           \/ ServedBy(handlers'[s], granted, dropped, toBroker)
  PROVE  ServedInv'
<1> SUFFICES ASSUME session = "up" PROVE ServedInv'
  BY DEF ServedInv
<1>1. /\ handlers' \in [Slot -> Topic \cup {None}] /\ restored \in BOOLEAN
      /\ Ordered(dropped, toBroker)
  BY DEF Data, Core, ServedInv
<1>2. \A i \in 1..Len(calls') : calls'[i].op \in Subscribing =>
        \E j \in 1..Len(calls) : calls'[i] = calls[j]
  BY OldCalls
<1>3. /\ restored => AllServed(handlers', granted, dropped, toBroker)
      /\ \A i \in 1..Len(calls') : CallServed(calls'[i], handlers', granted, dropped, toBroker)
  BY <1>1, <1>2, StaysServed
<1> QED BY <1>1, <1>3 DEF ServedInv

\* A step that sends a packet.
LEMMA SendServed ==
  ASSUME Core, ServedInv, session = "up", session' = session, NEW p \in ToPacket,
         toBroker' = Append(toBroker, p), UNCHANGED <<handlers, granted, restored>>,
         \/ p.type \notin {"SUBSCRIBE", "UNSUBSCRIBE"} /\ dropped' = dropped
         \/ p.type = "SUBSCRIBE" /\ dropped' = dropped \ {p.topic}
         \/ p.type = "UNSUBSCRIBE" /\ dropped' = dropped \cup {p.topic},
         \A i \in 1..Len(calls') : calls'[i].op \in Subscribing =>
           \/ \E j \in 1..Len(calls) : calls'[i] = calls[j]
           \/ CallServed(calls'[i], handlers, granted, dropped', toBroker')
  PROVE  ServedInv'
<1>1. /\ handlers \in [Slot -> Topic \cup {None}] /\ restored \in BOOLEAN
      /\ toBroker \in Seq(ToPacket) /\ Ordered(dropped, toBroker)
  BY DEF Data, Core, Packets, ServedInv
<1>2. /\ Ordered(dropped', toBroker')
      /\ \A t \in Topic : ServedBy(t, granted, dropped, toBroker)
                            => ServedBy(t, granted, dropped', toBroker')
  BY <1>1, AppendServed
<1>3. /\ restored => AllServed(handlers, granted, dropped', toBroker')
      /\ \A i \in 1..Len(calls') : CallServed(calls'[i], handlers, granted, dropped', toBroker')
  BY <1>1, <1>2, StaysServed
<1> QED BY <1>2, <1>3 DEF ServedInv

LEMMA SubscribeServed ==
  ASSUME Core, ServedInv, [Next]_vars, NEW t \in Topic, Subscribe(t),
         ~Connect, ~AttemptReconnect, ~LostHandler, ~HandleReconnect, ~ResubscribeAnswered
  PROVE  ServedInv'
<1> DEFINE p == [type |-> "SUBSCRIBE", topic |-> t]
           c == [op |-> "subscribe", saved |-> state, topic |-> t, slot |-> FirstFree, last |-> 0]
<1>1. /\ session' = session /\ UNCHANGED <<handlers, granted, restored>>
      /\ session = "up" => toBroker' = Append(toBroker, p)
      /\ dropped' = dropped \ {t} /\ calls' = <<c>> \o calls
  BY DEF Subscribe, Send, Push
<1> SUFFICES ASSUME session = "up" PROVE ServedInv'
  BY <1>1 DEF ServedInv
<1>2. p \in ToPacket /\ p.type = "SUBSCRIBE" /\ p.topic = t
  BY DEF ToPacket
<1>3. ServedBy(t, granted, dropped', toBroker')
  <2>1. toBroker \in Seq(ToPacket) /\ Ordered(dropped, toBroker)
    BY DEF Core, Packets, ServedInv
  <2> HIDE DEF p
  <2> QED BY <1>1, <1>2, <2>1, AppendServed
<1>4. c.op = "subscribe" /\ c.topic = t
  OBVIOUS
<1> HIDE DEF p, c
<1>5. calls'[1] = c
  <2>1. \A cs \in Seq(Call) : (<<c>> \o cs)[1] = c
    OBVIOUS
  <2> QED BY <1>1, <2>1 DEF Core, Control, Stack
<1>6. CallServed(c, handlers, granted, dropped', toBroker')
  BY <1>3, <1>4 DEF CallServed
<1>7. \A i \in 1..Len(calls') : calls'[i].op \in Subscribing =>
        \/ \E j \in 1..Len(calls) : calls'[i] = calls[j]
        \/ CallServed(calls'[i], handlers, granted, dropped', toBroker')
  BY <1>5, <1>6, OldCalls
<1> QED BY <1>1, <1>2, <1>7, SendServed

LEMMA ResubscribeServed ==
  ASSUME Core, ServedInv, [Next]_vars, ResubscribeAnswered,
         ~Connect, ~AttemptReconnect, ~LostHandler, ~HandleReconnect
  PROVE  ServedInv'
<1>1. /\ session' = session /\ UNCHANGED <<auto, tls, session, handlers, granted>> /\ Control
      /\ Within /\ Top.op = "resubscribe"
  BY DEF ResubscribeAnswered, Answered, Received, Reading, Core
<1> SUFFICES ASSUME session = "up" PROVE ServedInv'
  BY <1>1 DEF ServedInv
<1>2. /\ Top \in Call /\ Len(calls) > 0 /\ calls \in Seq(Call)
      /\ Top.slot \in 0..NumHandlers + 1 /\ Top.last \in 0..NumHandlers
  <2>1. Top \in Call /\ calls \in Seq(Call) /\ Len(calls) > 0
    BY <1>1, TopCall
  <2> QED BY <2>1 DEF Call
<1>3. \A s \in Used : s <= Top.slot => ServedBy(handlers[s], granted, dropped, toBroker)
  <2>1. CallServed(Top, handlers, granted, dropped, toBroker)
    BY <1>2 DEF ServedInv, Top
  <2> QED BY <1>1, <2>1 DEF CallServed, Used
<1>4. Slot \subseteq Nat
  BY ClientAssumption DEF Slot
<1>5. \A i \in 1..Len(calls') : calls'[i].op \in Subscribing =>
        \/ \E j \in 1..Len(calls) : calls'[i] = calls[j]
        \/ i = 1
  BY OldCalls
<1>6. CASE /\ ToRestore # {} /\ calls' = [calls EXCEPT ![1].slot = NextOne]
           /\ Send("SUBSCRIBE", handlers[NextOne]) /\ dropped' = dropped \ {handlers[NextOne]}
           /\ UNCHANGED <<state, restored>>
  <2> DEFINE t == handlers[NextOne]
             p == [type |-> "SUBSCRIBE", topic |-> t]
  <2>1. /\ NextOne \in ToRestore /\ NextOne \in Slot /\ t \in Topic
        /\ \A r \in ToRestore : NextOne <= r
    BY <1>6, NextToRestore
  <2>2. p \in ToPacket /\ p.type = "SUBSCRIBE" /\ p.topic = t /\ toBroker' = Append(toBroker, p)
    BY <1>6, <2>1 DEF ToPacket, Send
  <2> HIDE DEF p
  <2>3. toBroker \in Seq(ToPacket) /\ Ordered(dropped, toBroker)
    BY DEF Core, Packets, ServedInv
  <2>4. /\ ServedBy(t, granted, dropped', toBroker')
        /\ \A u \in Topic : ServedBy(u, granted, dropped, toBroker)
                              => ServedBy(u, granted, dropped', toBroker')
    BY <1>6, <2>2, <2>3, AppendServed
  <2>5. ASSUME NEW s \in Slot, handlers[s] # None, s <= NextOne
        PROVE  ServedBy(handlers[s], granted, dropped', toBroker')
    <3>1. CASE s = NextOne
      BY <2>4, <3>1
    <3>2. CASE s <= Top.slot
      BY <1>3, <2>4, <2>5, <3>2 DEF Used, Core, Data
    <3>3. CASE s # NextOne /\ ~(s <= Top.slot)
      <4>1. NextOne <= Top.last
        BY <2>1 DEF ToRestore
      <4>2. Top.slot < s /\ s <= Top.last
        BY <1>2, <1>4, <2>1, <2>5, <3>3, <4>1
      <4>3. s \in ToRestore
        BY <2>5, <4>2 DEF ToRestore, Used
      <4>4. NextOne <= s
        BY <2>1, <4>3
      <4> QED BY <1>4, <2>1, <2>5, <3>3, <4>4
    <3> QED BY <3>1, <3>2, <3>3
  <2>6. calls'[1].op = "resubscribe" /\ calls'[1].slot = NextOne
    <3>1. NextOne \in 1..NumHandlers + 1
      BY <2>1, ClientAssumption DEF Slot
    <3>2. calls'[1] = [Top EXCEPT !.slot = NextOne]
      BY <1>1, <1>6, <3>1, SlotControl
    <3> QED BY <1>1, <1>2, <3>2 DEF Call
  <2>7. CallServed(calls'[1], handlers, granted, dropped', toBroker')
    BY <2>5, <2>6 DEF CallServed
  <2>8. dropped' = dropped \ {p.topic}
    BY <1>6, <2>2
  <2> QED BY <1>1, <1>5, <1>6, <2>2, <2>7, <2>8, SendServed
<1>7. CASE /\ ToRestore = {} /\ calls' = Tail(calls)
           /\ restored' = \A s \in Used : s <= Top.last
           /\ UNCHANGED <<toBroker, dropped>>
  <2>1. restored' \in BOOLEAN
    BY <1>7
  <2>2. ASSUME \A s \in Used : s <= Top.last
        PROVE  AllServed(handlers, granted, dropped, toBroker)
    <3> SUFFICES ASSUME NEW s \in Slot, handlers[s] # None
                 PROVE  ServedBy(handlers[s], granted, dropped, toBroker)
      BY DEF AllServed
    <3>1. s \in Used /\ s <= Top.last /\ s \notin ToRestore
      BY <1>7, <2>2 DEF Used
    <3>2. s <= Top.slot
      BY <1>2, <1>4, <3>1 DEF ToRestore
    <3> QED BY <1>3, <3>1, <3>2
  <2>3. restored' => AllServed(handlers, granted, dropped, toBroker)
    BY <1>7, <2>2
  <2>4. \A i \in 1..Len(calls') : \E j \in 1..Len(calls) : calls'[i] = calls[j]
    <3>1. \A i \in 1..Len(calls') : i + 1 \in 1..Len(calls) /\ calls'[i] = calls[i + 1]
      BY <1>2, <1>7
    <3> QED BY <3>1
  <2>5. handlers \in [Slot -> Topic \cup {None}] /\ Ordered(dropped, toBroker)
    BY DEF Core, Data, ServedInv
  <2>6. \A i \in 1..Len(calls') : CallServed(calls'[i], handlers, granted, dropped, toBroker)
    BY <2>1, <2>3, <2>4, <2>5, StaysServed
  <2> QED BY <1>1, <1>7, <2>3, <2>5, <2>6 DEF ServedInv
<1> QED BY <1>6, <1>7 DEF ResubscribeAnswered, NextOne

LEMMA OpenServed ==
  ASSUME Core, handlers' = handlers, NEW below, Stack(below),
         \A i \in 1..Len(below) : below[i].op \notin Subscribing,
         ReconnectOpens(below)
  PROVE  ServedInv'
<1>1. granted' = {} /\ dropped' = {} /\ session' = "up"
  BY DEF ReconnectOpens, OpenSession
<1>2. \A c, h, g, d, q : c.op \notin Subscribing => CallServed(c, h, g, d, q)
  BY DEF CallServed, Subscribing
<1>3. CASE 1 \in Used
  <2> DEFINE c == [op |-> "resubscribe", saved |-> "idle", topic |-> None,
                   slot |-> 1, last |-> LastToRestore]
             p == [type |-> "SUBSCRIBE", topic |-> handlers[1]]
  <2>1. calls' = <<c>> \o below /\ toBroker' = <<p>> /\ restored' = FALSE
    BY <1>3 DEF ReconnectOpens
  <2>2. c.op = "resubscribe" /\ c.slot = 1 /\ p.type = "SUBSCRIBE"
    OBVIOUS
  <2>3. Len(toBroker') = 1 /\ toBroker'[1] = p
    BY <2>1
  <2>4. ServedBy(handlers[1], granted', dropped', toBroker')
    BY <2>3 DEF ServedBy
  <2>5. Ordered(dropped', toBroker')
    BY <2>2, <2>3 DEF Ordered
  <2> HIDE DEF c, p
  <2>6. CallServed(c, handlers, granted', dropped', toBroker')
    BY <2>2, <2>4, ClientAssumption DEF CallServed, Slot
  <2>7. ASSUME NEW i \in 1..Len(calls')
        PROVE  CallServed(calls'[i], handlers, granted', dropped', toBroker')
    <3>1. below \in Seq(Call)
      BY DEF Stack
    <3>2. calls'[i] = c \/ (i - 1 \in 1..Len(below) /\ calls'[i] = below[i - 1])
      BY <2>1, <3>1
    <3> QED BY <1>2, <2>6, <3>2
  <2> QED BY <2>1, <2>5, <2>7 DEF ServedInv
<1>4. CASE 1 \notin Used
  <2>1. calls' = below /\ toBroker' = <<>> /\ restored' = (Used = {})
    BY <1>4 DEF ReconnectOpens
  <2>2. Ordered(dropped', toBroker')
    BY <2>1 DEF Ordered
  <2>3. Used = {} => AllServed(handlers, granted', dropped', toBroker')
    BY DEF Used, AllServed
  <2> QED BY <1>2, <2>1, <2>2, <2>3 DEF ServedInv
<1> QED BY <1>3, <1>4

LEMMA ConnectionServed ==
  ASSUME Core, ServedInv, Connect \/ AttemptReconnect \/ LostHandler \/ HandleReconnect
  PROVE  ServedInv'
<1>0. Control
  BY DEF Core
<1>1. CASE OpenFails
  BY <1>1 DEF OpenFails, ServedInv
<1>2. CASE ~OpenFails /\ Connect
  <2>1. /\ calls = <<>> /\ calls' = <<>> /\ toBroker' = <<>> /\ handlers' = handlers
        /\ restored' = (Used = {})
    BY <1>2 DEF Connect, Within
  <2>2. Ordered(dropped', toBroker')
    BY <2>1 DEF Ordered
  <2>3. Used = {} => AllServed(handlers, granted', dropped', toBroker')
    BY DEF Used, AllServed
  <2>4. \A i \in 1..Len(calls') : FALSE
    BY <2>1
  <2>5. restored' => AllServed(handlers', granted', dropped', toBroker')
    BY <2>1, <2>3
  <2> QED BY <2>2, <2>4, <2>5 DEF ServedInv
<1>3. CASE ~OpenFails /\ AttemptReconnect
  <2>1. ReconnectOpens(<<>>) /\ handlers' = handlers
    BY <1>3 DEF AttemptReconnect, ReconnectFails
  <2> QED BY <2>1, EmptyStack, OpenServed
<1>4. CASE ~OpenFails /\ HandleReconnect
  <2>1. ReconnectOpens(calls) /\ handlers' = handlers /\ Within /\ Top.op = "yield"
    BY <1>4 DEF HandleReconnect, InYield, ReconnectFails
  <2>2. Len(calls) = 1 /\ Stack(calls)
    BY <1>0, <2>1, TopCall DEF Control
  <2>3. \A i \in 1..Len(calls) : calls[i].op \notin Subscribing
    BY <2>1, <2>2 DEF Top, Subscribing
  <2> QED BY <2>1, <2>2, <2>3, OpenServed
<1>5. CASE ~OpenFails /\ LostHandler
  <2> DEFINE below == [calls EXCEPT ![1].slot = 1]
  <2>1. /\ ReconnectOpens(below) /\ handlers' = handlers /\ Within /\ Top.op = "lost"
        /\ ~auto
    BY <1>5 DEF LostHandler, ReconnectFails
  <2>2. Stack(below) /\ \A i \in 1..Len(below) : below[i].op \notin Subscribing
    BY <1>0, <2>1, LostBelow DEF Subscribing
  <2> HIDE DEF below
  <2> QED BY <2>1, <2>2, OpenServed
<1> QED BY <1>1, <1>2, <1>3, <1>4, <1>5

LEMMA NextServed ==
  ASSUME Core, Core', ServedInv, [Next]_vars
  PROVE  ServedInv'
<1>0. Control /\ Data'
  BY DEF Core
<1>1. CASE Connect \/ AttemptReconnect \/ LostHandler \/ HandleReconnect
  BY <1>1, ConnectionServed
<1>2. CASE session' # "up"
  BY <1>2 DEF ServedInv
<1> DEFINE Opens == Connect \/ AttemptReconnect \/ LostHandler \/ HandleReconnect
<1>3. CASE ~Opens /\ ResubscribeAnswered
  BY <1>3, ResubscribeServed
<1>4. CASE ~Opens /\ ~ResubscribeAnswered /\ \E t \in Topic : Subscribe(t)
  BY <1>4, SubscribeServed
<1> DEFINE OtherStep == ~Opens /\ ~ResubscribeAnswered /\ ~(\E t \in Topic : Subscribe(t))
                        /\ session' = "up"
<1>5. ASSUME OtherStep, session' = session, UNCHANGED <<granted, dropped, toBroker, restored, handlers>>
      PROVE  ServedInv'
  BY <1>0, <1>5, QuietServed
<1>6. CASE /\ OtherStep
           /\ \/ RequestFails \/ HandlePublish \/ ReadOther \/ CallHandler \/ HandlersDone
              \/ Yield \/ YieldEnds \/ LostReturns \/ BrokerPublishes \/ PublishAnswered
              \/ UNCHANGED vars
  BY <1>5, <1>6 DEF RequestFails, HandlePublish, ReadOther, CallHandler, HandlersDone, Yield,
    YieldEnds, LostReturns, BrokerPublishes, PublishAnswered, vars, net, history
<1>7. CASE OtherStep /\ UnsubscribeAnswered
  <2>1. /\ session' = session /\ UNCHANGED <<granted, dropped, toBroker, restored>>
        /\ \A s \in Slot : handlers'[s] \in {None, handlers[s]}
    BY <1>7 DEF UnsubscribeAnswered
  <2> QED BY <1>0, <1>7, <2>1, QuietServed
<1>8. CASE OtherStep /\ SubscribeAnswered
  <2>1. /\ session' = session /\ UNCHANGED <<granted, dropped, toBroker, restored>>
        /\ handlers' = [handlers EXCEPT ![Top.slot] = Top.topic]
        /\ Within /\ Top.op = "subscribe"
    BY <1>8 DEF SubscribeAnswered, Answered, Received, Reading
  <2>2. session = "up" => ServedBy(Top.topic, granted, dropped, toBroker)
    <3>1. Len(calls) > 0 /\ calls \in Seq(Call)
      BY <1>0, <2>1, TopCall
    <3> QED BY <2>1, <3>1 DEF ServedInv, CallServed, Top
  <2>3. session = "up" => \A s \in Slot :
          \/ handlers'[s] \in {None, handlers[s]}
          \/ ServedBy(handlers'[s], granted, dropped, toBroker)
    BY <2>1, <2>2 DEF Core, Data
  <2> QED BY <1>0, <1>8, <2>1, <2>3, QuietServed
<1>9. CASE OtherStep /\ (Publish \/ KeepAlive \/ \E t \in Topic : Unsubscribe(t))
  <2>1. /\ session' = session /\ UNCHANGED <<handlers, granted, restored>>
    BY <1>9 DEF Publish, KeepAlive, Unsubscribe, history
  <2>2. \E p \in ToPacket :
          /\ toBroker' = Append(toBroker, p)
          /\ \/ p.type \notin {"SUBSCRIBE", "UNSUBSCRIBE"} /\ dropped' = dropped
             \/ p.type = "UNSUBSCRIBE" /\ dropped' = dropped \cup {p.topic}
    <3>1. CASE Publish
      <4>1. /\ toBroker' = Append(toBroker, [type |-> "PUBLISH", topic |-> None])
            /\ dropped' = dropped
        BY <1>9, <2>1, <3>1 DEF Publish, Send, history
      <4>2. [type |-> "PUBLISH", topic |-> None] \in ToPacket
        BY DEF ToPacket
      <4> QED BY <4>1, <4>2
    <3>2. CASE KeepAlive
      <4>1. /\ toBroker' = Append(toBroker, [type |-> "PINGREQ", topic |-> None])
            /\ dropped' = dropped
        BY <1>9, <2>1, <3>2 DEF KeepAlive, Send, history
      <4>2. [type |-> "PINGREQ", topic |-> None] \in ToPacket
        BY DEF ToPacket
      <4> QED BY <4>1, <4>2
    <3>3. CASE \E t \in Topic : Unsubscribe(t)
      <4>1. PICK t \in Topic : Unsubscribe(t)
        BY <3>3
      <4>2. /\ toBroker' = Append(toBroker, [type |-> "UNSUBSCRIBE", topic |-> t])
            /\ dropped' = dropped \cup {t}
        BY <1>9, <2>1, <4>1 DEF Unsubscribe, Send
      <4>3. [type |-> "UNSUBSCRIBE", topic |-> t] \in ToPacket
        BY DEF ToPacket
      <4> QED BY <4>2, <4>3
    <3> QED BY <1>9, <3>1, <3>2, <3>3
  <2>3. \A i \in 1..Len(calls') : calls'[i].op \in Subscribing =>
          \E j \in 1..Len(calls) : calls'[i] = calls[j]
    BY <1>9, OldCalls
  <2> QED BY <1>9, <2>1, <2>2, <2>3, SendServed
<1>10. CASE OtherStep /\ BrokerAnswers
  <2>1. /\ session = "up" /\ session' = session /\ UNCHANGED <<calls, handlers, dropped, restored>>
        /\ toBroker # <<>> /\ toBroker' = Tail(toBroker)
        /\ granted' = CASE toBroker[1].type = "SUBSCRIBE"   -> granted \cup {toBroker[1].topic}
                        [] toBroker[1].type = "UNSUBSCRIBE" -> granted \ {toBroker[1].topic}
                        [] OTHER -> granted
    BY <1>10 DEF BrokerAnswers, history
  <2>2. /\ toBroker \in Seq(ToPacket) /\ Ordered(dropped, toBroker)
        /\ handlers \in [Slot -> Topic \cup {None}] /\ restored \in BOOLEAN
    BY <2>1 DEF Core, Packets, Data, ServedInv
  <2>3. \/ toBroker[1].type \notin {"SUBSCRIBE", "UNSUBSCRIBE"} /\ granted' = granted
        \/ toBroker[1].type = "SUBSCRIBE" /\ granted' = granted \cup {toBroker[1].topic}
        \/ toBroker[1].type = "UNSUBSCRIBE" /\ granted' = granted \ {toBroker[1].topic}
    BY <2>1
  <2>4. /\ Ordered(dropped, toBroker')
        /\ \A t \in Topic : ServedBy(t, granted, dropped, toBroker)
                              => ServedBy(t, granted', dropped, toBroker')
    BY <2>1, <2>2, <2>3, TakeServed
  <2>5. /\ restored => AllServed(handlers, granted', dropped, toBroker')
        /\ \A i \in 1..Len(calls) : CallServed(calls[i], handlers, granted', dropped, toBroker')
    BY <2>1, <2>2, <2>4, StaysServed
  <2> QED BY <2>1, <2>4, <2>5 DEF ServedInv
<1>11. Disconnect \/ HandleDisconnect \/ SessionBreaks => session' # "up"
  BY DEF Disconnect, HandleDisconnect, SessionBreaks, CloseSession
<1> QED BY <1>1, <1>2, <1>3, <1>4, <1>6, <1>7, <1>8, <1>9, <1>10, <1>11
        DEF Next, Application, Client, World

\* In a session opened by the first connection or fully restored by
\* aws_iot_mqtt_resubscribe, the topic of each handler is granted by the broker,
\* asked for, or was asked to be left, though an acknowledgement is never matched
\* with the request it answers.
THEOREM HandlersGetTheirMessages == Spec => []HandlersAreServed
<1>1. Init => ServedInv
  BY DEF Init, ServedInv
<1>2. Core /\ Core' /\ ServedInv /\ [Next]_vars => ServedInv'
  BY NextServed
<1>3. Core /\ ServedInv => HandlersAreServed
  <2> SUFFICES ASSUME Core, ServedInv, session = "up", restored, NEW s \in Used
               PROVE  handlers[s] \in granted \cup dropped \/ Requested(handlers[s])
    BY DEF HandlersAreServed
  <2>1. ServedBy(handlers[s], granted, dropped, toBroker)
    BY DEF ServedInv, AllServed, Used
  <2>2. DOMAIN toBroker = 1..Len(toBroker)
    BY DEF Core, Packets
  <2> QED BY <2>1, <2>2 DEF ServedBy, Requested
<1> QED BY <1>1, <1>2, <1>3, CoreInvariant, PTL DEF Spec

-----------------------------------------------------------------------------
(* The slot chosen for a subscription.                                     *)

\* A subscription under way is the outermost call, and its slot is still free.
SlotsFree(cs, h) ==
  \A i \in 1..Len(cs) : cs[i].op = "subscribe" => i = Len(cs) /\ h[cs[i].slot] = None

PendingInv == SlotsFree(calls, handlers) /\ AcceptedHasHandler

\* A step that begins no subscription, and leaves the slots that were free so.
LEMMA KeptSlots ==
  ASSUME Core, SlotsFree(calls, handlers), [Next]_vars,
         ~Connect, ~AttemptReconnect, ~LostHandler, ~HandleReconnect,
         ~(\E t \in Topic : Subscribe(t)),
         NEW h, \A s \in Slot : handlers[s] = None => h[s] = None
  PROVE  SlotsFree(calls', h)
<1>0. Control /\ Stack(calls) /\ calls \in Seq(Call)
  BY DEF Core, Control, Stack
<1> SUFFICES ASSUME NEW i \in 1..Len(calls'), calls'[i].op = "subscribe"
             PROVE  i = Len(calls') /\ h[calls'[i].slot] = None
  BY DEF SlotsFree
<1> DEFINE j == i + Len(calls) - Len(calls')
<1>1. ASSUME Kept(calls, calls', 0) \/ (Kept(calls, calls', 1) /\ i # 1)
      PROVE  i = Len(calls') /\ h[calls'[i].slot] = None
  <2>1. i > 0 /\ (i # 1 => i > 1) /\ calls'[i].op \in Subscribing
    BY DEF Subscribing
  <2>2. j \in 1..Len(calls) /\ calls'[i] = calls[j]
    BY <1>1, <2>1 DEF Kept
  <2>3. j = Len(calls) /\ handlers[calls[j].slot] = None /\ calls[j].slot \in Slot
    BY <1>0, <2>2 DEF SlotsFree, Stack, CallOK
  <2>4. i = Len(calls')
    <3>1. calls' \in Seq(Call)
      BY NextControl DEF Control, Stack
    <3> QED BY <1>0, <2>3, <3>1
  <2> QED BY <2>2, <2>3, <2>4
<1> HIDE DEF j
<1>2. CASE i # 1
  BY <1>1, <1>2, NextKept
<1>3. CASE i = 1 /\ ResubscribeAnswered
  <2>1. Within /\ Top.op = "resubscribe"
    BY <1>3 DEF ResubscribeAnswered, Answered, Received, Reading
  <2>2. CASE ToRestore # {} /\ calls' = [calls EXCEPT ![1].slot = NextOne]
    <3>1. NextOne \in 1..NumHandlers + 1
      BY <2>2, NextToRestore, ClientAssumption DEF Slot
    <3>2. calls' = [calls EXCEPT ![1] = [Top EXCEPT !.slot = NextOne]]
      BY <2>2 DEF Top
    <3>3. Top \in Call /\ Len(calls) > 0
      BY <1>0, <2>1, TopCall
    <3>4. [Top EXCEPT !.slot = NextOne].op = Top.op
      BY <3>3 DEF Call
    <3>5. calls'[1] = [Top EXCEPT !.slot = NextOne]
      BY <1>0, <3>2, <3>3
    <3> QED BY <1>3, <2>1, <3>4, <3>5
  <2>3. CASE calls' = Tail(calls)
    <3>1. Kept(calls, calls', 0)
      BY <1>0, <2>1, <2>3, KeptCalls DEF Within
    <3> QED BY <1>1, <3>1
  <2> QED BY <1>3, <2>2, <2>3 DEF ResubscribeAnswered, NextOne
<1>4. CASE i = 1 /\ ~ResubscribeAnswered
  <2>1. calls'[1].op \in Subscribing
    BY <1>4 DEF Subscribing
  <2> QED BY <1>1, <1>4, <2>1, NextKept
<1> QED BY <1>2, <1>3, <1>4

\* A session is not opened in a subscription.
LEMMA OpeningCalls ==
  ASSUME Core, Connect \/ AttemptReconnect \/ LostHandler \/ HandleReconnect
  PROVE  SlotsFree(calls', handlers')
<1>0. Control /\ Stack(calls)
  BY DEF Core, Control
<1>1. ASSUME NEW below, Stack(below), \A i \in 1..Len(below) : below[i].op \notin Subscribing,
             ReconnectOpens(below) \/ ReconnectFails(below)
      PROVE  SlotsFree(calls', handlers')
  <2> DEFINE c == [op |-> "resubscribe", saved |-> "idle", topic |-> None,
                   slot |-> 1, last |-> LastToRestore]
  <2>1. calls' = below \/ calls' = <<c>> \o below
    BY <1>1 DEF ReconnectOpens, ReconnectFails
  <2>2. c.op = "resubscribe" /\ below \in Seq(Call)
    BY <1>1 DEF Stack
  <2> HIDE DEF c
  <2>3. ASSUME NEW i \in 1..Len(calls') PROVE calls'[i].op # "subscribe"
    <3>1. CASE calls' = below
      BY <1>1, <3>1 DEF Subscribing
    <3>2. CASE calls' = <<c>> \o below
      <4>1. calls'[i] = c \/ (i - 1 \in 1..Len(below) /\ calls'[i] = below[i - 1])
        BY <2>2, <3>2
      <4> QED BY <1>1, <2>2, <4>1 DEF Subscribing
    <3> QED BY <2>1, <3>1, <3>2
  <2> QED BY <2>3 DEF SlotsFree
<1>2. CASE Connect
  <2>1. calls' = <<>>
    BY <1>2 DEF Connect, Within
  <2>2. \A i \in 1..Len(calls') : FALSE
    BY <2>1
  <2> QED BY <2>2 DEF SlotsFree
<1>3. CASE AttemptReconnect
  BY <1>1, <1>3, EmptyStack DEF AttemptReconnect
<1>4. CASE HandleReconnect
  <2>1. /\ ReconnectOpens(calls) \/ ReconnectFails(calls)
        /\ Within /\ Top.op = "yield"
    BY <1>4 DEF HandleReconnect, InYield
  <2>2. Len(calls) = 1
    BY <1>0, <2>1, TopCall
  <2>3. \A i \in 1..Len(calls) : calls[i].op \notin Subscribing
    BY <2>1, <2>2 DEF Top, Subscribing
  <2> QED BY <1>0, <1>1, <2>1, <2>3
<1>5. CASE LostHandler
  <2> DEFINE below == [calls EXCEPT ![1].slot = 1]
  <2>1. /\ ReconnectOpens(below) \/ ReconnectFails(below)
        /\ Within /\ Top.op = "lost" /\ ~auto
    BY <1>5 DEF LostHandler
  <2>2. Stack(below) /\ \A i \in 1..Len(below) : below[i].op \notin Subscribing
    BY <1>0, <2>1, LostBelow DEF Subscribing
  <2> HIDE DEF below
  <2> QED BY <1>1, <2>1, <2>2
<1> QED BY <1>2, <1>3, <1>4, <1>5

LEMMA NextPending ==
  ASSUME Core, PendingInv, [Next]_vars, "subscribe" \notin CallbackOps
  PROVE  PendingInv'
<1>0. /\ Control /\ Stack(calls) /\ SlotsFree(calls, handlers) /\ AcceptedHasHandler
      /\ handlers \in [Slot -> Topic \cup {None}] /\ held \in SUBSET Topic
      /\ None \notin Topic
  BY ClientAssumption DEF Core, Control, Data, PendingInv
<1> DEFINE Opens == Connect \/ AttemptReconnect \/ LostHandler \/ HandleReconnect
<1>1. CASE Opens
  <2>1. UNCHANGED <<handlers, held>>
    BY <1>1 DEF Connect, AttemptReconnect, LostHandler, HandleReconnect
  <2>2. AcceptedHasHandler'
    BY <1>0, <2>1 DEF AcceptedHasHandler
  <2>3. SlotsFree(calls', handlers')
    BY <1>1, OpeningCalls
  <2> QED BY <2>2, <2>3 DEF PendingInv
<1>2. CASE \E t \in Topic : Subscribe(t)
  <2>1. PICK t \in Topic : Subscribe(t)
    BY <1>2
  <2> DEFINE c == [op |-> "subscribe", saved |-> state, topic |-> t, slot |-> FirstFree, last |-> 0]
  <2>2. /\ calls = <<>> /\ calls' = <<c>> \o calls /\ FirstFree \in Slot
        /\ UNCHANGED <<handlers, held>>
    BY <2>1 DEF Subscribe, MayStart, Within, Push
  <2>3. c.slot = FirstFree
    OBVIOUS
  <2>4. handlers[FirstFree] = None
    BY <2>2, FirstFreeIsFree DEF Used
  <2> HIDE DEF c
  <2>5. Len(calls') = 1 /\ calls'[1] = c
    BY <2>2
  <2>6. SlotsFree(calls', handlers')
    BY <2>2, <2>3, <2>4, <2>5 DEF SlotsFree
  <2>7. AcceptedHasHandler'
    BY <1>0, <2>2 DEF AcceptedHasHandler
  <2> QED BY <2>6, <2>7 DEF PendingInv
<1>3. CASE ~Opens /\ ~(\E t \in Topic : Subscribe(t)) /\ UNCHANGED <<handlers, held>>
  <2>1. SlotsFree(calls', handlers')
    BY <1>0, <1>3, KeptSlots
  <2>2. AcceptedHasHandler'
    BY <1>0, <1>3 DEF AcceptedHasHandler
  <2> QED BY <2>1, <2>2 DEF PendingInv
<1>4. CASE ~Opens /\ ~(\E t \in Topic : Subscribe(t)) /\ SubscribeAnswered
  <2>1. /\ Within /\ Top.op = "subscribe"
        /\ handlers' = [handlers EXCEPT ![Top.slot] = Top.topic]
        /\ held' = held \cup {Top.topic}
        /\ calls' = Overwritten(Tail(calls))
    BY <1>4 DEF SubscribeAnswered, Answered, Received, Reading, Returns
  <2>2. Len(calls) = 1 /\ handlers[Top.slot] = None /\ Top.slot \in Slot /\ Top.topic \in Topic
    <3>1. Len(calls) > 0 /\ calls \in Seq(Call) /\ CallOK(Top)
      BY <1>0, <2>1, TopCall
    <3>2. 1 \in 1..Len(calls) /\ calls[1].op = "subscribe"
      BY <2>1, <3>1 DEF Top
    <3>3. Len(calls) = 1 /\ handlers[Top.slot] = None
      BY <1>0, <3>2 DEF SlotsFree, Top
    <3> QED BY <2>1, <3>1, <3>3 DEF CallOK
  <2>3. \A i \in 1..Len(calls') : FALSE
    <3>1. Stack(Tail(calls)) /\ Len(Tail(calls)) = 0
      BY <1>0, <2>1, <2>2, PopStack DEF Within
    <3>2. Len(calls') = 0
      BY <2>1, <3>1, OverwrittenStack
    <3> QED BY <3>2
  <2>4. ASSUME NEW t \in held' PROVE \E s \in Slot : handlers'[s] = t
    <3>1. CASE t = Top.topic
      BY <1>0, <2>1, <2>2, <3>1
    <3>2. CASE t \in held
      <4>1. PICK s \in Slot : handlers[s] = t
        BY <1>0, <3>2 DEF AcceptedHasHandler
      <4>2. s # Top.slot
        BY <1>0, <2>2, <3>2, <4>1
      <4> QED BY <1>0, <2>1, <4>1, <4>2
    <3> QED BY <2>1, <3>1, <3>2
  <2> QED BY <2>3, <2>4 DEF PendingInv, SlotsFree, AcceptedHasHandler
<1>5. CASE ~Opens /\ ~(\E t \in Topic : Subscribe(t)) /\ UnsubscribeAnswered
  <2>1. /\ handlers' = [s \in Slot |-> IF handlers[s] = Top.topic THEN None ELSE handlers[s]]
        /\ held' = held \ {Top.topic}
    BY <1>5 DEF UnsubscribeAnswered
  <2>2. SlotsFree(calls', handlers')
    BY <1>0, <1>5, <2>1, KeptSlots
  <2>3. AcceptedHasHandler'
    BY <1>0, <2>1 DEF AcceptedHasHandler
  <2> QED BY <2>2, <2>3 DEF PendingInv
<1>6. \/ Opens \/ (\E t \in Topic : Subscribe(t)) \/ UNCHANGED <<handlers, held>>
      \/ SubscribeAnswered \/ UnsubscribeAnswered
  BY DEF Next, Application, Client, World, Disconnect, Publish, Yield, Unsubscribe,
    PublishAnswered, ResubscribeAnswered, RequestFails, HandlePublish, ReadOther, CallHandler,
    HandlersDone, YieldEnds, KeepAlive, HandleDisconnect, LostReturns, BrokerAnswers,
    BrokerPublishes, SessionBreaks, vars, history
<1> QED BY <1>1, <1>2, <1>3, <1>4, <1>5, <1>6

\* If no message handler subscribes, as none of the firmware does, a topic
\* subscribed to with success keeps a handler until it is left: the slot
\* _aws_iot_mqtt_internal_subscribe chooses before it waits for the SUBACK is
\* still free when the answer is there, whatever handlers do in between.
THEOREM SubscriptionsHaveHandlers ==
  ASSUME "subscribe" \notin CallbackOps
  PROVE  Spec => []AcceptedHasHandler
<1>1. Init => PendingInv
  BY DEF Init, PendingInv, SlotsFree, AcceptedHasHandler
<1>2. Core /\ PendingInv /\ [Next]_vars => PendingInv'
  BY NextPending
<1>3. PendingInv => AcceptedHasHandler
  BY DEF PendingInv
<1> QED BY <1>1, <1>2, <1>3, CoreInvariant, PTL DEF Spec

-----------------------------------------------------------------------------
(* The lengths of packets.                                                 *)

LEMMA WrittenDigits ==
  ASSUME NEW n \in Nat, NEW i \in 1..LengthSize(n)
  PROVE  /\ Len(WriteLength(n)) = LengthSize(n)
         /\ DOMAIN WriteLength(n) = 1..LengthSize(n)
         /\ WriteLength(n)[i] = ((n \div Power[i]) % Radix)
                                  + (IF i < LengthSize(n) THEN Radix ELSE 0)
BY SMT DEF WriteLength, LengthSize

\* The digits are bytes, and only the last has its top bit clear.
LEMMA DigitBytes ==
  ASSUME NEW n \in Nat, NEW i \in 1..LengthSize(n)
  PROVE  /\ LengthSize(n) \in 1..4
         /\ WriteLength(n)[i] \in Byte
         /\ WriteLength(n)[i] < 128 <=> i = LengthSize(n)
         /\ WriteLength(n)[i] % 128 = (n \div Power[i]) % 128
<1> DEFINE s == WriteLength(n)
           z == LengthSize(n)
<1>1. z \in 1..4 BY SMT DEF LengthSize
<1>2. s[i] = ((n \div Power[i]) % 128) + (IF i < z THEN 128 ELSE 0)
  BY WrittenDigits, SMT DEF Radix
<1>3. Power[i] \in {1, 128, 16384, 128 * 16384} BY <1>1, SMT DEF Power
<1>4. n \div Power[i] \in Nat BY <1>3, SMT
<1> DEFINE d == (n \div Power[i]) % 128
<1>5. d \in 0..127 BY <1>4, SMT
<1>6. s[i] = d + (IF i < z THEN 128 ELSE 0) BY <1>2
<1> HIDE DEF s, z, d
<1>7. s[i] % 128 = d BY <1>5, <1>6, SMT
<1>8. s[i] \in Byte /\ (s[i] < 128 <=> i = z) BY <1>1, <1>5, <1>6, SMT DEF Byte, z
<1> QED BY <1>1, <1>7, <1>8 DEF s, z, d

\* The digits of a length are as many as its size says.
LEMMA DigitSequence ==
  ASSUME NEW n \in Nat
  PROVE  /\ LengthSize(n) \in 1..4 /\ Len(WriteLength(n)) = LengthSize(n)
         /\ WriteLength(n) \in Seq(Byte)
<1> DEFINE s == WriteLength(n)
           z == LengthSize(n)
<1>1. z \in 1..4 /\ Len(s) = z BY WrittenDigits, SMT DEF LengthSize
<1>2. s = [i \in 1..z |-> s[i]] BY WrittenDigits, <1>1, SMT DEF WriteLength
<1>3. \A i \in 1..z : s[i] \in Byte BY DigitBytes
<1> HIDE DEF s, z
<1>4. s \in Seq(Byte) BY <1>1, <1>2, <1>3, SMT
<1> QED BY <1>1, <1>4 DEF s, z

\* A buffer the serializers take for large enough holds the packet: the
\* estimate of its length is never too small, and at most one too large.
THEOREM EstimateCovers ==
  ASSUME NEW n \in Nat
  PROVE  /\ 1 + Len(WriteLength(n)) + n <= FinalLength(n)
         /\ FinalLength(n) <= 2 + Len(WriteLength(n)) + n
<1>1. Len(WriteLength(n)) = LengthSize(n) BY WrittenDigits, SMT DEF LengthSize
<1> QED BY <1>1, SMT DEF FinalLength, LengthSize

\* The length read is the length written, for every length four digits hold.
THEOREM LengthRoundTrip ==
  ASSUME NEW n \in Nat, n \div (128 * 16384) < 128
  PROVE  /\ LengthEnd(WriteLength(n), 1) = Len(WriteLength(n))
         /\ ReadLength(WriteLength(n), 1, Len(WriteLength(n))) = n
<1> DEFINE s == WriteLength(n)
           z == LengthSize(n)
<1>1. z \in 1..4 /\ Len(s) = z BY DigitSequence
<1>2. \A i \in 1..z : /\ s[i] \in Byte
                      /\ s[i] < 128 <=> i = z
                      /\ s[i] % 128 = (n \div Power[i]) % 128
  <2> SUFFICES ASSUME NEW i \in 1..z
               PROVE  /\ s[i] \in Byte
                      /\ s[i] < 128 <=> i = z
                      /\ s[i] % 128 = (n \div Power[i]) % 128
    OBVIOUS
  <2> QED BY DigitBytes
<1> HIDE DEF s, z
<1>3. LengthEnd(s, 1) = Len(s)
  <2> DEFINE last == {k \in 1..MaxBytes : 1 + k - 1 <= Len(s) /\ s[1 + k - 1] < Radix}
  <2>1. last = {z} BY <1>1, <1>2, SMT DEF MaxBytes, Radix, Byte
  <2>2. LengthEnd(s, 1) = IF last = {} THEN 0 ELSE 1 - 1 + CHOOSE k \in last : \A j \in last : k <= j
    BY SMT DEF LengthEnd
  <2> DEFINE first(S) == CHOOSE k \in S : \A j \in S : k <= j
  <2>3. first({z}) = z BY <1>1, SMT
  <2>4. LengthEnd(s, 1) = IF last = {} THEN 0 ELSE 1 - 1 + first(last) BY <2>2
  <2> HIDE DEF last, first
  <2> QED BY <1>1, <2>1, <2>3, <2>4, SMT
<1>4. \A i \in 1..4 : Digit(s, 1, z, i) = IF i <= z THEN ((n \div Power[i]) % 128) * Power[i] ELSE 0
  BY <1>1, <1>2, SMT DEF Digit, Radix
<1>5. ReadLength(s, 1, z) = Digit(s, 1, z, 1) + Digit(s, 1, z, 2) + Digit(s, 1, z, 3) + Digit(s, 1, z, 4)
  BY SMT DEF ReadLength
<1>6. ReadLength(s, 1, z) = n
  <2> DEFINE D(p) == (n \div p) % 128
  <2>1. /\ Digit(s, 1, z, 1) = D(1)
        /\ Digit(s, 1, z, 2) = IF 2 <= z THEN D(128) * 128 ELSE 0
        /\ Digit(s, 1, z, 3) = IF 3 <= z THEN D(16384) * 16384 ELSE 0
        /\ Digit(s, 1, z, 4) = IF 4 <= z THEN D(128 * 16384) * 128 * 16384 ELSE 0
    BY <1>1, <1>4, SMT DEF Power
  <2>2. n = D(1) + D(128) * 128 + D(16384) * 16384 + D(128 * 16384) * 128 * 16384 BY SMT
  <2>3. /\ D(1) \in Nat /\ D(128) \in Nat /\ D(16384) \in Nat /\ D(128 * 16384) \in Nat
    BY SMT
  <2>4. /\ z < 2 => D(128) = 0
        /\ z < 3 => D(16384) = 0
        /\ z < 4 => D(128 * 16384) = 0
    BY SMT DEF LengthSize, z
  <2> QED BY <1>1, <1>5, <2>1, <2>2, <2>3, <2>4, SMT
<1> QED BY <1>1, <1>3, <1>6, SMT DEF s, z

-----------------------------------------------------------------------------
(* The bytes of packets.                                                   *)

\* Two sequences, one after the other.
LEMMA Joined ==
  ASSUME NEW S, NEW s \in Seq(S), NEW t \in Seq(S)
  PROVE  /\ s \o t \in Seq(S)
         /\ Len(s \o t) = Len(s) + Len(t)
         /\ \A i \in 1..Len(s) : (s \o t)[i] = s[i]
         /\ \A i \in 1..Len(t) : (s \o t)[Len(s) + i] = t[i]
<1>1. /\ s \o t \in Seq(S)
      /\ Len(s \o t) = Len(s) + Len(t)
      /\ \A i \in 1..Len(s) + Len(t) : (s \o t)[i] = IF i <= Len(s) THEN s[i] ELSE t[i - Len(s)]
  BY ConcatProperties
<1>2. Len(s) \in Nat /\ Len(t) \in Nat BY LenProperties
<1> DEFINE u == s \o t
           m == Len(s)
           n == Len(t)
<1>3. m \in Nat /\ n \in Nat /\ \A i \in 1..m + n : u[i] = IF i <= m THEN s[i] ELSE t[i - m]
  BY <1>1, <1>2
<1> HIDE DEF u, m, n
<1>4. \A i \in 1..m : u[i] = s[i] BY <1>3, SMT
<1>5. \A i \in 1..n : u[m + i] = t[i] BY <1>3, SMT
<1> QED BY <1>1, <1>4, <1>5 DEF u, m, n

\* Three runs of bytes, as the rests of packets are put together from.
LEMMA JoinedBytes ==
  ASSUME NEW a \in Seq(Byte), NEW b \in Seq(Byte), NEW c \in Seq(Byte)
  PROVE  /\ a \o b \in Seq(Byte) /\ Len(a \o b) = Len(a) + Len(b)
         /\ a \o b \o c \in Seq(Byte) /\ Len(a \o b \o c) = Len(a) + Len(b) + Len(c)
         /\ Len(a) \in Nat /\ Len(b) \in Nat /\ Len(c) \in Nat
<1>1. a \o b \in Seq(Byte) /\ Len(a \o b) = Len(a) + Len(b) BY Joined
<1>2. a \o b \o c \in Seq(Byte) /\ Len(a \o b \o c) = Len(a \o b) + Len(c) BY <1>1, Joined
<1>3. Len(a) \in Nat /\ Len(b) \in Nat /\ Len(c) \in Nat BY LenProperties
<1> QED BY <1>1, <1>2, <1>3

\* A word has its two bytes, a string its length before its bytes.
LEMMA WordBytes ==
  ASSUME NEW n \in Id
  PROVE  /\ Word(n) \in Seq(Byte) /\ Len(Word(n)) = 2
         /\ Word(n)[1] = n \div 256 /\ Word(n)[2] = n % 256
         /\ 256 * Word(n)[1] + Word(n)[2] = n
<1>1. n \in Nat /\ n < 65536 BY SMT DEF Id
<1> DEFINE a == n \div 256
           b == n % 256
<1>2. a \in 0..255 BY <1>1, SMT
<1>3. b \in 0..255 BY <1>1, SMT
<1>4. 256 * (n \div 256) + (n % 256) = n BY <1>1, SMT
<1>5. Word(n) = <<a, b>> BY DEF Word
<1>6. a \in Byte /\ b \in Byte /\ 256 * a + b = n BY <1>2, <1>3, <1>4 DEF Byte
<1> HIDE DEF a, b
<1>7. <<a, b>> \in Seq(Byte) BY <1>6
<1>8. Len(<<a, b>>) = 2 /\ <<a, b>>[1] = a /\ <<a, b>>[2] = b BY SMT
<1> QED BY <1>5, <1>6, <1>7, <1>8 DEF a, b

\* A name is written as its length and its bytes.
LEMMA StringBytes ==
  ASSUME NEW s \in Name
  PROVE  /\ String(s) \in Seq(Byte) /\ Len(String(s)) = 2 + Len(s) /\ Len(String(s)) < 65538
         /\ s \in Seq(Byte) /\ Len(s) \in Id
         /\ String(s)[1] = Word(Len(s))[1] /\ String(s)[2] = Word(Len(s))[2]
         /\ \A i \in 1..Len(s) : String(s)[2 + i] = s[i]
<1>1. s \in Seq(Byte) BY SMT DEF Name
<1>2. Len(s) \in Nat /\ Len(s) < 65536 BY SMT DEF Name
<1>3. Len(s) \in Id
  <2>1. \A n \in Nat : n < 65536 => n \in Id BY SMT DEF Id
  <2> QED BY <1>2, <2>1
<1> DEFINE w == Word(Len(s))
<1>4. w \in Seq(Byte) BY <1>3, WordBytes
<1>4a. Len(w) = 2 BY <1>3, WordBytes
<1>5. String(s) = w \o s BY DEF String
<1> HIDE DEF w
<1>6. w \o s \in Seq(Byte) BY <1>1, <1>4, Joined
<1>7. Len(w \o s) = Len(w) + Len(s) BY <1>1, <1>4, Joined
<1>8. \A i \in 1..Len(w) : (w \o s)[i] = w[i] BY <1>1, <1>4, Joined
<1>9. \A i \in 1..Len(s) : (w \o s)[Len(w) + i] = s[i] BY <1>1, <1>4, Joined
<1> DEFINE u == w \o s
           m == Len(s)
<1>10. u[1] = w[1] /\ u[2] = w[2]
  <2>1. \A i \in 1..2 : u[i] = w[i] BY <1>4a, <1>8
  <2> HIDE DEF u
  <2> QED BY <2>1, SMT
<1>11. \A i \in 1..Len(s) : u[2 + i] = s[i] BY <1>4a, <1>9
<1>12. m \in Nat /\ m < 65536 /\ Len(u) = 2 + m BY <1>2, <1>4a, <1>7
<1> HIDE DEF u, m
<1>13. Len(u) = 2 + m /\ Len(u) < 65538 BY <1>12, SMT
<1> QED BY <1>1, <1>3, <1>5, <1>6, <1>10, <1>11, <1>13 DEF w, u, m

AnyPacket == FromBroker \cup FromClient

\* A packet is a publication, one that only a client or only a broker sends, or an
\* acknowledgement.
LEMMA PacketKinds ==
  ASSUME NEW p \in AnyPacket
  PROVE  \/ p \in Publications
         \/ p \in [type : {"CONNACK"}, code : Byte]
         \/ p \in [type : {"SUBACK"}, id : Id, granted : Seq(Byte)] /\ Len(p.granted) <= 2
         \/ p \in [type : {"PUBACK", "UNSUBACK"}, id : Id]
         \/ p \in [type : {"PINGREQ", "PINGRESP", "DISCONNECT"}]
         \/ p \in [type : {"CONNECT"}, clean : BOOLEAN, keepalive : Id, client : Name, user : Name]
         \/ p \in [type : {"SUBSCRIBE"}, id : Id, topic : Name, qos : 0..1]
         \/ p \in [type : {"UNSUBSCRIBE"}, id : Id, topic : Name]
BY DEF AnyPacket, FromBroker, FromClient

\* The rest of every packet is bytes, and its length has four digits at most.
LEMMA RestBytes ==
  ASSUME NEW p \in AnyPacket
  PROVE  Rest(p) \in Seq(Byte) /\ Short(p)
<1> DEFINE Small(s) == s \in Seq(Byte) /\ Len(s) < 128 * 16384 * 128
<1> SUFFICES Small(Rest(p)) BY DEF Short
<1>1. CASE p \in Publications
  <2>1. /\ p.type = "PUBLISH" /\ p.topic \in Name /\ p.id \in Id /\ p.payload \in Seq(Byte)
        /\ Short(p)
    BY <1>1 DEF Publications
  <2>2. Rest(p) = PublishRest(p) BY <2>1 DEF Rest
  <2> DEFINE a == String(p.topic)
             b == IF p.qos > 0 THEN Word(p.id) ELSE <<>>
             c == p.payload
  <2>3. a \in Seq(Byte) BY <2>1, StringBytes
  <2>4. b \in Seq(Byte) BY <2>1, WordBytes, EmptySeq
  <2>5. c \in Seq(Byte) BY <2>1
  <2>6. PublishRest(p) = a \o b \o c BY DEF PublishRest
  <2> HIDE DEF a, b, c
  <2>7. a \o b \o c \in Seq(Byte) BY <2>3, <2>4, <2>5, JoinedBytes
  <2> QED BY <2>1, <2>2, <2>6, <2>7 DEF Short
<1>2. CASE p \in [type : {"CONNACK"}, code : Byte]
  <2>1. p.type = "CONNACK" /\ p.code \in Byte BY <1>2
  <2>2. Rest(p) = <<0, p.code>> BY <2>1 DEF Rest
  <2> DEFINE c == p.code
  <2>3. c \in Byte /\ Rest(p) = <<0, c>> BY <2>1, <2>2
  <2> HIDE DEF c
  <2>4. <<0, c>> \in Seq(Byte) /\ Len(<<0, c>>) = 2 BY <2>3, SMT DEF Byte
  <2> QED BY <2>3, <2>4, SMT
<1>3. CASE p \in [type : {"SUBACK"}, id : Id, granted : Seq(Byte)] /\ Len(p.granted) <= 2
  <2>1. p.type = "SUBACK" /\ p.id \in Id /\ p.granted \in Seq(Byte) /\ Len(p.granted) <= 2 BY <1>3
  <2> DEFINE a == Word(p.id)
             b == p.granted
  <2>2. Rest(p) = a \o b BY <2>1 DEF Rest
  <2>3. a \in Seq(Byte) /\ Len(a) = 2 /\ b \in Seq(Byte) /\ Len(b) <= 2 BY <2>1, WordBytes
  <2> HIDE DEF a, b
  <2>4. /\ a \o b \in Seq(Byte) /\ Len(a \o b) = Len(a) + Len(b)
        /\ Len(a) \in Nat /\ Len(b) \in Nat
    BY <2>3, JoinedBytes
  <2>5. Len(a \o b) <= 4 BY <2>3, <2>4, SMT
  <2> QED BY <2>2, <2>4, <2>5, SMT
<1>4. CASE p \in [type : {"PUBACK", "UNSUBACK"}, id : Id]
  <2>1. p.type \in {"PUBACK", "UNSUBACK"} /\ p.id \in Id BY <1>4
  <2>2. Rest(p) = Word(p.id) BY <2>1 DEF Rest, AckRest
  <2>3. Rest(p) \in Seq(Byte) /\ Len(Rest(p)) = 2 BY <2>1, <2>2, WordBytes
  <2> QED BY <2>3, SMT
<1>5. CASE p \in [type : {"PINGREQ", "PINGRESP", "DISCONNECT"}]
  <2>1. p.type \in {"PINGREQ", "PINGRESP", "DISCONNECT"} BY <1>5
  <2>2. Rest(p) = <<>> BY <2>1 DEF Rest
  <2> QED BY <2>2, SMT
<1>6. CASE p \in [type : {"CONNECT"}, clean : BOOLEAN, keepalive : Id, client : Name, user : Name]
  <2>1. /\ p.type = "CONNECT" /\ p.clean \in BOOLEAN /\ p.keepalive \in Id
        /\ p.client \in Name /\ p.user \in Name
    BY <1>6
  <2> DEFINE m == String(<<77, 81, 84, 84>>)
             f == (IF p.clean THEN 2 ELSE 0) + (IF p.user # <<>> THEN 128 ELSE 0)
             k == Word(p.keepalive)
             c == String(p.client)
             u == IF p.user # <<>> THEN String(p.user) ELSE <<>>
  <2>2. Rest(p) = m \o <<4, f>> \o k \o c \o u BY <2>1 DEF Rest, ConnectRest
  <2>3. <<77, 81, 84, 84>> \in Name BY SMT DEF Name, Byte
  <2>4. m \in Seq(Byte) /\ Len(m) = 6
    <3> DEFINE mqtt == <<77, 81, 84, 84>>
    <3>1. Len(mqtt) = 4 BY SMT
    <3>2. mqtt \in Name BY <2>3
    <3> HIDE DEF mqtt
    <3>3. String(mqtt) \in Seq(Byte) /\ Len(String(mqtt)) = 2 + Len(mqtt) BY <3>2, StringBytes
    <3>4. Len(String(mqtt)) = 6 BY <3>1, <3>3, SMT
    <3> QED BY <3>3, <3>4 DEF mqtt
  <2>5. f \in {0, 2, 128, 130} BY <2>1
  <2>6. k \in Seq(Byte) /\ Len(k) = 2 BY <2>1, WordBytes
  <2>7. c \in Seq(Byte) /\ Len(c) < 65538 BY <2>1, StringBytes
  <2>8. u \in Seq(Byte) /\ Len(u) < 65538
    <3>1. CASE p.user # <<>>
      <4>1. u = String(p.user) BY <3>1
      <4> QED BY <2>1, <4>1, StringBytes
    <3>2. CASE p.user = <<>>
      <4>1. u = <<>> BY <3>2
      <4>2. <<>> \in Seq(Byte) /\ Len(<<>>) = 0 BY EmptySeq
      <4>3. u \in Seq(Byte) /\ Len(u) = 0 BY <4>1, <4>2
      <4> QED BY <4>3, SMT
    <3> QED BY <3>1, <3>2
  <2> HIDE DEF m, f, k, c, u
  <2>9. <<4, f>> \in Seq(Byte) /\ Len(<<4, f>>) = 2 BY <2>5, SMT DEF Byte
  <2> DEFINE h == <<4, f>>
  <2>10. h \in Seq(Byte) /\ Len(h) = 2 BY <2>9
  <2>11. Rest(p) = m \o h \o k \o c \o u BY <2>2
  <2>12. Len(m) = 6 BY <2>4
  <2> HIDE DEF h
  <2>13. /\ m \o h \o k \o c \o u \in Seq(Byte)
         /\ Len(m \o h \o k \o c \o u) = Len(m) + Len(h) + Len(k) + Len(c) + Len(u)
         /\ Len(c) \in Nat /\ Len(u) \in Nat
    <3>1. /\ m \o h \o k \in Seq(Byte)
          /\ Len(m \o h \o k) = Len(m) + Len(h) + Len(k)
      BY <2>4, <2>6, <2>10, JoinedBytes
    <3> QED BY <2>7, <2>8, <3>1, JoinedBytes
  <2>14. Len(m) + Len(h) + Len(k) + Len(c) + Len(u) < 128 * 16384 * 128
    BY <2>6, <2>7, <2>8, <2>10, <2>12, <2>13, SMT
  <2> QED BY <2>11, <2>13, <2>14
<1>7. CASE p \in [type : {"SUBSCRIBE"}, id : Id, topic : Name, qos : 0..1]
  <2>1. p.type = "SUBSCRIBE" /\ p.id \in Id /\ p.topic \in Name /\ p.qos \in 0..1 BY <1>7
  <2> DEFINE a == Word(p.id)
             b == String(p.topic)
             q == p.qos
  <2>2. Rest(p) = a \o b \o <<q>> BY <2>1 DEF Rest, SubscribeRest
  <2>3. a \in Seq(Byte) /\ Len(a) = 2 BY <2>1, WordBytes
  <2>4. b \in Seq(Byte) /\ Len(b) < 65538 BY <2>1, StringBytes
  <2>6. q \in 0..1 BY <2>1
  <2> HIDE DEF a, b, q
  <2>7. <<q>> \in Seq(Byte) /\ Len(<<q>>) = 1 BY <2>6, SMT DEF Byte
  <2> DEFINE c == <<q>>
  <2>8. c \in Seq(Byte) /\ Len(c) = 1 BY <2>7
  <2>9. Rest(p) = a \o b \o c BY <2>2
  <2> HIDE DEF c
  <2>10. /\ a \o b \o c \in Seq(Byte)
         /\ Len(a \o b \o c) = Len(a) + Len(b) + Len(c)
         /\ Len(b) \in Nat
    <3>1. a \in Seq(Byte) /\ b \in Seq(Byte) /\ c \in Seq(Byte) BY <2>3, <2>4, <2>8
    <3> QED BY <3>1, JoinedBytes
  <2>11. Len(a) + Len(b) + Len(c) < 128 * 16384 * 128 BY <2>3, <2>4, <2>8, <2>10, SMT
  <2> QED BY <2>9, <2>10, <2>11
<1>8. CASE p \in [type : {"UNSUBSCRIBE"}, id : Id, topic : Name]
  <2>1. p.type = "UNSUBSCRIBE" /\ p.id \in Id /\ p.topic \in Name BY <1>8
  <2> DEFINE a == Word(p.id)
             b == String(p.topic)
  <2>2. Rest(p) = a \o b BY <2>1 DEF Rest, UnsubscribeRest
  <2>3. a \in Seq(Byte) /\ Len(a) = 2 BY <2>1, WordBytes
  <2>4. b \in Seq(Byte) /\ Len(b) < 65538 BY <2>1, StringBytes
  <2> HIDE DEF a, b
  <2>6. a \o b \in Seq(Byte) /\ Len(a \o b) = Len(a) + Len(b)
    BY <2>3, <2>4, Joined
  <2>6a. Len(b) \in Nat BY <2>4, LenProperties
  <2>7. Len(a) + Len(b) < 128 * 16384 * 128 BY <2>3, <2>4, <2>6a, SMT
  <2> QED BY <2>2, <2>6, <2>7
<1> QED BY PacketKinds, <1>1, <1>2, <1>3, <1>4, <1>5, <1>6, <1>7, <1>8

\* A packet's header and its length.
Front(p) == 1 + LengthSize(Len(Rest(p)))

\* The type and the flags of a packet fit its first byte.
LEMMA HeaderByte ==
  ASSUME NEW p \in AnyPacket
  PROVE  Header(p) \in Byte
<1>1. CASE p \in Publications
  <2>1. p.type = "PUBLISH" /\ p.dup \in 0..1 /\ p.qos \in 0..1 /\ p.retained \in 0..1
    BY <1>1 DEF Publications
  <2>2. TypeCode[p.type] = 3 BY <2>1 DEF TypeCode
  <2>3. Header(p) = 16 * 3 + (8 * p.dup + 2 * p.qos + p.retained) BY <2>1, <2>2 DEF Header
  <2> DEFINE d == p.dup
             q == p.qos
             r == p.retained
  <2>4. d \in 0..1 /\ q \in 0..1 /\ r \in 0..1 /\ Header(p) = 16 * 3 + (8 * d + 2 * q + r)
    BY <2>1, <2>3
  <2> HIDE DEF d, q, r
  <2> QED BY <2>4, SMT DEF Byte
<1>2. CASE p.type \in {"CONNECT", "CONNACK", "PUBACK", "SUBSCRIBE", "SUBACK", "UNSUBSCRIBE",
                       "UNSUBACK", "PINGREQ", "PINGRESP", "DISCONNECT"}
  <2>1. TypeCode[p.type] \in 1..14 BY <1>2, SMT DEF TypeCode
  <2> DEFINE c == TypeCode[p.type]
             f == IF p.type \in {"SUBSCRIBE", "UNSUBSCRIBE"} THEN 2 ELSE 0
  <2>2. Header(p) = 16 * c + f BY <1>2 DEF Header
  <2>3. f \in {0, 2} OBVIOUS
  <2>4. c \in 1..14 BY <2>1
  <2> HIDE DEF c, f
  <2> QED BY <2>2, <2>3, <2>4, SMT DEF Byte
<1>3. p \in Publications \/
      p.type \in {"CONNECT", "CONNACK", "PUBACK", "SUBSCRIBE", "SUBACK", "UNSUBSCRIBE",
                  "UNSUBACK", "PINGREQ", "PINGRESP", "DISCONNECT"}
  BY PacketKinds
<1> QED BY <1>1, <1>2, <1>3

\* A packet is its header byte, the digits of its length and its rest.
LEMMA SerialBytes ==
  ASSUME NEW p \in AnyPacket
  PROVE  /\ Serialize(p) \in Seq(Byte)
         /\ Len(Serialize(p)) = Front(p) + Len(Rest(p))
         /\ Front(p) \in 2..5 /\ Len(Rest(p)) \in Nat
         /\ Serialize(p)[1] = Header(p)
         /\ \A i \in 1..LengthSize(Len(Rest(p))) : Serialize(p)[1 + i] = WriteLength(Len(Rest(p)))[i]
         /\ \A i \in 1..Len(Rest(p)) : Serialize(p)[Front(p) + i] = Rest(p)[i]
<1> DEFINE n == Len(Rest(p))
           h == <<Header(p)>>
           w == WriteLength(n)
           r == Rest(p)
           z == LengthSize(n)
<1>1. n \in Nat BY RestBytes, LenProperties
<1>2. h \in Seq(Byte) /\ Len(h) = 1 /\ h[1] = Header(p)
  <2> DEFINE b == Header(p)
  <2>1. b \in Byte BY HeaderByte
  <2> HIDE DEF b
  <2>2. <<b>> \in Seq(Byte) /\ Len(<<b>>) = 1 /\ <<b>>[1] = b BY <2>1
  <2> QED BY <2>2 DEF b
<1>3. w \in Seq(Byte) /\ Len(w) = z /\ z \in 1..4 BY <1>1, DigitSequence
<1>4. r \in Seq(Byte) /\ Len(r) = n BY RestBytes
<1>5. Serialize(p) = h \o w \o r BY DEF Serialize
<1>6. Front(p) = 1 + z BY DEF Front
<1> HIDE DEF n, h, w, r, z
<1> DEFINE u == h \o w
           v == u \o r
<1>7. /\ u \in Seq(Byte) /\ Len(u) = Len(h) + Len(w)
      /\ \A i \in 1..Len(h) : u[i] = h[i]
      /\ \A i \in 1..Len(w) : u[Len(h) + i] = w[i]
  <2>1. h \in Seq(Byte) /\ w \in Seq(Byte) BY <1>2, <1>3
  <2> QED BY <2>1, Joined
<1> HIDE DEF u
<1>8. /\ v \in Seq(Byte) /\ Len(v) = Len(u) + Len(r)
      /\ \A i \in 1..Len(u) : v[i] = u[i]
      /\ \A i \in 1..Len(r) : v[Len(u) + i] = r[i]
  <2>1. u \in Seq(Byte) /\ r \in Seq(Byte) BY <1>7, <1>4
  <2> QED BY <2>1, Joined
<1> HIDE DEF v
<1>9. Serialize(p) = v BY <1>5 DEF u, v
<1>10. Len(u) = 1 + z BY <1>2, <1>3, <1>7
<1>11. v[1] = h[1] BY <1>2, <1>3, <1>7, <1>8, <1>10, SMT
<1>12. \A i \in 1..z : v[1 + i] = w[i]
  <2> TAKE i \in 1..z
  <2>1. u[1 + i] = w[i] BY <1>2, <1>3, <1>7
  <2>2. 1 + i \in 1..Len(u) BY <1>3, <1>10, SMT
  <2> QED BY <2>1, <2>2, <1>8
<1>13. \A i \in 1..n : v[1 + z + i] = r[i] BY <1>4, <1>8, <1>10
<1>14. Len(v) = 1 + z + n BY <1>4, <1>8, <1>10
<1>15. 1 + z \in 2..5 BY <1>3, SMT
<1> QED BY <1>1, <1>2, <1>6, <1>8, <1>9, <1>11, <1>12, <1>13, <1>14, <1>15 DEF n, h, w, r, z

\* The length is found as soon as all of it is there, and not before; what
\* follows it does not matter.
LEMMA LengthFound ==
  ASSUME NEW p \in AnyPacket, NEW s \in Seq(Byte),
         \A i \in 1..Len(s) : i <= Front(p) => s[i] = Serialize(p)[i]
  PROVE  /\ Len(s) < Front(p) => LengthEnd(s, 2) = 0
         /\ Len(s) >= Front(p) => /\ LengthEnd(s, 2) = Front(p)
                                  /\ ReadLength(s, 2, Front(p)) = Len(Rest(p))
<1> DEFINE n == Len(Rest(p))
           z == LengthSize(n)
           w == WriteLength(n)
           q == Serialize(p)
           last == {k \in 1..MaxBytes : 2 + k - 1 <= Len(s) /\ s[2 + k - 1] < Radix}
           first(S) == CHOOSE k \in S : \A j \in S : k <= j
<1>1. n \in Nat /\ Front(p) = 1 + z BY SerialBytes DEF Front
<1>2. z \in 1..4 /\ Len(w) = z BY <1>1, DigitSequence
<1>3. \A i \in 1..z : q[1 + i] = w[i] BY SerialBytes
<1>4. \A i \in 1..z : w[i] < 128 <=> i = z BY <1>1, DigitBytes
<1>5. Len(s) \in Nat BY LenProperties
<1>6. \A i \in 1..Len(s) : i <= 1 + z => s[i] = q[i] BY <1>1
<1>7. LengthEnd(s, 2) = IF last = {} THEN 0 ELSE 2 - 1 + first(last) BY DEF LengthEnd
<1>8. n \div (128 * 16384) < 128
  <2>1. n < 128 * 16384 * 128 BY RestBytes DEF Short
  <2> HIDE DEF n
  <2> QED BY <1>1, <2>1, SMT
<1>9. ReadLength(w, 1, z) = n BY <1>1, <1>2, <1>8, LengthRoundTrip
<1> HIDE DEF n, z, w, q
<1>10. \A k \in 1..z : 1 + k <= Len(s) => s[1 + k] = w[k]
  <2> TAKE k \in 1..z
  <2>1. 1 + k <= Len(s) => s[1 + k] = q[1 + k] BY <1>2, <1>5, <1>6
  <2> QED BY <2>1, <1>3
<1>11. ASSUME Len(s) < 1 + z PROVE last = {}
  <2>1. \A k \in 1..4 : 1 + k <= Len(s) => k \in 1..z /\ k # z BY <1>2, <1>5, <1>11, SMT
  <2>2. \A k \in 1..4 : 1 + k <= Len(s) => ~(s[1 + k] < 128) BY <2>1, <1>10, <1>4
  <2>3. \A k \in 1..4 : 2 + k - 1 = 1 + k BY SMT
  <2>4. last = {k \in 1..4 : 1 + k <= Len(s) /\ s[1 + k] < 128} BY <2>3 DEF MaxBytes, Radix
  <2> QED BY <2>2, <2>4
<1>12. ASSUME Len(s) >= 1 + z
       PROVE  /\ last # {} /\ first(last) = z
              /\ ReadLength(s, 2, 1 + z) = n
  <2>1. \A k \in 1..z : s[1 + k] = w[k] BY <1>2, <1>5, <1>10, <1>12
  <2>2. z \in last
    <3>1. z \in 1..4 /\ 2 + z - 1 = 1 + z BY <1>2, SMT
    <3>2. s[1 + z] < 128 BY <2>1, <1>2, <1>4
    <3> QED BY <3>1, <3>2, <1>12, <1>5 DEF MaxBytes, Radix
  <2>3. \A k \in last : z <= k
    <3> SUFFICES ASSUME NEW k \in last, ~(z <= k) PROVE FALSE OBVIOUS
    <3>1. k \in 1..4 /\ s[2 + k - 1] < 128 BY DEF MaxBytes, Radix
    <3>2. k \in 1..z /\ k # z /\ 2 + k - 1 = 1 + k BY <1>2, <3>1, SMT
    <3> QED BY <2>1, <3>1, <3>2, <1>4
  <2>4. \A k \in last : k \in 1..4 BY DEF MaxBytes
  <2> HIDE DEF last
  <2>5. \A k \in last : (\A j \in last : k <= j) => k = z BY <2>2, <2>3, <2>4, <1>2, SMT
  <2>6. first(last) = z BY <2>2, <2>3, <2>5
  <2>7. \A k \in 1..4 : Digit(s, 2, 1 + z, k) = Digit(w, 1, z, k)
    <3> TAKE k \in 1..4
    <3>1. CASE k <= z
      <4>1. s[1 + k] = w[k] BY <2>1, <3>1, SMT
      <4>2. 2 + k - 1 = 1 + k /\ 1 + k - 1 = k /\ 1 + k <= 1 + z BY <1>2, <3>1, SMT
      <4> QED BY <3>1, <4>1, <4>2 DEF Digit
    <3>2. CASE ~(k <= z)
      <4>1. ~(2 + k - 1 <= 1 + z) /\ ~(1 + k - 1 <= z) BY <1>2, <3>2, SMT
      <4> QED BY <4>1 DEF Digit
    <3> QED BY <3>1, <3>2
  <2>8. ReadLength(s, 2, 1 + z) = ReadLength(w, 1, z) BY <2>7 DEF ReadLength
  <2> QED BY <2>2, <2>6, <2>8, <1>9
<1> HIDE DEF last, first
<1>13. Len(s) >= 1 + z => LengthEnd(s, 2) = 1 + z BY <1>2, <1>7, <1>12, SMT
<1> QED BY <1>1, <1>7, <1>11, <1>12, <1>13 DEF n

\* The type read is the type written.
LEMMA TypeRead ==
  ASSUME NEW p \in FromBroker
  PROVE  /\ TypeOf(Serialize(p)) = p.type
         /\ p \in Publications =>
              /\ (Serialize(p)[1] \div 8) % 2 = p.dup
              /\ (Serialize(p)[1] \div 2) % 4 = p.qos
              /\ Serialize(p)[1] % 2 = p.retained
<1> DEFINE c == TypeCode[p.type]
           s == Serialize(p)[1]
<1>1. s = Header(p) BY SerialBytes DEF AnyPacket
<1>2. p.type \in {"PUBLISH", "CONNACK", "SUBACK", "PUBACK", "UNSUBACK", "PINGRESP"}
  BY DEF FromBroker, Publications
<1>3. c \in 2..13 BY <1>2, SMT DEF TypeCode
<1>4. \E f \in 0..15 : s = 16 * c + f
  <2>1. CASE p.type = "PUBLISH"
    <3>1. p.dup \in 0..1 /\ p.qos \in 0..1 /\ p.retained \in 0..1
      BY <2>1 DEF FromBroker, Publications
    <3> DEFINE f == 8 * p.dup + 2 * p.qos + p.retained
    <3>2. s = 16 * c + f BY <1>1, <2>1 DEF Header
    <3> DEFINE d == p.dup
               q == p.qos
               r == p.retained
    <3>3. d \in 0..1 /\ q \in 0..1 /\ r \in 0..1 /\ f = 8 * d + 2 * q + r BY <3>1
    <3> HIDE DEF d, q, r, f
    <3>4. f \in 0..15 BY <3>3, SMT
    <3> QED BY <3>2, <3>4
  <2>2. CASE p.type # "PUBLISH"
    <3>1. s = 16 * c + 0 BY <1>1, <1>2, <2>2 DEF Header
    <3>2. 0 \in 0..15 BY SMT
    <3> QED BY <3>1, <3>2
  <2> QED BY <2>1, <2>2
<1>5. s \div 16 = c
  <2>1. PICK f \in 0..15 : s = 16 * c + f BY <1>4
  <2> HIDE DEF s, c
  <2> QED BY <1>3, <2>1, SMT
<1>6. \A t \in DOMAIN TypeCode : TypeCode[t] = c => t = p.type
  BY <1>2, SMT DEF TypeCode
<1>7. p.type \in DOMAIN TypeCode BY <1>2, SMT DEF TypeCode
<1> DEFINE named == {t \in DOMAIN TypeCode : TypeCode[t] = Serialize(p)[1] \div 16}
<1>8. named = {p.type} BY <1>5, <1>6, <1>7
<1>9. TypeOf(Serialize(p)) = IF named = {} THEN "malformed" ELSE CHOOSE t \in named : TRUE
  BY DEF TypeOf
<1>10. TypeOf(Serialize(p)) = p.type
  <2> HIDE DEF named
  <2> QED BY <1>8, <1>9
<1>11. ASSUME p \in Publications
       PROVE  (s \div 8) % 2 = p.dup /\ (s \div 2) % 4 = p.qos /\ s % 2 = p.retained
  <2>1. /\ p.type = "PUBLISH" /\ p.dup \in 0..1 /\ p.qos \in 0..1 /\ p.retained \in 0..1
    BY <1>11 DEF Publications
  <2>2. TypeCode[p.type] = 3 BY <2>1 DEF TypeCode
  <2> DEFINE d == p.dup
             q == p.qos
             r == p.retained
  <2>3. /\ d \in {0, 1} /\ q \in {0, 1} /\ r \in {0, 1}
        /\ s = 48 + (8 * d + 2 * q + r)
    <3>1. d \in {0, 1} /\ q \in {0, 1} /\ r \in {0, 1} BY <2>1
    <3>2. s = 16 * 3 + (8 * d + 2 * q + r) BY <1>1, <2>1, <2>2 DEF Header
    <3> QED BY <3>1, <3>2
  <2> HIDE DEF d, q, r, s
  <2>4. (s \div 8) % 2 = d BY <2>3, SMT
  <2>5. (s \div 2) % 4 = q BY <2>3, SMT
  <2>6. s % 2 = r BY <2>3, SMT
  <2> QED BY <2>4, <2>5, <2>6 DEF d, q, r
<1> QED BY <1>10, <1>11

\* What lies in a sequence behind k bytes.
LEMMA Slice ==
  ASSUME NEW s \in Seq(Byte), NEW t \in Seq(Byte), NEW k \in Nat,
         k + Len(t) <= Len(s), \A i \in 1..Len(t) : s[k + i] = t[i]
  PROVE  SubSeq(s, k + 1, k + Len(t)) = t
<1>1. Len(t) \in Nat /\ Len(s) \in Nat BY LenProperties
<1> DEFINE m == k + 1
           n == k + Len(t)
           u == SubSeq(s, m, n)
<1>2. m \in Int /\ n \in Int BY <1>1
<1>3. \A i \in m..n : s[i] \in Byte
  <2> TAKE i \in m..n
  <2>1. i \in 1..Len(s) BY <1>1
  <2> QED BY <2>1, ElementOfSeq
<1>4. /\ u \in Seq(Byte)
      /\ Len(u) = IF m <= n THEN n - m + 1 ELSE 0
      /\ \A i \in 1..n - m + 1 : u[i] = s[m + i - 1]
  BY <1>2, <1>3, SubSeqProperties
<1>5. n - m + 1 = Len(t) /\ (m <= n <=> Len(t) > 0) BY <1>1
<1>6. Len(u) = Len(t) BY <1>1, <1>4, <1>5
<1>7. \A i \in 1..Len(t) : m + i - 1 = k + i OBVIOUS
<1>8. \A i \in 1..Len(t) : u[i] = t[i] BY <1>4, <1>5, <1>7
<1> HIDE DEF u
<1>9. u = t BY <1>4, <1>6, <1>8, SeqEqual
<1> QED BY <1>9 DEF u

\* Where the parts of a publication lie.
LEMMA PublishBytes ==
  ASSUME NEW p \in Publications
  PROVE  LET s == Serialize(p)
             f == Front(p)
             l == Len(p.topic)
             k == IF p.qos > 0 THEN 2 ELSE 0
         IN  /\ Len(s) = f + 2 + l + k + Len(p.payload)
             /\ 256 * s[f + 1] + s[f + 2] = l
             /\ \A i \in 1..l : s[f + 2 + i] = p.topic[i]
             /\ p.qos > 0 => 256 * s[f + 2 + l + 1] + s[f + 2 + l + 2] = p.id
             /\ \A i \in 1..Len(p.payload) : s[f + 2 + l + k + i] = p.payload[i]
<1> DEFINE a == String(p.topic)
           b == IF p.qos > 0 THEN Word(p.id) ELSE <<>>
           c == p.payload
           k == IF p.qos > 0 THEN 2 ELSE 0
           l == Len(p.topic)
           n == Len(p.payload)
           f == Front(p)
           s == Serialize(p)
           r == Rest(p)
<1>1. /\ p.type = "PUBLISH" /\ p.topic \in Name /\ p.id \in Id /\ c \in Seq(Byte) BY DEF Publications
<1>2. r = a \o b \o c BY <1>1 DEF Rest, PublishRest
<1>3. /\ a \in Seq(Byte) /\ Len(a) = 2 + l /\ l \in Id
      /\ a[1] = Word(l)[1] /\ a[2] = Word(l)[2]
      /\ \A i \in 1..l : a[2 + i] = p.topic[i]
  BY <1>1, StringBytes
<1>4. 256 * Word(l)[1] + Word(l)[2] = l BY <1>3, WordBytes
<1>5. b \in Seq(Byte) /\ Len(b) = k /\ (p.qos > 0 => 256 * b[1] + b[2] = p.id)
  BY <1>1, WordBytes, EmptySeq
<1>6. l \in Nat /\ n \in Nat BY <1>1, <1>3, LenProperties DEF Id
<1>7. /\ Len(s) = f + Len(r) /\ f \in 2..5
      /\ \A i \in 1..Len(r) : s[f + i] = r[i]
  BY SerialBytes DEF AnyPacket, FromBroker
<1>8. k \in {0, 2} OBVIOUS
<1>9. Len(c) = n OBVIOUS
<1> DEFINE topic == p.topic
           id == p.id
           pub == p.qos > 0
<1>10. /\ \A i \in 1..l : a[2 + i] = topic[i]
       /\ pub => 256 * b[1] + b[2] = id
       /\ pub => k = 2
  BY <1>3, <1>5
<1> HIDE DEF a, b, c, k, l, n, f, s, r, topic, id, pub
<1> DEFINE u == a \o b
<1>11. /\ u \in Seq(Byte) /\ Len(u) = Len(a) + Len(b)
       /\ \A i \in 1..Len(a) : u[i] = a[i]
       /\ \A i \in 1..Len(b) : u[Len(a) + i] = b[i]
  <2>1. a \in Seq(Byte) /\ b \in Seq(Byte) BY <1>3, <1>5
  <2> QED BY <2>1, Joined
<1> HIDE DEF u
<1>12. /\ Len(r) = Len(u) + Len(c)
       /\ \A i \in 1..Len(u) : r[i] = u[i]
       /\ \A i \in 1..Len(c) : r[Len(u) + i] = c[i]
  <2>1. u \in Seq(Byte) /\ c \in Seq(Byte) BY <1>1, <1>11
  <2>2. r = u \o c BY <1>2 DEF u
  <2> QED BY <2>1, <2>2, Joined
<1>13. Len(u) = 2 + l + k BY <1>3, <1>5, <1>11
<1>14. Len(r) = 2 + l + k + n BY <1>9, <1>12, <1>13
<1>15. Len(s) = f + 2 + l + k + n BY <1>6, <1>7, <1>8, <1>14, SMT
<1>16. \A i \in 1..2 + l : s[f + i] = a[i]
  <2> TAKE i \in 1..2 + l
  <2>1. i \in 1..Len(a) /\ i \in 1..Len(u) /\ i \in 1..Len(r)
    BY <1>3, <1>6, <1>8, <1>13, <1>14, SMT
  <2> QED BY <2>1, <1>7, <1>11, <1>12
<1>17. 256 * s[f + 1] + s[f + 2] = l
  <2>1. 1 \in 1..2 + l /\ 2 \in 1..2 + l BY <1>6, SMT
  <2>2. s[f + 1] = a[1] /\ s[f + 2] = a[2] BY <2>1, <1>16
  <2> QED BY <2>2, <1>3, <1>4
<1>18. \A i \in 1..l : s[f + 2 + i] = topic[i]
  <2> TAKE i \in 1..l
  <2>1. 2 + i \in 1..2 + l BY <1>6, SMT
  <2>2. s[f + (2 + i)] = topic[i] BY <2>1, <1>16, <1>10
  <2>3. f + (2 + i) = f + 2 + i BY <1>7, SMT
  <2> QED BY <2>2, <2>3
<1>19. pub => 256 * s[f + 2 + l + 1] + s[f + 2 + l + 2] = id
  <2> SUFFICES ASSUME pub PROVE 256 * s[f + 2 + l + 1] + s[f + 2 + l + 2] = id OBVIOUS
  <2>1. k = 2 BY <1>10
  <2>2. /\ 1 \in 1..Len(b) /\ 2 \in 1..Len(b)
        /\ 2 + l + 1 \in 1..Len(u) /\ 2 + l + 2 \in 1..Len(u)
        /\ 2 + l + 1 \in 1..Len(r) /\ 2 + l + 2 \in 1..Len(r)
        /\ f + (2 + l + 1) = f + 2 + l + 1 /\ f + (2 + l + 2) = f + 2 + l + 2
    BY <1>5, <1>6, <1>7, <1>13, <1>14, <2>1, SMT
  <2>3. u[2 + l + 1] = b[1] /\ u[2 + l + 2] = b[2] BY <1>3, <1>11, <2>2
  <2>4. r[2 + l + 1] = b[1] /\ r[2 + l + 2] = b[2] BY <1>12, <2>2, <2>3
  <2>5. s[f + (2 + l + 1)] = b[1] /\ s[f + (2 + l + 2)] = b[2] BY <1>7, <2>2, <2>4
  <2>6. s[f + 2 + l + 1] = b[1] /\ s[f + 2 + l + 2] = b[2] BY <2>2, <2>5
  <2> QED BY <1>10, <2>6
<1>20. \A i \in 1..n : s[f + 2 + l + k + i] = c[i]
  <2> TAKE i \in 1..n
  <2>1. /\ 2 + l + k + i \in 1..Len(r)
        /\ f + (2 + l + k + i) = f + 2 + l + k + i
    <3> HIDE DEF k, l, n, f, s, topic, id, pub, c
    <3>1. i \in Nat /\ 1 <= i /\ i <= n BY <1>6, SMT
    <3>2. 2 + l + k + i \in 1..2 + l + k + n BY <1>6, <1>8, <3>1, SMT
    <3>3. f + (2 + l + k + i) = f + 2 + l + k + i BY <1>6, <1>7, <1>8, <3>1, SMT
    <3> QED BY <1>14, <3>2, <3>3
  <2>2. r[2 + l + k + i] = c[i] BY <1>9, <1>12, <1>13
  <2>3. s[f + (2 + l + k + i)] = c[i] BY <1>7, <2>1, <2>2
  <2> QED BY <2>1, <2>3
<1> QED BY <1>15, <1>17, <1>18, <1>19, <1>20 DEF k, l, n, f, s, topic, id, pub, c

\* The length of a packet ends where its rest begins.
LEMMA LengthOfSerial ==
  ASSUME NEW p \in AnyPacket
  PROVE  LengthEnd(Serialize(p), 2) = Front(p)
<1> DEFINE s == Serialize(p)
           n == Len(Rest(p))
<1>1. s \in Seq(Byte) /\ Len(s) = Front(p) + n /\ n \in Nat /\ Front(p) \in 2..5 BY SerialBytes
<1>2. Len(s) >= Front(p)
  <2> HIDE DEF s, n
  <2> QED BY <1>1, SMT
<1>3. \A i \in 1..Len(s) : i <= Front(p) => s[i] = Serialize(p)[i] OBVIOUS
<1> QED BY <1>1, <1>2, <1>3, LengthFound

\* What the client reads is what the broker wrote.
LEMMA PublicationRead ==
  ASSUME NEW p \in Publications
  PROVE  Publication(Serialize(p), Front(p) + 1) = p
<1> DEFINE s == Serialize(p)
           f == Front(p)
           i == Front(p) + 1
           l == Len(p.topic)
           n == Len(p.payload)
           k == IF p.qos > 0 THEN 2 ELSE 0
<1>1. /\ p.type = "PUBLISH" /\ p.topic \in Name /\ p.id \in Id /\ p.payload \in Seq(Byte)
      /\ p.qos \in 0..1 /\ (p.qos = 0 => p.id = 0)
  BY DEF Publications
<1>2. p = [type |-> "PUBLISH", dup |-> p.dup, qos |-> p.qos, retained |-> p.retained,
           topic |-> p.topic, id |-> p.id, payload |-> p.payload]
  BY DEF Publications
<1>3. p \in FromBroker /\ p \in AnyPacket BY DEF FromBroker, AnyPacket
<1>4. s \in Seq(Byte) /\ f \in 2..5 BY <1>3, SerialBytes
<1>5. (s[1] \div 8) % 2 = p.dup /\ (s[1] \div 2) % 4 = p.qos /\ s[1] % 2 = p.retained
  BY <1>3, TypeRead
<1>6. /\ Len(s) = f + 2 + l + k + n
      /\ 256 * s[f + 1] + s[f + 2] = l
      /\ \A j \in 1..l : s[f + 2 + j] = p.topic[j]
      /\ p.qos > 0 => 256 * s[f + 2 + l + 1] + s[f + 2 + l + 2] = p.id
      /\ \A j \in 1..n : s[f + 2 + l + k + j] = p.payload[j]
  BY PublishBytes
<1>7. /\ String(p.topic) \in Seq(Byte) /\ Len(String(p.topic)) = 2 + l
      /\ p.topic \in Seq(Byte) /\ l \in Nat
      /\ \A j \in 1..l : String(p.topic)[2 + j] = p.topic[j]
  BY <1>1, StringBytes DEF Id
<1>8. n \in Nat /\ k \in {0, 2} BY <1>1, LenProperties
<1>9. ReadWord(s, i) = l
  <2>1. f + 1 + 1 = f + 2 BY <1>4, SMT
  <2>2. s[i] = s[f + 1] /\ s[i + 1] = s[f + 2] BY <2>1
  <2> QED BY <1>6, <2>2 DEF ReadWord
<1>10. Len(s) + 1 - i = 2 + l + k + n
  <2>1. i = f + 1 OBVIOUS
  <2> HIDE DEF i, s, f, l, n, k
  <2>2. l \in Nat /\ n \in Nat /\ k \in Nat /\ f \in Nat BY <1>4, <1>7, <1>8
  <2>3. Len(s) = f + 2 + l + k + n BY <1>6
  <2> QED BY <2>1, <2>2, <2>3, SMT
<1>11. ~(Len(s) + 1 - i < 2 \/ ReadWord(s, i) + 2 > Len(s) + 1 - i)
  <2> HIDE DEF s, i, l, n, k
  <2> QED BY <1>7, <1>8, <1>9, <1>10, SMT
<1>12. SubSeq(s, i + 2, i + 1 + l) = p.topic
  <2>1. f + 2 \in Nat /\ f + 2 + 1 = i + 2 /\ f + 2 + l = i + 1 + l BY <1>4, <1>7, SMT
  <2>2. f + 2 + l <= Len(s)
    <3> HIDE DEF s, f, l, n, k
    <3> QED BY <1>4, <1>6, <1>7, <1>8, SMT
  <2>3. SubSeq(s, (f + 2) + 1, (f + 2) + Len(p.topic)) = p.topic
    BY <1>4, <1>6, <1>7, <2>1, <2>2, Slice
  <2> QED BY <2>1, <2>3
<1> DEFINE topic == String(SubSeq(s, i + 2, i + 1 + ReadWord(s, i)))
           after == i + Len(topic)
<1>13. topic = String(p.topic) BY <1>9, <1>12
<1>14. SubSeq(topic, 3, Len(topic)) = p.topic
  <2>1. SubSeq(String(p.topic), 2 + 1, 2 + Len(p.topic)) = p.topic
    <3>1. 2 \in Nat /\ 2 + l <= Len(String(p.topic)) BY <1>7
    <3> QED BY <1>7, <3>1, Slice
  <2>2. 2 + 1 = 3 BY SMT
  <2> QED BY <1>7, <1>13, <2>1, <2>2
<1>15. after = f + 2 + l + 1
  <2>1. after = f + 1 + (2 + l) BY <1>7, <1>13
  <2> HIDE DEF after, f, l
  <2> QED BY <1>4, <1>7, <2>1, SMT
<1>16a. p.qos > 0 => after < Len(s)
  <2> HIDE DEF after, s, f, l, n
  <2>1. p.qos > 0 => Len(s) = f + 2 + l + 2 + n BY <1>6
  <2> QED BY <1>4, <1>7, <1>8, <1>15, <2>1, SMT
<1>16. (IF p.qos > 0 /\ after < Len(s) THEN ReadWord(s, after) ELSE 0) = p.id
  <2>1. CASE p.qos > 0
    <3>1. after + 1 = f + 2 + l + 2
      <4> HIDE DEF after, f, l
      <4> QED BY <1>4, <1>7, <1>15, SMT
    <3>2. ReadWord(s, after) = 256 * s[f + 2 + l + 1] + s[f + 2 + l + 2]
      BY <1>15, <3>1 DEF ReadWord
    <3> QED BY <1>6, <1>16a, <2>1, <3>2
  <2>2. CASE ~(p.qos > 0)
    <3>1. p.qos = 0 BY <1>1, <2>2
    <3> QED BY <1>1, <2>2, <3>1
  <2> QED BY <2>1, <2>2
<1>17. SubSeq(s, IF p.qos > 0 THEN after + 2 ELSE after, Len(s)) = p.payload
  <2>1. (IF p.qos > 0 THEN after + 2 ELSE after) = f + 2 + l + k + 1
    <3>1. CASE p.qos > 0
      <4>1. k = 2 BY <3>1
      <4>2. after + 2 = f + 2 + l + 2 + 1
        <5> HIDE DEF after, f, l
        <5> QED BY <1>4, <1>7, <1>15, SMT
      <4> QED BY <3>1, <4>1, <4>2
    <3>2. CASE ~(p.qos > 0)
      <4>1. k = 0 BY <3>2
      <4>2. f + 2 + l + 1 = f + 2 + l + 0 + 1
        <5> HIDE DEF f, l
        <5> QED BY <1>4, <1>7, SMT
      <4> QED BY <1>15, <3>2, <4>1, <4>2
    <3> QED BY <3>1, <3>2
  <2>2. f + 2 + l + k \in Nat
    <3> HIDE DEF f, l, k
    <3> QED BY <1>4, <1>7, <1>8, SMT
  <2>3. f + 2 + l + k + n <= Len(s)
    <3> HIDE DEF f, l, k, n, s
    <3> QED BY <1>4, <1>6, <1>7, <1>8, SMT
  <2> DEFINE o == f + 2 + l + k
  <2>4. o \in Nat /\ o + n <= Len(s) /\ \A j \in 1..n : s[o + j] = p.payload[j]
    BY <1>6, <2>2, <2>3
  <2> HIDE DEF o
  <2>5. SubSeq(s, o + 1, o + Len(p.payload)) = p.payload BY <1>1, <1>4, <2>4, Slice
  <2> QED BY <1>6, <2>1, <2>5 DEF o
<1> DEFINE qos == (s[1] \div 2) % 4
<1>18. Publication(s, i) =
         IF Len(s) + 1 - i < 2 \/ ReadWord(s, i) + 2 > Len(s) + 1 - i THEN Malformed
         ELSE [type |-> "PUBLISH", dup |-> (s[1] \div 8) % 2, qos |-> qos, retained |-> s[1] % 2,
               topic |-> SubSeq(topic, 3, Len(topic)),
               id |-> IF qos > 0 /\ after < Len(s) THEN ReadWord(s, after) ELSE 0,
               payload |-> SubSeq(s, IF qos > 0 THEN after + 2 ELSE after, Len(s))]
  BY DEF Publication
<1>19. qos = p.qos BY <1>5
<1> HIDE DEF topic, after, qos, s, i
<1>20. Publication(s, i) =
         [type |-> "PUBLISH", dup |-> p.dup, qos |-> p.qos, retained |-> p.retained,
          topic |-> p.topic, id |-> p.id, payload |-> p.payload]
  BY <1>5, <1>11, <1>14, <1>16, <1>17, <1>18, <1>19, Zenon
<1> QED BY <1>2, <1>20 DEF s, i

\* What the deserializers make of the bytes of a packet from the broker is the
\* packet: for all names and payloads, and for each length that four digits hold.
THEOREM RoundTrip ==
  ASSUME NEW p \in FromBroker
  PROVE  Deserialize(Serialize(p)) = p
<1> DEFINE s == Serialize(p)
           f == Front(p)
           r == Rest(p)
<1>1. p \in AnyPacket BY DEF AnyPacket
<1>2. LengthEnd(s, 2) = f BY <1>1, LengthOfSerial
<1>3. TypeOf(s) = p.type BY TypeRead
<1>4. /\ Len(s) = f + Len(r) /\ f \in 2..5 /\ s \in Seq(Byte)
      /\ \A i \in 1..Len(r) : s[f + i] = r[i]
  BY <1>1, SerialBytes
<1>5. r \in Seq(Byte) BY <1>1, RestBytes
<1>6. Len(r) \in Nat BY <1>5, LenProperties
<1>7. f + 1 + 1 = f + 2 /\ Len(s) + 1 - (f + 1) = Len(r)
  <2> HIDE DEF s, f, r
  <2> QED BY <1>4, <1>6, SMT
<1>8. CASE p \in Publications
  <2>1. p.type = "PUBLISH" BY <1>8 DEF Publications
  <2>2. Deserialize(s) = Publication(s, f + 1) BY <1>2, <1>3, <2>1 DEF Deserialize
  <2> QED BY <1>8, <2>2, PublicationRead
<1>9. CASE p \in [type : {"CONNACK"}, code : Byte]
  <2>1. p.type = "CONNACK" /\ p = [type |-> "CONNACK", code |-> p.code] BY <1>9
  <2>2. Deserialize(s) = Connack(s, f + 1) BY <1>2, <1>3, <2>1 DEF Deserialize
  <2>3. r = <<0, p.code>> BY <2>1 DEF Rest
  <2>4. Len(r) = 2 /\ r[2] = p.code BY <2>3
  <2>5. s[f + 2] = p.code BY <1>4, <2>4
  <2> HIDE DEF s, f, r
  <2>6. Len(s) + 1 - (f + 1) = 2 /\ s[f + 1 + 1] = p.code BY <1>7, <2>4, <2>5
  <2>7. Connack(s, f + 1) = [type |-> "CONNACK", code |-> p.code] BY <2>6, Zenon DEF Connack
  <2> QED BY <2>1, <2>2, <2>7 DEF s
<1>10. CASE p \in [type : {"SUBACK"}, id : Id, granted : Seq(Byte)] /\ Len(p.granted) <= 2
  <2>1. /\ p.type = "SUBACK" /\ p = [type |-> "SUBACK", id |-> p.id, granted |-> p.granted]
        /\ p.id \in Id /\ p.granted \in Seq(Byte) /\ Len(p.granted) <= 2
    BY <1>10
  <2>2. Deserialize(s) = Suback(s, f + 1) BY <1>2, <1>3, <2>1 DEF Deserialize
  <2> DEFINE w == Word(p.id)
             g == p.granted
  <2>3. r = w \o g BY <2>1 DEF Rest
  <2>4. w \in Seq(Byte) /\ Len(w) = 2 /\ 256 * w[1] + w[2] = p.id BY <2>1, WordBytes
  <2>5. g \in Seq(Byte) /\ Len(g) <= 2 BY <2>1
  <2>6. Len(g) \in Nat BY <2>5, LenProperties
  <2> DEFINE id == p.id
  <2>7. 256 * w[1] + w[2] = id BY <2>4
  <2> HIDE DEF s, f, r, w, g, id
  <2>8. /\ Len(r) = Len(w) + Len(g)
        /\ \A i \in 1..Len(w) : r[i] = w[i]
        /\ \A i \in 1..Len(g) : r[Len(w) + i] = g[i]
    <3>1. w \in Seq(Byte) /\ g \in Seq(Byte) BY <2>4, <2>5
    <3> QED BY <2>3, <3>1, Joined
  <2>9. Len(r) = 2 + Len(g) BY <2>4, <2>8
  <2>10. r[1] = w[1] /\ r[2] = w[2] BY <2>4, <2>8
  <2>11. 1 \in 1..Len(r) /\ 2 \in 1..Len(r) BY <2>6, <2>9, SMT
  <2>12. s[f + 1] = w[1] /\ s[f + 2] = w[2] BY <1>4, <2>10, <2>11
  <2>13. ReadWord(s, f + 1) = id BY <1>7, <2>7, <2>12 DEF ReadWord
  <2>14. \A i \in 1..Len(g) : s[f + 2 + i] = g[i]
    <3> TAKE i \in 1..Len(g)
    <3>1. 2 + i \in 1..Len(r) /\ f + (2 + i) = f + 2 + i BY <1>4, <2>6, <2>9, SMT
    <3>2. r[2 + i] = g[i] BY <2>4, <2>8
    <3>3. s[f + (2 + i)] = g[i] BY <1>4, <3>1, <3>2
    <3> QED BY <3>1, <3>3
  <2>15. /\ f + 2 \in Nat /\ f + 2 + Len(g) <= Len(s)
         /\ f + 1 + 2 = f + 2 + 1 /\ f + 2 + Len(g) = Len(s)
    BY <1>4, <2>6, <2>9, SMT
  <2>16. SubSeq(s, (f + 2) + 1, (f + 2) + Len(g)) = g
    <3>1. f + 2 \in Nat /\ (f + 2) + Len(g) <= Len(s) BY <2>15
    <3> QED BY <1>4, <2>5, <2>14, <3>1, Slice
  <2>17. SubSeq(s, f + 1 + 2, Len(s)) = g BY <2>15, <2>16
  <2>18. Len(s) + 1 - (f + 1) \in 2..4 BY <1>7, <2>5, <2>6, <2>9, SMT
  <2>19. Suback(s, f + 1) = [type |-> "SUBACK", id |-> id, granted |-> g]
    BY <2>13, <2>17, <2>18, Zenon DEF Suback
  <2> QED BY <2>1, <2>2, <2>19 DEF s, id, g
<1>11. CASE p \in [type : {"PUBACK", "UNSUBACK"}, id : Id]
  <2>1. p.type \in {"PUBACK", "UNSUBACK"} /\ p = [type |-> p.type, id |-> p.id] /\ p.id \in Id
    BY <1>11
  <2>2. Deserialize(s) = Ack(s, f + 1, p.type) BY <1>2, <1>3, <2>1 DEF Deserialize
  <2> DEFINE w == Word(p.id)
             id == p.id
  <2>3. r = w BY <2>1 DEF Rest, AckRest
  <2>4. Len(w) = 2 /\ 256 * w[1] + w[2] = id BY <2>1, WordBytes
  <2> HIDE DEF s, f, r, w, id
  <2>5. s[f + 1] = w[1] /\ s[f + 2] = w[2] BY <1>4, <2>3, <2>4
  <2>6. ReadWord(s, f + 1) = id BY <1>7, <2>4, <2>5 DEF ReadWord
  <2>7. ~(Len(s) + 1 - (f + 1) < 2) BY <1>7, <2>3, <2>4
  <2>8. Ack(s, f + 1, p.type) = [type |-> p.type, id |-> id] BY <2>6, <2>7, Zenon DEF Ack
  <2> QED BY <2>1, <2>2, <2>8 DEF s, id
<1>12. CASE p \in [type : {"PINGRESP"}]
  <2>1. p.type = "PINGRESP" /\ p = [type |-> "PINGRESP"] BY <1>12
  <2>2. Deserialize(s) = [type |-> "PINGRESP"] BY <1>3, <2>1 DEF Deserialize
  <2> QED BY <2>1, <2>2
<1> QED BY <1>8, <1>9, <1>10, <1>11, <1>12 DEF FromBroker

-----------------------------------------------------------------------------
(* Bytes in their places.                                                  *)

\* The bytes of t are those of s from the one after the x-th.
At(t, s, x) == \A i \in 1..Len(t) : s[x + i] = t[i]

\* Two runs of bytes, one after the other.
LEMMA AtJoined ==
  ASSUME NEW s \in Seq(Byte), NEW t \in Seq(Byte), NEW u \in Seq(Byte), NEW x \in Nat,
         At(t, s, x), At(u, s, x + Len(t))
  PROVE  At(t \o u, s, x)
<1>1. /\ t \o u \in Seq(Byte) /\ Len(t \o u) = Len(t) + Len(u)
      /\ \A i \in 1..Len(t) : (t \o u)[i] = t[i]
      /\ \A i \in 1..Len(u) : (t \o u)[Len(t) + i] = u[i]
  BY Joined
<1>2. Len(t) \in Nat /\ Len(u) \in Nat OBVIOUS
<1> DEFINE v == t \o u
<1> HIDE DEF v
<1>3. ASSUME NEW i \in 1..Len(v) PROVE s[x + i] = v[i]
  <2>1. CASE i <= Len(t)
    <3>1. i \in 1..Len(t) BY <1>2, <2>1
    <3> QED BY <1>1, <3>1 DEF At, v
  <2>2. CASE ~(i <= Len(t))
    <3> DEFINE j == i - Len(t)
    <3>1. j \in 1..Len(u) /\ i = Len(t) + j /\ x + Len(t) + j = x + i
      <4>1. Len(v) = Len(t) + Len(u) BY <1>1 DEF v
      <4> QED BY <1>2, <2>2, <4>1, SMT
    <3> HIDE DEF j
    <3>2. v[Len(t) + j] = u[j] BY <1>1, <3>1 DEF v
    <3>3. s[x + Len(t) + j] = u[j] BY <3>1 DEF At
    <3> QED BY <3>1, <3>2, <3>3
  <2> QED BY <2>1, <2>2
<1> QED BY <1>3 DEF At, v

\* What is appended does not move what was there.
LEMMA AtLonger ==
  ASSUME NEW s \in Seq(Byte), NEW a \in Seq(Byte), NEW t \in Seq(Byte), NEW x \in Nat
  PROVE  /\ At(t, s, x) /\ x + Len(t) <= Len(s) => At(t, s \o a, x)
         /\ At(a, s \o a, Len(s))
         /\ s \o a \in Seq(Byte) /\ Len(s \o a) = Len(s) + Len(a) /\ Len(a) \in Nat /\ Len(s) \in Nat
<1>1. /\ s \o a \in Seq(Byte) /\ Len(s \o a) = Len(s) + Len(a)
      /\ \A i \in 1..Len(s) : (s \o a)[i] = s[i]
      /\ \A i \in 1..Len(a) : (s \o a)[Len(s) + i] = a[i]
  BY Joined
<1>2. Len(t) \in Nat /\ Len(s) \in Nat /\ Len(a) \in Nat OBVIOUS
<1>3. ASSUME At(t, s, x), x + Len(t) <= Len(s), NEW i \in 1..Len(t)
      PROVE  (s \o a)[x + i] = t[i]
  <2>1. x + i \in 1..Len(s) BY <1>2, <1>3, SMT
  <2>2. s[x + i] = t[i] BY <1>3 DEF At
  <2> QED BY <1>1, <2>1, <2>2
<1>4. At(t, s, x) /\ x + Len(t) <= Len(s) => At(t, s \o a, x) BY <1>3 DEF At
<1>5. At(a, s \o a, Len(s)) BY <1>1 DEF At
<1> QED BY <1>1, <1>2, <1>4, <1>5

\* Cut in two, bytes stay the bytes they were.
LEMMA CutInTwo ==
  ASSUME NEW t \in Seq(Byte), NEW k \in Nat
  PROVE  LET m == IF k < Len(t) THEN k ELSE Len(t)
             front == SubSeq(t, 1, m)
             back  == SubSeq(t, k + 1, Len(t))
         IN  /\ front \in Seq(Byte) /\ Len(front) = m
             /\ back \in Seq(Byte) /\ Len(back) = Len(t) - m
             /\ front \o back = t
             /\ k >= Len(t) => front = t /\ back = <<>>
             /\ \A i \in 1..m : front[i] = t[i]
             /\ \A i \in 1..Len(back) : back[i] = t[m + i]
<1> DEFINE m == IF k < Len(t) THEN k ELSE Len(t)
           front == SubSeq(t, 1, m)
           back  == SubSeq(t, k + 1, Len(t))
<1>1. Len(t) \in Nat OBVIOUS
<1>2. m \in 0..Len(t) BY <1>1
<1>3. front \in Seq(Byte) /\ Len(front) = m /\ \A i \in 1..m : front[i] = t[i]
  <2> HIDE DEF m
  <2>1. \A i \in 1..m : t[i] \in Byte BY <1>1, <1>2
  <2> QED BY <1>1, <1>2, <2>1
<1>4. back \in Seq(Byte) /\ Len(back) = Len(t) - m /\ \A i \in 1..Len(back) : back[i] = t[m + i]
  <2>1. CASE k < Len(t)
    <3>1. m = k BY <2>1
    <3>2. \A i \in k + 1..Len(t) : t[i] \in Byte BY <1>1
    <3>3. back \in Seq(Byte) /\ Len(back) = Len(t) - k BY <1>1, <2>1, <3>2
    <3>4. \A i \in 1..Len(t) - k : back[i] = t[k + i] BY <1>1, <2>1
    <3> HIDE DEF back, m
    <3> QED BY <3>1, <3>3, <3>4
  <2>2. CASE ~(k < Len(t))
    <3>1. m = Len(t) /\ back = <<>> BY <1>1, <2>2
    <3> HIDE DEF back, m
    <3> QED BY <1>1, <3>1
  <2> QED BY <2>1, <2>2
<1>5. k >= Len(t) => front = t /\ back = <<>>
  <2> SUFFICES ASSUME k >= Len(t) PROVE front = t /\ back = <<>> OBVIOUS
  <2>1. m = Len(t) BY <1>1
  <2> QED BY <1>1, <2>1
<1>6. front \o back = t
  <2> HIDE DEF m, front, back
  <2> DEFINE u == front \o back
  <2>1. /\ u \in Seq(Byte) /\ Len(u) = Len(front) + Len(back)
        /\ \A i \in 1..Len(front) : u[i] = front[i]
        /\ \A i \in 1..Len(back) : u[Len(front) + i] = back[i]
    <3>1. front \in Seq(Byte) /\ back \in Seq(Byte) BY <1>3, <1>4
    <3> QED BY <3>1, Joined
  <2> HIDE DEF u
  <2>2. Len(u) = Len(t) BY <1>1, <1>2, <1>3, <1>4, <2>1
  <2>3. ASSUME NEW i \in 1..Len(t) PROVE u[i] = t[i]
    <3>1. CASE i <= m BY <1>2, <1>3, <2>1, <3>1
    <3>2. CASE ~(i <= m)
      <4> DEFINE j == i - m
      <4>1. j \in 1..Len(back) /\ i = m + j BY <1>1, <1>2, <1>4, <3>2
      <4> HIDE DEF j
      <4> QED BY <1>3, <1>4, <2>1, <4>1
    <3> QED BY <3>1, <3>2
  <2>4. u = t BY <2>1, <2>2, <2>3, SeqEqual
  <2> QED BY <2>4 DEF u
<1> QED BY <1>2, <1>3, <1>4, <1>5, <1>6

\* What is left after the first bytes comes k bytes later.
LEMMA AtBeyond ==
  ASSUME NEW s \in Seq(Byte), NEW t \in Seq(Byte), NEW x \in Nat, NEW k \in 0..Len(t),
         At(t, s, x)
  PROVE  /\ At(SubSeq(t, k + 1, Len(t)), s, x + k)
         /\ Len(SubSeq(t, k + 1, Len(t))) = Len(t) - k
<1> DEFINE back == SubSeq(t, k + 1, Len(t))
           m == IF k < Len(t) THEN k ELSE Len(t)
<1>1. m = k /\ k \in Nat /\ Len(t) \in Nat OBVIOUS
<1>2. back \in Seq(Byte) /\ Len(back) = Len(t) - m /\ \A i \in 1..Len(back) : back[i] = t[m + i]
  BY <1>1, CutInTwo
<1> HIDE DEF back, m
<1>3. ASSUME NEW i \in 1..Len(back) PROVE s[x + k + i] = back[i]
  <2>1. k + i \in 1..Len(t) /\ x + (k + i) = x + k + i BY <1>1, <1>2, SMT
  <2>2. s[x + (k + i)] = t[k + i] BY <2>1 DEF At
  <2> QED BY <1>1, <1>2, <2>1, <2>2
<1> QED BY <1>1, <1>2, <1>3 DEF At, back

-----------------------------------------------------------------------------
(* The stream of a session.                                                *)

\* S is the packets of w, one after the other, and the k-th ends at at[k].
Laid(S, at, w) ==
  /\ S \in Seq(Byte) /\ at \in [Nat -> Nat]
  /\ at[0] = 0 /\ at[Len(w)] = Len(S)
  /\ \A k \in 1..Len(w) : at[k] = at[k - 1] + Len(Serialize(w[k])) /\ At(Serialize(w[k]), S, at[k - 1])
  /\ \A k \in 0..Len(w) : k < Len(w) => at[k] < Len(S)

\* No rest of a packet is in part before the x-th byte and in part after it.
Cut(at, w, x) == \A k \in 1..Len(w) : at[k - 1] + Front(w[k]) < x => at[k] <= x

\* The j-th record on its way ends at b[j], and the bytes that have arrived at b[0].
Records(S, at, w, b, c) ==
  /\ b \in [Nat -> Nat] /\ b[Len(c)] = Len(S)
  /\ \A j \in 0..Len(c) : b[j] <= Len(S) /\ Cut(at, w, b[j])
  /\ \A j \in 1..Len(c) : b[j] = b[j - 1] + Len(c[j]) /\ At(c[j], S, b[j - 1])

\* The bytes that are there begin where the r-th packet ends.
Unread(S, at, w, b, r, buf, bytes) ==
  /\ r \in 0..Len(w) /\ at[r] + Len(bytes) = b[0] /\ At(bytes, S, at[r])
  /\ r = Len(w) => buf = <<>>
  /\ r < Len(w) => Len(buf) <= Front(w[r + 1])

\* The packets written, the records and the bytes that are there, and as many
\* packets read as fit of the first r.
Stream(S, at, b, r) ==
  /\ Laid(S, at, written)
  /\ Records(S, at, written, b, coming)
  /\ Unread(S, at, written, b, r, rxBuf, Bytes)
  /\ Len(read) = Fitting(r)

\* What holds however records end.
BytesInv ==
  /\ coming \in Seq(Seq(Byte)) /\ arrived \in Seq(Byte) /\ rxBuf \in Seq(Byte)
  /\ Len(rxBuf) <= 5 /\ Len(txBuf) <= TxSize

\* The histories hold packets the broker sends.
HistoryInv == written \in Seq(Incoming) /\ read \in Seq(Incoming)

\* The bytes there are to read: those in the buffer and those behind them.
LEMMA Arrived ==
  ASSUME BytesInv
  PROVE  Bytes \in Seq(Byte) /\ Len(Bytes) = Len(rxBuf) + Len(arrived)
         /\ Len(Bytes) \in Nat /\ Len(rxBuf) \in Nat /\ Len(arrived) \in Nat
<1>1. rxBuf \in Seq(Byte) /\ arrived \in Seq(Byte) BY DEF BytesInv
<1>2. rxBuf \o arrived \in Seq(Byte) /\ Len(rxBuf \o arrived) = Len(rxBuf) + Len(arrived)
  BY <1>1, Joined
<1> QED BY <1>1, <1>2 DEF Bytes

\* The broker sends what a broker may send.
LEMMA BrokersPackets ==
  ASSUME HistoryInv
  PROVE  /\ Len(written) \in Nat /\ Len(read) \in Nat
         /\ \A k \in 1..Len(written) : /\ written[k] \in Incoming
                                       /\ written[k] \in FromBroker
                                       /\ written[k] \in AnyPacket
BY WireAssumption DEF HistoryInv, AnyPacket

\* When there are bytes to read, they are the first ones of the next packet: less
\* than its length, exactly that, or all of it.
LEMMA FrontRead ==
  ASSUME NEW S, NEW at, NEW b, NEW r,
         BytesInv, HistoryInv, Stream(S, at, b, r), Len(Bytes) > 0
  PROVE  LET p == written[r + 1]
             f == Front(p)
             n == Len(Rest(p))
         IN  /\ r \in Nat /\ r + 1 \in 1..Len(written) /\ r < Len(written)
             /\ p \in FromBroker /\ p \in Incoming
             /\ f \in 2..5 /\ n \in Nat /\ Len(Serialize(p)) = f + n
             /\ at[r] \in Nat /\ at[r + 1] = at[r] + (f + n)
             /\ Len(rxBuf) <= f
             /\ \A i \in 1..Len(Bytes) : i <= f + n => Bytes[i] = Serialize(p)[i]
             /\ \/ Len(Bytes) < f /\ LenEnd = 0
                \/ Len(Bytes) = f /\ LenEnd = f /\ Rem = n
                \/ Len(Bytes) >= f + n /\ LenEnd = f /\ Rem = n
<1> DEFINE p == written[r + 1]
           f == Front(p)
           n == Len(Rest(p))
           m == Len(Bytes)
           W == Len(written)
<1>1. W \in Nat BY BrokersPackets
<1>2. /\ r \in 0..W /\ at[r] + m = b[0] /\ At(Bytes, S, at[r])
      /\ (r < W => Len(rxBuf) <= f)
  BY DEF Stream, Unread
<1>3. /\ S \in Seq(Byte) /\ at \in [Nat -> Nat] /\ at[W] = Len(S)
      /\ \A k \in 1..W : at[k] = at[k - 1] + Len(Serialize(written[k]))
                         /\ At(Serialize(written[k]), S, at[k - 1])
  BY DEF Stream, Laid
<1>4. b \in [Nat -> Nat] /\ b[0] <= Len(S) /\ Cut(at, written, b[0])
  <2>1. Len(coming) \in Nat BY DEF BytesInv
  <2>2. 0 \in 0..Len(coming) BY <2>1
  <2> QED BY <2>2 DEF Stream, Records
<1>5. m \in Nat BY Arrived
<1>6. r < W
  <2> SUFFICES ASSUME ~(r < W) PROVE FALSE OBVIOUS
  <2>1. r = W BY <1>1, <1>2
  <2>2. at[r] \in Nat /\ at[r] = Len(S) BY <1>1, <1>3, <2>1
  <2>3. m > 0 OBVIOUS
  <2> HIDE DEF m
  <2> QED BY <1>2, <1>4, <1>5, <2>2, <2>3
<1>7. r \in Nat /\ r + 1 \in 1..W /\ r + 1 - 1 = r BY <1>1, <1>2, <1>6
<1>8. p \in FromBroker /\ p \in Incoming /\ p \in AnyPacket BY <1>7, BrokersPackets
<1>9. f \in 2..5 /\ n \in Nat /\ Len(Serialize(p)) = f + n BY <1>8, SerialBytes
<1>10. at[r] \in Nat /\ at[r + 1] = at[r] + (f + n) /\ At(Serialize(p), S, at[r])
  BY <1>3, <1>7, <1>9
<1>11. \A i \in 1..m : i <= f + n => Bytes[i] = Serialize(p)[i]
  <2> SUFFICES ASSUME NEW i \in 1..m, i <= f + n PROVE Bytes[i] = Serialize(p)[i] OBVIOUS
  <2>1. i \in 1..(f + n) BY <1>9
  <2>2. i \in 1..Len(Serialize(p)) BY <2>1, <1>9
  <2>3. S[at[r] + i] = Serialize(p)[i] BY <2>2, <1>10 DEF At
  <2>4. S[at[r] + i] = Bytes[i] BY <1>2 DEF At
  <2> QED BY <2>3, <2>4
<1>12. Bytes \in Seq(Byte) BY Arrived
<1>13. \A i \in 1..m : i <= f => Bytes[i] = Serialize(p)[i]
  <2> SUFFICES ASSUME NEW i \in 1..m, i <= f PROVE Bytes[i] = Serialize(p)[i] OBVIOUS
  <2>1. i <= f + n
    <3> HIDE DEF f, n, m
    <3> QED BY <1>9
  <2> QED BY <2>1, <1>11
<1>14. m < f => LenEnd = 0
  BY <1>8, <1>12, <1>13, LengthFound DEF LenEnd
<1>15. m >= f => LenEnd = f /\ Rem = n
  BY <1>8, <1>12, <1>13, LengthFound DEF LenEnd, Rem
<1>16. at[r] + f < b[0] => at[r + 1] <= b[0] BY <1>4, <1>7 DEF Cut
<1>17. m > f => m >= f + n
  <2> DEFINE x == at[r]
             y == at[r + 1]
             z == b[0]
  <2>1. x \in Nat /\ y = x + (f + n) /\ x + m = z /\ (x + f < z => y <= z) BY <1>2, <1>10, <1>16
  <2> HIDE DEF x, y, z, f, n, m
  <2> QED BY <1>5, <1>9, <2>1
<1>18. \/ m < f /\ LenEnd = 0
       \/ m = f /\ LenEnd = f /\ Rem = n
       \/ m >= f + n /\ LenEnd = f /\ Rem = n
  <2> HIDE DEF m, f, n
  <2> QED BY <1>5, <1>9, <1>14, <1>15, <1>17
<1> QED BY <1>2, <1>6, <1>7, <1>8, <1>9, <1>10, <1>11, <1>18

\* One packet more is one more of those that fit, if it fits.
LEMMA FittingStep ==
  ASSUME NEW w, NEW k \in Nat
  PROVE  LET F(n) == {j \in 1..n : Fits(w[j])}
         IN  /\ Cardinality(F(0)) = 0
             /\ Cardinality(F(k)) \in Nat /\ Cardinality(F(k)) <= k
             /\ Cardinality(F(k + 1)) = Cardinality(F(k)) + (IF Fits(w[k + 1]) THEN 1 ELSE 0)
<1> DEFINE F(n) == {j \in 1..n : Fits(w[j])}
<1>1. F(0) = {} OBVIOUS
<1>2. IsFiniteSet(F(k)) /\ Cardinality(F(k)) \in Nat /\ Cardinality(F(k)) <= k
  <2>1. IsFiniteSet(1..k) /\ Cardinality(1..k) = k
    <3>1. IsFiniteSet(1..k) /\ Cardinality(1..k) = IF 1 > k THEN 0 ELSE k - 1 + 1
      BY FS_Interval
    <3> QED BY <3>1
  <2>2. F(k) \in SUBSET (1..k) OBVIOUS
  <2> HIDE DEF F
  <2>3. IsFiniteSet(F(k)) /\ Cardinality(F(k)) <= Cardinality(1..k) BY <2>1, <2>2, FS_Subset
  <2> QED BY <2>1, <2>3, FS_CardinalityType
<1>3. Cardinality(F(k + 1)) = Cardinality(F(k)) + (IF Fits(w[k + 1]) THEN 1 ELSE 0)
  <2>1. 1..(k + 1) = (1..k) \cup {k + 1} /\ k + 1 \notin 1..k OBVIOUS
  <2>2. CASE Fits(w[k + 1])
    <3>1. F(k + 1) = F(k) \cup {k + 1} BY <2>1, <2>2
    <3>2. k + 1 \notin F(k) OBVIOUS
    <3> HIDE DEF F
    <3>3. Cardinality(F(k) \cup {k + 1}) = Cardinality(F(k)) + 1
      BY <1>2, <3>2, FS_AddElement
    <3> QED BY <2>2, <3>1, <3>3
  <2>3. CASE ~Fits(w[k + 1])
    <3>1. F(k + 1) = F(k) BY <2>1, <2>3
    <3> HIDE DEF F
    <3> QED BY <1>2, <2>3, <3>1
  <2> QED BY <2>2, <2>3
<1> QED BY <1>1, <1>2, <1>3, FS_EmptySet

\* What has been written decides how many fit.
LEMMA FittingMore ==
  ASSUME NEW k \in Nat
  PROVE  /\ Fitting(0) = 0 /\ Fitting(0)' = 0
         /\ Fitting(k) \in Nat /\ Fitting(k) <= k
         /\ Fitting(k + 1) = Fitting(k) + (IF Fits(written[k + 1]) THEN 1 ELSE 0)
         /\ (\A j \in 1..k : written'[j] = written[j]) => Fitting(k)' = Fitting(k)
<1>1. Fitting(0)' = 0
  <2>1. Fitting(0)' = Cardinality({j \in 1..0 : Fits(written'[j])}) BY DEF Fitting, Fits
  <2>2. {j \in 1..0 : Fits(written'[j])} = {} OBVIOUS
  <2> QED BY <2>1, <2>2, FS_EmptySet
<1>2. (\A j \in 1..k : written'[j] = written[j]) => Fitting(k)' = Fitting(k) BY DEF Fitting, Fits
<1> QED BY <1>1, <1>2, FittingStep DEF Fitting

\* A step that reads nothing new leaves everything where it is.
LEMMA Unmoved ==
  ASSUME NEW S, NEW at, NEW b, NEW r,
         HistoryInv, Stream(S, at, b, r),
         Bytes' = Bytes, coming' = coming, written' = written, read' = read,
         r = Len(written) => rxBuf' = <<>>,
         r < Len(written) => Len(rxBuf') <= Front(written[r + 1])
  PROVE  Stream(S, at, b, r)'
<1>1. Laid(S, at, written)' BY DEF Stream, Laid
<1>2. Records(S, at, written, b, coming)' BY DEF Stream, Records
<1>3. Unread(S, at, written, b, r, rxBuf, Bytes)' BY DEF Stream, Unread
<1>4. Len(read') = Fitting(r)' BY DEF Stream, Fitting
<1> QED BY <1>1, <1>2, <1>3, <1>4 DEF Stream

\* A step past a whole packet leaves the bytes after it.
LEMMA Past ==
  ASSUME NEW S, NEW at, NEW b, NEW r,
         BytesInv, HistoryInv, Stream(S, at, b, r), Len(Bytes) > 0,
         Len(Bytes) >= Len(Serialize(written[r + 1])),
         rxBuf' = <<>>, arrived' = Beyond(Len(Serialize(written[r + 1]))),
         coming' = coming, written' = written, Len(read') = Fitting(r + 1)
  PROVE  Stream(S, at, b, r + 1)'
<1> DEFINE l == Len(Serialize(written[r + 1]))
           back == SubSeq(Bytes, l + 1, Len(Bytes))
<1>1. /\ r \in Nat /\ r + 1 \in 1..Len(written) /\ at[r] \in Nat /\ at[r + 1] = at[r] + l /\ l \in Nat
  <2>1. LET p == written[r + 1]
            f == Front(p)
            n == Len(Rest(p))
        IN  /\ r \in Nat /\ r + 1 \in 1..Len(written) 
            /\ f \in 2..5 /\ n \in Nat /\ Len(Serialize(p)) = f + n
            /\ at[r] \in Nat /\ at[r + 1] = at[r] + (f + n)
    BY FrontRead
  <2> QED BY <2>1
<1>2. /\ S \in Seq(Byte) /\ at[r] + Len(Bytes) = b[0] /\ At(Bytes, S, at[r])
  BY DEF Stream, Unread, Laid
<1>3. Bytes \in Seq(Byte) /\ Len(Bytes) \in Nat BY Arrived
<1>4. At(back, S, at[r] + l) /\ Len(back) = Len(Bytes) - l
  <2>1. l \in 0..Len(Bytes) BY <1>1, <1>3
  <2> HIDE DEF l
  <2> QED BY <1>1, <1>2, <1>3, <2>1, AtBeyond
<1>5. Bytes' = back
  <2>1. back \in Seq(Byte) BY <1>1, <1>3, CutInTwo
  <2>2. <<>> \o back = back BY <2>1
  <2> QED BY <2>2 DEF Bytes, Beyond
<1>6. at[r + 1] + Len(back) = b[0]
  <2> HIDE DEF l, back
  <2> QED BY <1>1, <1>2, <1>3, <1>4
<1>7. Unread(S, at, written, b, r + 1, rxBuf, Bytes)'
  <2>1. Len(rxBuf') = 0 OBVIOUS
  <2>2. r + 1 \in 0..Len(written) BY <1>1
  <2>3. \A k \in 1..Len(written) : written[k] \in AnyPacket BY BrokersPackets
  <2>4. r + 1 < Len(written) => Len(rxBuf') <= Front(written[r + 1 + 1])
    <3> SUFFICES ASSUME r + 1 < Len(written) PROVE Len(rxBuf') <= Front(written[r + 1 + 1]) OBVIOUS
    <3>1. Len(written) \in Nat BY BrokersPackets
    <3>2. r + 1 + 1 \in 1..Len(written) BY <1>1, <3>1
    <3>3. Front(written[r + 1 + 1]) \in 2..5 BY <2>3, <3>2, SerialBytes
    <3> QED BY <2>1, <3>3
  <2> HIDE DEF l, back
  <2> QED BY <1>1, <1>4, <1>5, <1>6, <2>2, <2>4 DEF Unread
<1>8. Laid(S, at, written)' BY DEF Stream, Laid
<1>9. Records(S, at, written, b, coming)' BY DEF Stream, Records
<1>10. Fitting(r + 1)' = Fitting(r + 1) BY DEF Fitting
<1> QED BY <1>7, <1>8, <1>9, <1>10 DEF Stream

\* The header and the length, as far as they are there, stay in the buffer.
LEMMA ReadShortStream ==
  ASSUME NEW S, NEW at, NEW b, NEW r,
         BytesInv, HistoryInv, Stream(S, at, b, r), ReadShort
  PROVE  Stream(S, at, b, r)'
<1>1. /\ arrived # <<>> /\ LenEnd = 0
      /\ rxBuf' = First(5) /\ arrived' = Beyond(5)
      /\ coming' = coming /\ written' = written /\ read' = read
  BY DEF ReadShort, MaxBytes
<1>2. Bytes \in Seq(Byte) /\ Len(Bytes) \in Nat /\ Len(Bytes) > 0
  <2>1. arrived \in Seq(Byte) BY DEF BytesInv
  <2>2. Len(arrived) > 0 BY <1>1, <2>1
  <2> QED BY <2>2, Arrived
<1>3. /\ r < Len(written) /\ Front(written[r + 1]) \in 2..5 /\ Len(Bytes) < Front(written[r + 1])
  <2>1. LET p == written[r + 1]
            f == Front(p)
            n == Len(Rest(p))
        IN  /\ r < Len(written) /\ f \in 2..5
            /\ \/ Len(Bytes) < f /\ LenEnd = 0
               \/ Len(Bytes) = f /\ LenEnd = f /\ Rem = n
               \/ Len(Bytes) >= f + n /\ LenEnd = f /\ Rem = n
    BY <1>2, FrontRead
  <2> QED BY <1>1, <2>1
<1>4. Bytes' = Bytes /\ Len(rxBuf') <= Len(Bytes)
  <2>1. /\ First(5) \o Beyond(5) = Bytes
        /\ Len(First(5)) = IF 5 < Len(Bytes) THEN 5 ELSE Len(Bytes)
    BY <1>2, CutInTwo DEF First, Beyond
  <2>2. Bytes' = rxBuf' \o arrived' BY DEF Bytes
  <2> QED BY <1>1, <1>2, <2>1, <2>2
<1>5. /\ r = Len(written) => rxBuf' = <<>>
      /\ r < Len(written) => Len(rxBuf') <= Front(written[r + 1])
  <2>1. r # Len(written) BY <1>3, BrokersPackets DEF Stream, Unread
  <2>2. Len(rxBuf') \in Nat
    <3>1. First(5) \in Seq(Byte) BY <1>2, CutInTwo DEF First
    <3> QED BY <1>1, <3>1
  <2> QED BY <1>2, <1>3, <1>4, <2>1, <2>2
<1> QED BY <1>1, <1>4, <1>5, Unmoved

\* When the length is known, so is the packet; the rest of it is there or nothing is.
LEMMA Announced ==
  ASSUME NEW S, NEW at, NEW b, NEW r,
         BytesInv, HistoryInv, Stream(S, at, b, r), LenEnd > 0
  PROVE  LET p == written[r + 1]
             f == Front(p)
             n == Len(Rest(p))
         IN  /\ r \in Nat /\ r + 1 \in 1..Len(written) /\ r < Len(written)
             /\ p \in FromBroker /\ p \in Incoming
             /\ f \in 2..5 /\ n \in Nat /\ Len(Serialize(p)) = f + n /\ Serialize(p) \in Seq(Byte)
             /\ LenEnd = f /\ Rem = n /\ InBuf = f
             /\ Fits(p) <=> ~TooLong
             /\ \A i \in 1..Len(Bytes) : i <= f + n => Bytes[i] = Serialize(p)[i]
             /\ Len(Bytes) \in Nat /\ Len(Bytes) > 0
             /\ Len(Bytes) = f \/ Len(Bytes) >= f + n
<1> DEFINE p == written[r + 1]
           f == Front(p)
           n == Len(Rest(p))
<1>1. Bytes \in Seq(Byte) /\ Len(Bytes) \in Nat /\ Len(rxBuf) \in Nat BY Arrived
<1>2. Len(Bytes) > 0
  <2> SUFFICES ASSUME ~(Len(Bytes) > 0) PROVE FALSE OBVIOUS
  <2>1. \A k \in 1..MaxBytes : ~(2 + k - 1 <= Len(Bytes)) BY <1>1 DEF MaxBytes
  <2>2. LenEnd = 0 BY <2>1 DEF LenEnd, LengthEnd
  <2> QED BY <2>2
<1>3. /\ r \in Nat /\ r + 1 \in 1..Len(written) /\ r < Len(written)
      /\ p \in FromBroker /\ p \in Incoming
      /\ f \in 2..5 /\ n \in Nat /\ Len(Serialize(p)) = f + n
      /\ Len(rxBuf) <= f
      /\ \A i \in 1..Len(Bytes) : i <= f + n => Bytes[i] = Serialize(p)[i]
      /\ \/ Len(Bytes) < f /\ LenEnd = 0
         \/ Len(Bytes) = f /\ LenEnd = f /\ Rem = n
         \/ Len(Bytes) >= f + n /\ LenEnd = f /\ Rem = n
  BY <1>2, FrontRead
<1>4. Serialize(p) \in Seq(Byte) BY <1>3, SerialBytes DEF AnyPacket
<1> HIDE DEF p, f, n
<1>5. LenEnd = f /\ Rem = n /\ (Len(Bytes) = f \/ Len(Bytes) >= f + n) BY <1>3
<1>6. InBuf = f BY <1>1, <1>3, <1>5 DEF InBuf
<1>7. Fits(p) <=> ~TooLong
  <2>1. RxSize \in Nat BY WireAssumption
  <2>2. Fits(p) <=> f + n < RxSize BY <1>3 DEF Fits
  <2>3. TooLong <=> n + f >= RxSize BY <1>5 DEF TooLong
  <2>4. f + n < RxSize <=> ~(n + f >= RxSize) BY <1>3, <2>1
  <2> QED BY <2>2, <2>3, <2>4, Zenon
<1> QED BY <1>1, <1>2, <1>3, <1>4, <1>5, <1>6, <1>7 DEF p, f, n

\* Nothing is lost when the rest of a packet is awaited.
LEMMA ReadTornStream ==
  ASSUME NEW S, NEW at, NEW b, NEW r,
         BytesInv, HistoryInv, Stream(S, at, b, r), ReadTorn
  PROVE  Stream(S, at, b, r)'
<1> DEFINE p == written[r + 1]
           f == Front(p)
           n == Len(Rest(p))
<1>1. /\ LenEnd > 0 /\ LenEnd + Rem > Len(Bytes)
      /\ rxBuf' = First(InBuf) /\ arrived' = <<>>
      /\ coming' = coming /\ written' = written /\ read' = read
  BY DEF ReadTorn
<1>2. /\ r \in Nat /\ r < Len(written) /\ f \in 2..5 /\ n \in Nat
      /\ LenEnd = f /\ Rem = n /\ InBuf = f
      /\ Len(Bytes) \in Nat /\ (Len(Bytes) = f \/ Len(Bytes) >= f + n)
  BY <1>1, Announced
<1>3. Len(Bytes) = f
  <2> HIDE DEF f, n
  <2> QED BY <1>1, <1>2
<1>4. Bytes \in Seq(Byte) BY Arrived
<1>5. rxBuf' = Bytes
  <2>1. f \in Nat /\ f >= Len(Bytes) BY <1>2, <1>3
  <2> HIDE DEF f
  <2> QED BY <1>1, <1>2, <1>4, <2>1, CutInTwo DEF First
<1>6. Bytes' = Bytes
  <2>1. Bytes \o <<>> = Bytes BY <1>4
  <2> QED BY <1>1, <1>5, <2>1 DEF Bytes
<1>7. Len(written) \in Nat BY BrokersPackets
<1> QED BY <1>1, <1>2, <1>3, <1>5, <1>6, <1>7, Unmoved

\* A packet that has arrived is what was written.
LEMMA ReadPacketStream ==
  ASSUME NEW S, NEW at, NEW b, NEW r,
         BytesInv, HistoryInv, Stream(S, at, b, r), ReadPacket
  PROVE  /\ Stream(S, at, b, r + 1)'
         /\ r + 1 \in 1..Len(written) /\ Fits(written[r + 1])
         /\ written[r + 1] \in Incoming /\ written[r + 1] \in FromBroker
         /\ Deserialize(First(LenEnd + Rem)) = written[r + 1]
         /\ read' = Append(read, written[r + 1])
         /\ Fitting(r + 1) = Len(read) + 1
<1> DEFINE p == written[r + 1]
           f == Front(p)
           n == Len(Rest(p))
           end == LenEnd + Rem
<1>1. /\ LenEnd > 0 /\ ~TooLong /\ end <= Len(Bytes)
      /\ rxBuf' = <<>>
      /\ arrived' = Beyond(IF end < Len(rxBuf) THEN Len(rxBuf) ELSE end)
      /\ read' = Append(read, Deserialize(First(end)))
      /\ coming' = coming /\ written' = written
  BY DEF ReadPacket
<1>2. /\ r \in Nat /\ r + 1 \in 1..Len(written) /\ r < Len(written)
      /\ p \in FromBroker /\ p \in Incoming
      /\ f \in 2..5 /\ n \in Nat /\ Len(Serialize(p)) = f + n /\ Serialize(p) \in Seq(Byte)
      /\ LenEnd = f /\ Rem = n /\ InBuf = f
      /\ Fits(p)
      /\ \A i \in 1..Len(Bytes) : i <= f + n => Bytes[i] = Serialize(p)[i]
      /\ Len(Bytes) \in Nat /\ Len(Bytes) > 0
  BY <1>1, Announced
<1> HIDE DEF p, f, n
<1>3. end = f + n /\ end \in Nat BY <1>2
<1>4. Bytes \in Seq(Byte) /\ Len(rxBuf) \in Nat BY Arrived
<1>5. First(end) = Serialize(p)
  <2>1. /\ First(end) \in Seq(Byte)
        /\ Len(First(end)) = (IF end < Len(Bytes) THEN end ELSE Len(Bytes))
        /\ \A i \in 1..(IF end < Len(Bytes) THEN end ELSE Len(Bytes)) : First(end)[i] = Bytes[i]
    BY <1>3, <1>4, CutInTwo DEF First
  <2>2. (IF end < Len(Bytes) THEN end ELSE Len(Bytes)) = end BY <1>1, <1>2, <1>3
  <2>3. Len(First(end)) = end /\ \A i \in 1..end : First(end)[i] = Bytes[i] BY <2>1, <2>2
  <2>4. Len(Serialize(p)) = end BY <1>2, <1>3
  <2>5. \A i \in 1..end : i \in 1..Len(Bytes) /\ i <= f + n BY <1>1, <1>2, <1>3
  <2>6. \A i \in 1..end : First(end)[i] = Serialize(p)[i] BY <2>3, <2>5, <1>2
  <2> QED BY <1>2, <2>1, <2>3, <2>4, <2>6, SeqEqual
<1>6. Deserialize(First(end)) = p BY <1>2, <1>5, RoundTrip
<1>7. arrived' = Beyond(Len(Serialize(p)))
  <2>1. Len(rxBuf) <= InBuf BY <1>2, <1>4 DEF InBuf
  <2>2. ~(end < Len(rxBuf)) BY <1>2, <1>3, <1>4, <2>1
  <2>3. (IF end < Len(rxBuf) THEN Len(rxBuf) ELSE end) = Len(Serialize(p)) BY <1>2, <1>3, <2>2
  <2> QED BY <1>1, <2>3
<1>8. Len(read) \in Nat /\ read \in Seq(Incoming) BY BrokersPackets DEF HistoryInv
<1>9. Fitting(r + 1) = Len(read) + 1
  <2>1. Fitting(r + 1) = Fitting(r) + 1 BY <1>2, FittingMore DEF p
  <2>2. Len(read) = Fitting(r) BY DEF Stream
  <2> QED BY <2>1, <2>2
<1>10. read' = Append(read, p) /\ Len(read') = Fitting(r + 1)
  <2>1. read' = Append(read, p) BY <1>1, <1>6
  <2>2. Len(Append(read, p)) = Len(read) + 1 BY <1>8
  <2> QED BY <2>1, <2>2, <1>9
<1>11. Len(Bytes) >= Len(Serialize(p)) BY <1>1, <1>2, <1>3
<1>12. Stream(S, at, b, r + 1)' BY <1>1, <1>2, <1>7, <1>10, <1>11, Past DEF p
<1> QED BY <1>2, <1>6, <1>9, <1>10, <1>12 DEF p

\* A packet that does not fit takes nothing with it.
LEMMA DropPacketStream ==
  ASSUME NEW S, NEW at, NEW b, NEW r,
         Whole, BytesInv, HistoryInv, Stream(S, at, b, r), DropPacket
  PROVE  Stream(S, at, b, r)' \/ Stream(S, at, b, r + 1)'
<1> DEFINE p == written[r + 1]
           f == Front(p)
           n == Len(Rest(p))
           need == InBuf + IF Rem < RxSize THEN RxSize ELSE Rem
           data == SubSeq(First(need), InBuf + 1, Len(First(need)))
<1>1. /\ LenEnd > 0 /\ TooLong
      /\ arrived' = Beyond(need)
      /\ rxBuf' = IF Rem >= RxSize /\ Len(data) = Rem THEN <<>> ELSE [i \in 1..InBuf |-> OverwrittenByte(i, data)]
      /\ coming' = coming /\ written' = written /\ read' = read
  BY DEF DropPacket
<1>2. /\ r \in Nat /\ r + 1 \in 1..Len(written) /\ r < Len(written)
      /\ p \in FromBroker /\ p \in Incoming
      /\ f \in 2..5 /\ n \in Nat /\ Len(Serialize(p)) = f + n /\ Serialize(p) \in Seq(Byte)
      /\ LenEnd = f /\ Rem = n /\ InBuf = f
      /\ ~Fits(p)
      /\ Len(Bytes) \in Nat /\ Len(Bytes) > 0
      /\ Len(Bytes) = f \/ Len(Bytes) >= f + n
  BY <1>1, Announced
<1>3. RxSize \in Nat /\ RxSize > 4 BY WireAssumption
<1>4. RxSize <= n
  <2>1. DOMAIN written = 1..Len(written) BY DEF HistoryInv
  <2>2. Drained(p) BY <1>2, <2>1 DEF Whole
  <2>3. Len(Rest(p)) >= RxSize BY <1>2, <2>2 DEF Drained
  <2> HIDE DEF p
  <2> QED BY <1>2, <1>3, <2>3
<1>5. Bytes \in Seq(Byte) BY Arrived
<1> HIDE DEF f, n, p
<1>6. need = f + n BY <1>2, <1>3, <1>4
<1> HIDE DEF need
<1>7. need \in Nat /\ need > 0 BY <1>2, <1>6
<1>8. CASE Len(Bytes) >= f + n
  <2>1. First(need) \in Seq(Byte) /\ Len(First(need)) = need
    <3>1. (IF need < Len(Bytes) THEN need ELSE Len(Bytes)) = need BY <1>2, <1>6, <1>7, <1>8
    <3>2. /\ First(need) \in Seq(Byte)
          /\ Len(First(need)) = (IF need < Len(Bytes) THEN need ELSE Len(Bytes))
      BY <1>5, <1>7, CutInTwo DEF First
    <3> QED BY <3>1, <3>2
  <2>2. Len(data) = n
    <3> DEFINE t == First(need)
    <3>1. t \in Seq(Byte) /\ Len(t) = f + n /\ f \in Nat BY <1>2, <1>6, <2>1
    <3> HIDE DEF t
    <3>2. /\ Len(SubSeq(t, f + 1, Len(t))) = Len(t) - (IF f < Len(t) THEN f ELSE Len(t))
      BY <3>1, CutInTwo
    <3>3. Len(SubSeq(t, f + 1, Len(t))) = n BY <1>2, <1>3, <1>4, <3>1, <3>2
    <3> QED BY <1>2, <3>3 DEF t
  <2>3. rxBuf' = <<>>
    <3> HIDE DEF data
    <3> QED BY <1>1, <1>2, <1>3, <1>4, <2>2
  <2>4. Len(read') = Fitting(r + 1)
    <3>1. Fitting(r + 1) = Fitting(r) BY <1>2, FittingMore DEF p
    <3> QED BY <1>1, <3>1 DEF Stream
  <2>5. arrived' = Beyond(Len(Serialize(p))) BY <1>1, <1>2, <1>6
  <2>6. Len(Bytes) >= Len(Serialize(p)) BY <1>2, <1>8
  <2>7. Stream(S, at, b, r + 1)' BY <1>1, <1>2, <2>3, <2>4, <2>5, <2>6, Past DEF p
  <2> QED BY <2>7
<1>9. CASE Len(Bytes) = f
  <2>1. First(need) = Bytes /\ Beyond(need) = <<>>
    <3>1. need >= Len(Bytes) BY <1>2, <1>6, <1>9
    <3> QED BY <1>5, <1>7, <3>1, CutInTwo DEF First, Beyond
  <2>2. data = <<>>
    <3>1. SubSeq(Bytes, f + 1, Len(Bytes)) = <<>>
      <4>1. f \in Nat /\ f >= Len(Bytes) BY <1>2, <1>9
      <4> QED BY <1>5, <4>1, CutInTwo
    <3> QED BY <1>2, <2>1, <3>1
  <2>3. Len(data) # Rem
    <3> HIDE DEF data
    <3>1. Len(data) = 0 BY <2>2
    <3> QED BY <1>2, <1>3, <1>4, <3>1
  <2>4. \A i \in 1..f : OverwrittenByte(i, data) = Bytes[i]
    <3> HIDE DEF data
    <3>1. DOMAIN data = {} BY <2>2
    <3> QED BY <3>1 DEF OverwrittenByte
  <2>5. rxBuf' = Bytes
    <3>1. rxBuf' = [i \in 1..f |-> OverwrittenByte(i, data)] BY <1>1, <1>2, <2>3
    <3>2. rxBuf' = [i \in 1..f |-> Bytes[i]]
      <4> HIDE DEF data
      <4> QED BY <2>4, <3>1
    <3>3. Bytes = [i \in 1..Len(Bytes) |-> Bytes[i]] BY <1>5
    <3> QED BY <1>9, <3>2, <3>3
  <2>6. Bytes' = Bytes
    <3>1. Bytes \o <<>> = Bytes BY <1>5
    <3>2. arrived' = <<>> BY <1>1, <2>1
    <3> QED BY <2>5, <3>1, <3>2 DEF Bytes
  <2>7. r # Len(written) /\ Len(rxBuf') <= Front(written[r + 1])
    <3>1. Len(written) \in Nat BY BrokersPackets
    <3>2. Len(rxBuf') = f BY <1>9, <2>5
    <3> QED BY <1>2, <3>1, <3>2 DEF f, p
  <2> QED BY <1>1, <2>6, <2>7, Unmoved
<1> QED BY <1>2, <1>8, <1>9

\* A record that arrives goes behind the bytes that are there.
LEMMA RecordArrivesStream ==
  ASSUME NEW S, NEW at, NEW b, NEW r,
         BytesInv, HistoryInv, Stream(S, at, b, r), RecordArrives
  PROVE  Stream(S, at, [j \in Nat |-> b[j + 1]], r)'
<1> DEFINE c == [j \in Nat |-> b[j + 1]]
           m == Len(coming)
           h == Head(coming)
           t == Tail(coming)
<1>1. /\ coming # <<>> /\ coming' = t /\ arrived' = arrived \o h
      /\ rxBuf' = rxBuf /\ written' = written /\ read' = read
  BY DEF RecordArrives
<1>2. /\ coming \in Seq(Seq(Byte)) /\ rxBuf \in Seq(Byte) /\ arrived \in Seq(Byte)
  BY DEF BytesInv
<1>3. /\ m \in Nat /\ m > 0 /\ h = coming[1] /\ h \in Seq(Byte)
      /\ t \in Seq(Seq(Byte)) /\ Len(t) = m - 1 /\ \A j \in 1..(m - 1) : t[j] = coming[j + 1]
  BY <1>1, <1>2
<1>4. /\ b \in [Nat -> Nat] /\ b[m] = Len(S)
      /\ \A j \in 0..m : b[j] <= Len(S) /\ Cut(at, written, b[j])
      /\ \A j \in 1..m : b[j] = b[j - 1] + Len(coming[j]) /\ At(coming[j], S, b[j - 1])
  BY DEF Stream, Records
<1>5. /\ S \in Seq(Byte) /\ at \in [Nat -> Nat]
      /\ r \in 0..Len(written) /\ at[r] + Len(Bytes) = b[0] /\ At(Bytes, S, at[r])
  BY DEF Stream, Laid, Unread
<1>6. r \in Nat /\ at[r] \in Nat /\ b[0] \in Nat BY <1>4, <1>5, BrokersPackets
<1>7. Bytes \in Seq(Byte) /\ Len(Bytes) \in Nat BY Arrived
<1>8. Bytes' = Bytes \o h
  <2> HIDE DEF h
  <2>1. rxBuf \in Seq(Byte) /\ arrived \in Seq(Byte) /\ h \in Seq(Byte) BY <1>2, <1>3
  <2>2. (rxBuf \o arrived) \o h = rxBuf \o (arrived \o h) BY <2>1, ConcatAssociative, SMTT(30)
  <2> QED BY <1>1, <2>2 DEF Bytes
<1>9. Laid(S, at, written)' BY <1>1 DEF Stream, Laid
<1>10. c \in [Nat -> Nat] /\ \A j \in Nat : c[j] = b[j + 1] BY <1>4
<1> HIDE DEF c, m, h, t
<1>11. Records(S, at, written, c, coming)'
  <2>1. c[Len(t)] = Len(S)
    <3>1. m - 1 \in Nat /\ m - 1 + 1 = m BY <1>3
    <3> QED BY <1>3, <1>4, <1>10, <3>1
  <2>2. \A j \in 0..Len(t) : c[j] <= Len(S) /\ Cut(at, written, c[j])
    <3> TAKE j \in 0..Len(t)
    <3>1. j \in Nat /\ j + 1 \in 0..m BY <1>3
    <3> QED BY <1>4, <1>10, <3>1
  <2>3. \A j \in 1..Len(t) : c[j] = c[j - 1] + Len(t[j]) /\ At(t[j], S, c[j - 1])
    <3> TAKE j \in 1..Len(t)
    <3>1. /\ j \in Nat /\ j - 1 \in Nat /\ j + 1 \in 1..m /\ j + 1 - 1 = j /\ j - 1 + 1 = j
          /\ j \in 1..(m - 1)
      BY <1>3
    <3>2. c[j] = b[j + 1] /\ c[j - 1] = b[j] BY <1>10, <3>1
    <3>3. t[j] = coming[j + 1] BY <1>3, <3>1
    <3> DEFINE k == j + 1
    <3>4. k \in 1..m /\ k - 1 = j BY <3>1
    <3> HIDE DEF k
    <3>5. b[k] = b[k - 1] + Len(coming[k]) /\ At(coming[k], S, b[k - 1]) BY <1>4, <3>4
    <3>6. b[k] = b[j] + Len(coming[k]) /\ At(coming[k], S, b[j]) BY <3>4, <3>5
    <3> USE DEF k
    <3> QED BY <3>2, <3>3, <3>6
  <2> QED BY <1>1, <1>10, <2>1, <2>2, <2>3 DEF Records
<1>12. Unread(S, at, written, c, r, rxBuf, Bytes)'
  <2>1. b[1] = b[0] + Len(h) /\ At(h, S, b[0])
    <3>1. 1 \in 1..m /\ 1 - 1 = 0 BY <1>3
    <3> QED BY <1>3, <1>4, <3>1
  <2>2. c[0] = b[1] BY <1>10
  <2>3. Len(Bytes \o h) = Len(Bytes) + Len(h) /\ Len(h) \in Nat BY <1>3, <1>7, Joined
  <2>4. At(Bytes \o h, S, at[r]) BY <1>3, <1>5, <1>6, <1>7, <2>1, AtJoined
  <2>5. at[r] + Len(Bytes \o h) = c[0]
    <3> DEFINE x == at[r]
               y == b[0]
               u == Len(Bytes)
               v == Len(h)
    <3>1. x \in Nat /\ u \in Nat /\ v \in Nat /\ x + u = y /\ c[0] = y + v BY <1>5, <1>6, <1>7, <2>1, <2>2, <2>3
    <3>2. Len(Bytes \o h) = u + v BY <2>3
    <3> HIDE DEF x, y, u, v
    <3>3. x + (u + v) = c[0] BY <3>1
    <3> QED BY <3>2, <3>3 DEF x
  <2>6. /\ r = Len(written) => rxBuf = <<>>
        /\ r < Len(written) => Len(rxBuf) <= Front(written[r + 1])
    BY DEF Stream, Unread
  <2> QED BY <1>1, <1>5, <1>8, <2>4, <2>5, <2>6 DEF Unread
<1>13. Len(read') = Fitting(r)' BY <1>1 DEF Stream, Fitting
<1> QED BY <1>9, <1>11, <1>12, <1>13 DEF Stream, c

\* Before anything is sent.
LEMMA NewStream ==
  ASSUME coming' = <<>>, arrived' = <<>>, rxBuf' = <<>>, written' = <<>>, read' = <<>>
  PROVE  Stream(<<>>, [k \in Nat |-> 0], [k \in Nat |-> 0], 0)'
<1> DEFINE z == [k \in Nat |-> 0]
<1>1. z \in [Nat -> Nat] /\ z[0] = 0 OBVIOUS
<1> HIDE DEF z
<1>2. <<>> \in Seq(Byte) /\ Len(<<>>) = 0 OBVIOUS
<1>3. Bytes' = <<>> BY DEF Bytes
<1>4. Laid(<<>>, z, written)' BY <1>1, <1>2 DEF Laid
<1>5. Records(<<>>, z, written, z, coming)' BY <1>1, <1>2 DEF Records, Cut
<1>6. Unread(<<>>, z, written, z, 0, rxBuf, Bytes)' BY <1>1, <1>2, <1>3 DEF Unread, At
<1>7. Len(read') = Fitting(0)' BY <1>2, FittingMore
<1> QED BY <1>4, <1>5, <1>6, <1>7 DEF Stream, z

\* A packet more goes behind those there are.
LEMMA LaidMore ==
  ASSUME NEW S, NEW at, NEW w \in Seq(Incoming), NEW p \in Incoming, Laid(S, at, w)
  PROVE  LET T    == S \o Serialize(p)
             more == [k \in Nat |-> IF k <= Len(w) THEN at[k] ELSE Len(T)]
         IN  /\ Laid(T, more, Append(w, p))
             /\ T \in Seq(Byte) /\ Len(T) = Len(S) + Len(Serialize(p))
             /\ \A k \in 0..Len(w) : at[k] \in Nat /\ at[k] <= Len(S)
<1> DEFINE bytes == Serialize(p)
           T    == S \o bytes
           n    == Len(w)
           v    == Append(w, p)
           more == [k \in Nat |-> IF k <= n THEN at[k] ELSE Len(T)]
<1>1. p \in AnyPacket /\ bytes \in Seq(Byte) /\ Len(bytes) \in Nat /\ Len(bytes) > 0
  <2>1. p \in AnyPacket BY WireAssumption DEF AnyPacket
  <2>2. Len(bytes) = Front(p) + Len(Rest(p)) /\ Front(p) \in 2..5 /\ Len(Rest(p)) \in Nat
    BY <2>1, SerialBytes
  <2> HIDE DEF bytes
  <2> QED BY <2>1, <2>2, SerialBytes DEF bytes
<1>2. /\ S \in Seq(Byte) /\ at \in [Nat -> Nat] /\ at[0] = 0 /\ at[n] = Len(S)
      /\ \A k \in 1..n : at[k] = at[k - 1] + Len(Serialize(w[k])) /\ At(Serialize(w[k]), S, at[k - 1])
      /\ \A k \in 0..n : k < n => at[k] < Len(S)
  BY DEF Laid
<1>3. n \in Nat /\ v \in Seq(Incoming) /\ Len(v) = n + 1 /\ v[n + 1] = p /\ \A k \in 1..n : v[k] = w[k]
  OBVIOUS
<1>4. Len(S) \in Nat BY <1>2
<1> HIDE DEF bytes, n, v
<1>5. T \in Seq(Byte) /\ Len(T) = Len(S) + Len(bytes) /\ At(bytes, T, Len(S))
  BY <1>1, <1>2, AtLonger
<1> HIDE DEF T
<1>6. \A k \in 0..n : at[k] \in Nat /\ at[k] <= Len(S)
  <2> TAKE k \in 0..n
  <2>1. k \in Nat /\ (k = n \/ k < n) BY <1>3
  <2>2. at[k] \in Nat BY <1>2, <2>1
  <2>3. CASE k = n
    <3>1. at[k] = Len(S) BY <1>2, <2>3
    <3> QED BY <1>4, <2>2, <3>1
  <2>4. CASE k < n
    <3>1. at[k] < Len(S) BY <1>2, <2>4
    <3> QED BY <1>4, <2>2, <3>1
  <2> QED BY <2>1, <2>3, <2>4
<1>7. /\ more \in [Nat -> Nat]
      /\ \A k \in 0..n : more[k] = at[k]
      /\ more[n + 1] = Len(T)
  <2>1. Len(T) \in Nat BY <1>5
  <2>2. more \in [Nat -> Nat] BY <1>2, <2>1
  <2>3. \A k \in 0..n : k \in Nat /\ k <= n BY <1>3
  <2>4. \A k \in 0..n : more[k] = at[k] BY <2>3
  <2>5. n + 1 \in Nat /\ ~(n + 1 <= n) BY <1>3
  <2>6. more[n + 1] = Len(T) BY <2>5
  <2> QED BY <2>2, <2>4, <2>6
<1> HIDE DEF more
<1>8. \A k \in 1..Len(v) : more[k] = more[k - 1] + Len(Serialize(v[k])) /\ At(Serialize(v[k]), T, more[k - 1])
  <2> TAKE k \in 1..Len(v)
  <2>1. CASE k \in 1..n
    <3>1. k \in 0..n /\ k - 1 \in 0..n BY <1>3, <2>1
    <3>2. more[k] = at[k] /\ more[k - 1] = at[k - 1] /\ v[k] = w[k] BY <1>3, <1>7, <2>1, <3>1
    <3> DEFINE t == Serialize(w[k])
    <3>3. at[k] = at[k - 1] + Len(t) /\ At(t, S, at[k - 1]) BY <1>2, <2>1
    <3>4. t \in Seq(Byte)
      <4>1. w[k] \in AnyPacket BY <2>1, WireAssumption DEF AnyPacket, n
      <4> QED BY <4>1, SerialBytes
    <3>5. at[k - 1] \in Nat /\ at[k] <= Len(S) BY <1>6, <3>1
    <3> HIDE DEF t
    <3>6. At(t, T, at[k - 1]) BY <1>1, <1>2, <3>3, <3>4, <3>5, AtLonger DEF T
    <3> QED BY <3>2, <3>3, <3>6 DEF t
  <2>2. CASE k = n + 1
    <3>1. k - 1 = n /\ n \in 0..n BY <1>3, <2>2
    <3>2. more[k - 1] = Len(S) /\ more[k] = Len(T) /\ v[k] = p BY <1>2, <1>3, <1>7, <2>2, <3>1
    <3> QED BY <1>5, <3>2 DEF bytes
  <2> QED BY <1>3, <2>1, <2>2
<1>9. \A k \in 0..Len(v) : k < Len(v) => more[k] < Len(T)
  <2> SUFFICES ASSUME NEW k \in 0..Len(v), k < Len(v) PROVE more[k] < Len(T) OBVIOUS
  <2>1. k \in 0..n BY <1>3
  <2>2. more[k] = at[k] /\ at[k] \in Nat /\ at[k] <= Len(S) BY <1>6, <1>7, <2>1
  <2> QED BY <1>1, <1>4, <1>5, <2>2
<1>10. more[0] = 0 /\ more[Len(v)] = Len(T)
  <2>1. 0 \in 0..n BY <1>3
  <2> QED BY <1>2, <1>3, <1>7, <2>1
<1>11. Laid(T, more, v) BY <1>5, <1>7, <1>8, <1>9, <1>10 DEF Laid
<1> QED BY <1>5, <1>6, <1>11 DEF T, bytes, n, v, more

\* The two records a packet comes in.
LEMMA TwoParts ==
  ASSUME NEW s \in Seq(Byte), NEW t \in Seq(Byte), NEW x \in Nat, At(t, s, x), NEW e \in 0..Len(t)
  PROVE  LET u == SubSeq(t, 1, e)
             v == SubSeq(t, e + 1, Len(t))
         IN  /\ u \in Seq(Byte) /\ Len(u) = e /\ At(u, s, x)
             /\ v \in Seq(Byte) /\ Len(v) = Len(t) - e /\ At(v, s, x + e)
<1> DEFINE u == SubSeq(t, 1, e)
           v == SubSeq(t, e + 1, Len(t))
           m == IF e < Len(t) THEN e ELSE Len(t)
<1>1. m = e /\ e \in Nat /\ Len(t) \in Nat OBVIOUS
<1>2. /\ SubSeq(t, 1, m) \in Seq(Byte) /\ Len(SubSeq(t, 1, m)) = m
      /\ \A i \in 1..m : SubSeq(t, 1, m)[i] = t[i]
      /\ v \in Seq(Byte)
  BY <1>1, CutInTwo
<1>3. At(v, s, x + e) /\ Len(v) = Len(t) - e BY AtBeyond
<1>4. u \in Seq(Byte) /\ Len(u) = e /\ \A i \in 1..e : u[i] = t[i]
  <2> HIDE DEF m
  <2> QED BY <1>1, <1>2
<1> HIDE DEF u
<1>5. At(u, s, x)
  <2>1. \A i \in 1..e : i \in 1..Len(t) BY <1>1
  <2> QED BY <1>4, <2>1 DEF At
<1> QED BY <1>2, <1>3, <1>4, <1>5 DEF u

\* A packet comes in two records that end in its length or at its end.
LEMMA BrokerSendsStream ==
  ASSUME NEW S, NEW at, NEW b, NEW r,
         ~split', BytesInv, HistoryInv, Stream(S, at, b, r), BrokerSends
  PROVE  \E T, more, c : Stream(T, more, c, r)'
<1> DEFINE n == Len(written)
           m == Len(coming)
<1>1. PICK p \in Incoming : \E e \in 0..Len(Serialize(p)) - 1 :
        /\ split' = (split \/ e > LengthOf(Serialize(p)))
        /\ coming' = coming \o <<SubSeq(Serialize(p), 1, e),
                                 SubSeq(Serialize(p), e + 1, Len(Serialize(p)))>>
        /\ written' = Append(written, p)
        /\ arrived' = arrived /\ rxBuf' = rxBuf /\ read' = read
  BY DEF BrokerSends
<1>1a. PICK e \in 0..Len(Serialize(p)) - 1 :
        /\ split' = (split \/ e > LengthOf(Serialize(p)))
        /\ coming' = coming \o <<SubSeq(Serialize(p), 1, e),
                                 SubSeq(Serialize(p), e + 1, Len(Serialize(p)))>>
        /\ written' = Append(written, p)
        /\ arrived' = arrived /\ rxBuf' = rxBuf /\ read' = read
  BY <1>1
<1> DEFINE bytes == Serialize(p)
           T     == S \o bytes
           more  == [k \in Nat |-> IF k <= n THEN at[k] ELSE Len(T)]
           w     == Append(written, p)
           u     == SubSeq(bytes, 1, e)
           v     == SubSeq(bytes, e + 1, Len(bytes))
           pair  == <<u, v>>
           go    == coming \o pair
           c     == [j \in Nat |-> IF j <= m THEN b[j] ELSE IF j = m + 1 THEN Len(S) + e ELSE Len(T)]
<1>2. /\ n \in Nat /\ m \in Nat
      /\ w \in Seq(Incoming) /\ Len(w) = n + 1 /\ w[n + 1] = p
      /\ \A k \in 1..n : w[k] = written[k]
  <2>1. written \in Seq(Incoming) /\ coming \in Seq(Seq(Byte)) BY DEF HistoryInv, BytesInv
  <2> QED BY <2>1
<1>3. p \in AnyPacket BY WireAssumption DEF AnyPacket
<1>4. /\ bytes \in Seq(Byte) /\ Len(bytes) \in Nat /\ Front(p) \in 2..5
      /\ e \in 0..Front(p) /\ e \in 0..Len(bytes) /\ e \in Nat
  <2>1. /\ bytes \in Seq(Byte) /\ Len(bytes) = Front(p) + Len(Rest(p))
        /\ Front(p) \in 2..5 /\ Len(Rest(p)) \in Nat
    BY <1>3, SerialBytes
  <2>2. e \in 0..Front(p)
    <3>1. LengthOf(Serialize(p)) = Front(p) BY <1>3, LengthOfSerial DEF LengthOf
    <3>2. ~(e > LengthOf(Serialize(p))) BY <1>1a
    <3> HIDE DEF bytes
    <3> QED BY <2>1, <3>1, <3>2
  <2> HIDE DEF bytes
  <2> QED BY <2>1, <2>2
<1>5. /\ S \in Seq(Byte) /\ Len(S) \in Nat /\ Laid(S, at, written) /\ at[n] = Len(S)
      /\ r \in 0..n /\ at[r] + Len(Bytes) = b[0] /\ At(Bytes, S, at[r])
      /\ r = n => rxBuf = <<>>
      /\ r < n => Len(rxBuf) <= Front(written[r + 1])
  <2>1. S \in Seq(Byte) /\ Laid(S, at, written) /\ at[n] = Len(S) BY DEF Stream, Laid
  <2>2. /\ r \in 0..n /\ at[r] + Len(Bytes) = b[0] /\ At(Bytes, S, at[r])
        /\ r = n => rxBuf = <<>>
        /\ r < n => Len(rxBuf) <= Front(written[r + 1])
    BY DEF Stream, Unread
  <2>3. Len(S) \in Nat BY <2>1, LenProperties
  <2> QED BY <2>1, <2>2, <2>3
<1>6. /\ Laid(T, more, w) /\ T \in Seq(Byte) /\ Len(T) = Len(S) + Len(bytes)
      /\ \A k \in 0..n : at[k] \in Nat /\ at[k] <= Len(S)
  <2>1. written \in Seq(Incoming) BY DEF HistoryInv
  <2> QED BY <2>1, <1>5, LaidMore
<1>7. At(bytes, T, Len(S)) BY <1>4, <1>5, AtLonger
<1>8. /\ u \in Seq(Byte) /\ Len(u) = e /\ At(u, T, Len(S))
      /\ v \in Seq(Byte) /\ Len(v) = Len(bytes) - e /\ At(v, T, Len(S) + e)
  <2> HIDE DEF bytes, T
  <2> QED BY <1>4, <1>5, <1>6, <1>7, TwoParts
<1> HIDE DEF n, m, bytes, T, w, u, v
<1>9. /\ go \in Seq(Seq(Byte)) /\ Len(go) = m + 2
      /\ \A j \in 1..m : go[j] = coming[j]
      /\ go[m + 1] = u /\ go[m + 2] = v
  <2>1. pair \in Seq(Seq(Byte)) /\ Len(pair) = 2 /\ pair[1] = u /\ pair[2] = v BY <1>8
  <2>2. coming \in Seq(Seq(Byte)) BY DEF BytesInv
  <2> HIDE DEF pair
  <2>3. /\ go \in Seq(Seq(Byte)) /\ Len(go) = Len(coming) + Len(pair)
        /\ \A j \in 1..Len(coming) : go[j] = coming[j]
        /\ \A j \in 1..Len(pair) : go[Len(coming) + j] = pair[j]
    <3>1. pair \in Seq(Seq(Byte)) BY <2>1
    <3> QED BY <2>2, <3>1, Joined
  <2> HIDE DEF go
  <2> QED BY <2>1, <2>3 DEF m
<1>10. /\ b \in [Nat -> Nat] /\ b[m] = Len(S)
       /\ \A j \in 0..m : b[j] <= Len(S) /\ Cut(at, written, b[j])
       /\ \A j \in 1..m : b[j] = b[j - 1] + Len(coming[j]) /\ At(coming[j], S, b[j - 1])
  BY DEF Stream, Records, m
<1>11. /\ c \in [Nat -> Nat]
       /\ \A j \in 0..m : c[j] = b[j]
       /\ c[m + 1] = Len(S) + e /\ c[m + 2] = Len(T)
  <2>1. Len(S) + e \in Nat /\ Len(T) \in Nat BY <1>4, <1>5, <1>6
  <2>2. c \in [Nat -> Nat] BY <1>10, <2>1
  <2>3. \A j \in 0..m : j \in Nat /\ j <= m BY <1>2
  <2>4. \A j \in 0..m : c[j] = b[j] BY <2>3
  <2>5. m + 1 \in Nat /\ ~(m + 1 <= m) /\ m + 2 \in Nat /\ ~(m + 2 <= m) /\ m + 2 # m + 1 BY <1>2
  <2>6. c[m + 1] = Len(S) + e BY <2>5
  <2>7. c[m + 2] = Len(T) BY <2>5
  <2> QED BY <2>2, <2>4, <2>6, <2>7
<1>12. /\ \A k \in 0..n : more[k] = at[k]
       /\ more[n + 1] = Len(T)
  <2>1. \A k \in 0..n : k \in Nat /\ k <= n BY <1>2
  <2>2. n + 1 \in Nat /\ ~(n + 1 <= n) BY <1>2
  <2>3. \A k \in 0..n : more[k] = at[k] BY <2>1
  <2>4. more[n + 1] = Len(T) BY <2>2
  <2> QED BY <2>3, <2>4
<1> HIDE DEF c, more, go, pair
<1>13. ASSUME NEW x \in Nat, Cut(at, written, x), x <= Len(S)
       PROVE  Cut(more, w, x)
  <2> SUFFICES ASSUME NEW k \in 1..Len(w), more[k - 1] + Front(w[k]) < x PROVE more[k] <= x
    BY DEF Cut
  <2>1. CASE k \in 1..n
    <3>1. k \in 0..n /\ k - 1 \in 0..n BY <1>2, <2>1
    <3>2. more[k] = at[k] /\ more[k - 1] = at[k - 1] /\ w[k] = written[k] BY <1>2, <1>12, <2>1, <3>1
    <3>3. at[k - 1] + Front(written[k]) < x => at[k] <= x BY <1>13, <2>1 DEF Cut, n
    <3> QED BY <3>2, <3>3
  <2>2. CASE k = n + 1
    <3>1. k - 1 = n /\ n \in 0..n BY <1>2, <2>2
    <3>2. more[k - 1] = Len(S) /\ w[k] = p BY <1>2, <1>5, <1>12, <2>2, <3>1
    <3>3. Len(S) + Front(p) < x BY <3>2
    <3>4. FALSE
      <4> DEFINE f == Front(p)
                 y == Len(S)
      <4>1. f \in 2..5 /\ y \in Nat /\ y + f < x /\ x <= y BY <1>4, <1>5, <1>13, <3>3
      <4> HIDE DEF f, y
      <4> QED BY <4>1
    <3> QED BY <3>4
  <2> QED BY <1>2, <2>1, <2>2
<1>14. ASSUME NEW x \in Nat, Len(S) <= x, x <= Len(S) + Front(p) \/ x = Len(T)
       PROVE  Cut(more, w, x)
  <2> SUFFICES ASSUME NEW k \in 1..Len(w), more[k - 1] + Front(w[k]) < x PROVE more[k] <= x
    BY DEF Cut
  <2>1. CASE k \in 1..n
    <3>1. k \in 0..n BY <1>2, <2>1
    <3>2. more[k] = at[k] /\ at[k] \in Nat /\ at[k] <= Len(S) BY <1>6, <1>12, <3>1
    <3> DEFINE y == Len(S)
               z == more[k]
    <3>3. z \in Nat /\ y \in Nat /\ z <= y /\ y <= x BY <1>5, <1>14, <3>2
    <3> HIDE DEF y, z
    <3>4. z <= x BY <3>3
    <3> QED BY <3>4 DEF z
  <2>2. CASE k = n + 1
    <3>1. k - 1 = n /\ n \in 0..n BY <1>2, <2>2
    <3>2. more[k - 1] = Len(S) /\ w[k] = p /\ more[k] = Len(T) BY <1>2, <1>5, <1>12, <2>2, <3>1
    <3>3. Len(S) + Front(p) < x BY <3>2
    <3>4. x = Len(T)
      <4> DEFINE f == Front(p)
                 y == Len(S)
      <4>1. f \in 2..5 /\ y \in Nat /\ y + f < x /\ (x <= y + f \/ x = Len(T)) BY <1>4, <1>5, <1>14, <3>3
      <4> HIDE DEF f, y
      <4> QED BY <4>1
    <3> QED BY <3>2, <3>4
  <2> QED BY <1>2, <2>1, <2>2
<1>15. Records(T, more, w, c, go)
  <2>1. c[Len(go)] = Len(T) BY <1>9, <1>11
  <2>2. \A j \in 0..Len(go) : c[j] <= Len(T) /\ Cut(more, w, c[j])
    <3> TAKE j \in 0..Len(go)
    <3>1. CASE j \in 0..m
      <4>1. c[j] = b[j] /\ b[j] \in Nat /\ b[j] <= Len(S) /\ Cut(at, written, b[j])
        <5>1. j \in Nat BY <1>2, <3>1
        <5> QED BY <1>10, <1>11, <3>1, <5>1
      <4>2. c[j] <= Len(T) BY <1>4, <1>5, <1>6, <4>1
      <4> QED BY <1>13, <4>1, <4>2
    <3>2. CASE j = m + 1
      <4>1. c[j] = Len(S) + e BY <1>11, <3>2
      <4>2. Len(S) + e \in Nat /\ Len(S) <= Len(S) + e BY <1>4, <1>5
      <4>3. Len(S) + e <= Len(S) + Front(p)
        <5> DEFINE f == Front(p)
                   y == Len(S)
        <5>1. f \in 2..5 /\ y \in Nat /\ e \in 0..f BY <1>4, <1>5
        <5> HIDE DEF f, y
        <5>2. y + e <= y + f BY <5>1
        <5> QED BY <5>2 DEF f, y
      <4>4. Cut(more, w, Len(S) + e) BY <1>14, <4>2, <4>3
      <4>5. Len(S) + e <= Len(T) BY <1>4, <1>5, <1>6
      <4> QED BY <4>1, <4>4, <4>5
    <3>3. CASE j = m + 2
      <4>1. c[j] = Len(T) BY <1>11, <3>3
      <4>2. Len(T) \in Nat /\ Len(S) <= Len(T) BY <1>4, <1>5, <1>6
      <4>3. Cut(more, w, Len(T)) BY <1>14, <4>2
      <4> QED BY <4>1, <4>2, <4>3
    <3>4. j \in 0..m \/ j = m + 1 \/ j = m + 2
      <4>1. Len(go) = m + 2 /\ m \in Nat BY <1>2, <1>9
      <4> HIDE DEF go, m
      <4> QED BY <4>1
    <3> QED BY <3>1, <3>2, <3>3, <3>4
  <2>3. \A j \in 1..Len(go) : c[j] = c[j - 1] + Len(go[j]) /\ At(go[j], T, c[j - 1])
    <3> TAKE j \in 1..Len(go)
    <3>1. CASE j \in 1..m
      <4>1. j \in 0..m /\ j - 1 \in 0..m /\ j - 1 \in Nat /\ j \in Nat BY <1>2, <3>1
      <4>2. c[j] = b[j] /\ c[j - 1] = b[j - 1] /\ go[j] = coming[j] BY <1>9, <1>11, <3>1, <4>1
      <4> DEFINE t == coming[j]
                 x == b[j - 1]
      <4>3. b[j] = x + Len(t) /\ At(t, S, x) /\ b[j] <= Len(S) /\ x \in Nat BY <1>10, <3>1, <4>1
      <4>4. t \in Seq(Byte) BY <3>1 DEF BytesInv, m
      <4> HIDE DEF t, x
      <4>5. At(t, T, x) BY <1>4, <1>5, <4>3, <4>4, AtLonger DEF T
      <4> QED BY <4>2, <4>3, <4>5 DEF t, x
    <3>2. CASE j = m + 1
      <4>1. j - 1 = m /\ m \in 0..m BY <1>2, <3>2
      <4>2. c[j - 1] = Len(S) /\ c[j] = Len(S) + e /\ go[j] = u BY <1>9, <1>10, <1>11, <3>2, <4>1
      <4> QED BY <1>8, <4>2
    <3>3. CASE j = m + 2
      <4>1. j - 1 = m + 1 BY <1>2, <3>3
      <4>2. c[j - 1] = Len(S) + e /\ c[j] = Len(T) /\ go[j] = v BY <1>9, <1>11, <3>3, <4>1
      <4>3. Len(T) = (Len(S) + e) + Len(v) BY <1>4, <1>5, <1>6, <1>8
      <4> QED BY <1>8, <4>2, <4>3
    <3>4. j \in 1..m \/ j = m + 1 \/ j = m + 2
      <4>1. Len(go) = m + 2 /\ m \in Nat BY <1>2, <1>9
      <4> HIDE DEF go, m
      <4> QED BY <4>1
    <3> QED BY <3>1, <3>2, <3>3, <3>4
  <2> QED BY <1>11, <2>1, <2>2, <2>3 DEF Records
<1>16. Unread(T, more, w, c, r, rxBuf, Bytes)
  <2>1. r \in Nat /\ r \in 0..Len(w) /\ r # Len(w) BY <1>2, <1>5
  <2>2. more[r] = at[r] /\ at[r] \in Nat BY <1>5, <1>6, <1>12
  <2>3. c[0] = b[0] /\ b[0] <= Len(S)
    <3>1. 0 \in 0..m BY <1>2
    <3> QED BY <1>10, <1>11, <3>1
  <2>4. At(Bytes, T, at[r])
    <3>1. Bytes \in Seq(Byte) BY Arrived
    <3>2. at[r] + Len(Bytes) <= Len(S) BY <1>5, <2>3
    <3> QED BY <1>4, <1>5, <2>2, <3>1, <3>2, AtLonger DEF T
  <2>5. Len(rxBuf) <= Front(w[r + 1])
    <3>1. CASE r < n
      <4>1. r + 1 \in 1..n BY <1>2, <2>1, <3>1
      <4> QED BY <1>2, <1>5, <3>1, <4>1
    <3>2. CASE r = n
      <4>1. Len(rxBuf) = 0 BY <1>5, <3>2
      <4>2. w[r + 1] = p BY <1>2, <3>2
      <4> QED BY <1>4, <4>1, <4>2
    <3> QED BY <1>2, <1>5, <3>1, <3>2
  <2> QED BY <1>5, <2>1, <2>2, <2>3, <2>4, <2>5 DEF Unread
<1>17. Len(read') = Fitting(r)'
  <2>1. r \in Nat /\ \A j \in 1..r : j \in 1..n BY <1>2, <1>5
  <2>2. \A j \in 1..r : written'[j] = written[j] BY <1>1a, <1>2, <2>1 DEF w
  <2>3. Fitting(r)' = Fitting(r) BY <2>1, <2>2, FittingMore
  <2> QED BY <1>1a, <2>3 DEF Stream
<1>18. written' = w /\ coming' = go /\ rxBuf' = rxBuf /\ Bytes' = Bytes
  BY <1>1a DEF w, go, pair, u, v, bytes, Bytes
<1>19. PICK T1, more1, c1 :
         /\ Laid(T1, more1, w) /\ Records(T1, more1, w, c1, go)
         /\ Unread(T1, more1, w, c1, r, rxBuf, Bytes)
  BY <1>6, <1>15, <1>16
<1>20. Laid(T1, more1, written)' BY <1>18, <1>19 DEF Laid
<1>21. Records(T1, more1, written, c1, coming)' BY <1>18, <1>19 DEF Records, Cut
<1>22. Unread(T1, more1, written, c1, r, rxBuf, Bytes)' BY <1>18, <1>19 DEF Unread
<1>23. Stream(T1, more1, c1, r)' BY <1>17, <1>20, <1>21, <1>22 DEF Stream
<1> QED BY <1>23

-----------------------------------------------------------------------------
(* However the records end.                                                *)

\* The length that is found ends within the bytes, and within five.
LEMMA LengthBounds ==
  ASSUME NEW s \in Seq(Byte)
  PROVE  /\ LengthEnd(s, 2) \in 0..5 /\ LengthEnd(s, 2) <= Len(s)
         /\ ReadLength(s, 2, LengthEnd(s, 2)) \in Nat
<1> DEFINE last == {k \in 1..MaxBytes : 2 + k - 1 <= Len(s) /\ s[2 + k - 1] < Radix}
           first(L) == CHOOSE k \in L : \A j \in L : k <= j
           end == LengthEnd(s, 2)
<1>1. Len(s) \in Nat OBVIOUS
<1>2. end = IF last = {} THEN 0 ELSE 2 - 1 + first(last) BY DEF LengthEnd
<1>3. last \in SUBSET (1..4) /\ \A k \in last : 1 + k <= Len(s) BY <1>1 DEF MaxBytes
<1> HIDE DEF last, end
<1>4. last # {} => first(last) \in last
  <2> SUFFICES ASSUME last # {} PROVE \E k \in last : \A j \in last : k <= j OBVIOUS
  <2>1. CASE 1 \in last BY <1>3, <2>1
  <2>2. CASE 1 \notin last /\ 2 \in last BY <1>3, <2>2
  <2>3. CASE 1 \notin last /\ 2 \notin last /\ 3 \in last BY <1>3, <2>3
  <2>4. CASE 1 \notin last /\ 2 \notin last /\ 3 \notin last
    <3>1. \A k \in last : k = 4 BY <1>3, <2>4
    <3> QED BY <3>1
  <2> QED BY <2>1, <2>2, <2>3, <2>4
<1> HIDE DEF first
<1>5. end \in 0..5 /\ end <= Len(s)
  <2>1. CASE last = {} BY <1>1, <1>2, <2>1
  <2>2. CASE last # {}
    <3> DEFINE k == first(last)
    <3>1. k \in last BY <1>4, <2>2
    <3>2. end = 2 - 1 + k BY <1>2, <2>2
    <3> HIDE DEF k
    <3>3. k \in 1..4 /\ 1 + k <= Len(s) BY <1>3, <3>1
    <3> QED BY <1>1, <3>2, <3>3
  <2> QED BY <2>1, <2>2
<1>6. \A k \in 1..4 : Digit(s, 2, end, k) \in Nat
  <2> TAKE k \in 1..4
  <2>1. CASE 2 + k - 1 <= end
    <3> DEFINE x == s[2 + k - 1]
               y == Power[k]
    <3>1. 2 + k - 1 \in 1..Len(s) BY <1>1, <1>5, <2>1
    <3>2. x \in 0..255 BY <3>1, ElementOfSeq DEF Byte
    <3>3. y \in Nat BY DEF Power
    <3>4. Digit(s, 2, end, k) = (x % 128) * y BY <2>1 DEF Digit, Radix
    <3> HIDE DEF x, y
    <3>5. x % 128 \in Nat BY <3>2
    <3>6. (x % 128) * y \in Nat
      <4> DEFINE z == x % 128
      <4> HIDE DEF z
      <4>1. z \in Nat BY <3>5 DEF z
      <4>2. z * y \in Nat BY <3>3, <4>1
      <4> QED BY <4>2 DEF z
    <3> QED BY <3>4, <3>6
  <2>2. CASE ~(2 + k - 1 <= end) BY <2>2 DEF Digit
  <2> QED BY <2>1, <2>2
<1>7. ReadLength(s, 2, end) \in Nat
  <2> DEFINE d(k) == Digit(s, 2, end, k)
  <2>1. d(1) \in Nat /\ d(2) \in Nat /\ d(3) \in Nat /\ d(4) \in Nat BY <1>6
  <2>2. ReadLength(s, 2, end) = d(1) + d(2) + d(3) + d(4) BY DEF ReadLength
  <2> HIDE DEF d
  <2> QED BY <2>1, <2>2
<1> QED BY <1>5, <1>7 DEF end

\* An acknowledgement has four bytes whatever it acknowledges.
LEMMA AckLength ==
  ASSUME NEW x
  PROVE  Len(Serialize([type |-> "PUBACK", id |-> x])) = 4
<1> DEFINE p == [type |-> "PUBACK", id |-> x]
<1>1. p.type = "PUBACK" /\ p.id = x OBVIOUS
<1>2. Rest(p) = Word(x) BY <1>1 DEF Rest, AckRest
<1> DEFINE a == <<Header(p)>>
           d == WriteLength(2)
           e == Word(x)
<1>3. Len(a) = 1 /\ a \in Seq({Header(p)}) OBVIOUS
<1>4. d \in Seq(Byte) /\ Len(d) = 1
  <2>1. LengthSize(2) = 1 BY DEF LengthSize
  <2> QED BY <2>1, DigitSequence
<1>5. Len(e) = 2 /\ e \in Seq({x \div 256, x % 256}) BY DEF Word
<1>6. Serialize(p) = a \o d \o e BY <1>2, <1>5 DEF Serialize
<1> DEFINE U == {Header(p)} \cup Byte \cup {x \div 256, x % 256}
<1>7. a \in Seq(U) /\ d \in Seq(U) /\ e \in Seq(U)
  <2>1. \A A, B, t : A \subseteq B /\ t \in Seq(A) => t \in Seq(B) OBVIOUS
  <2>2. {Header(p)} \subseteq U /\ Byte \subseteq U /\ {x \div 256, x % 256} \subseteq U OBVIOUS
  <2> HIDE DEF U, a, d, e
  <2> QED BY <1>3, <1>4, <1>5, <2>1, <2>2
<1> HIDE DEF U, a, d, e
<1>8. a \o d \in Seq(U) /\ Len(a \o d) = Len(a) + Len(d)
  <2>1. a \in Seq(U) /\ d \in Seq(U) BY <1>7
  <2> QED BY <2>1, Joined
<1> DEFINE f == a \o d
<1>9. Len(f \o e) = Len(f) + Len(e)
  <2>1. f \in Seq(U) /\ e \in Seq(U) BY <1>7, <1>8
  <2> HIDE DEF f
  <2> QED BY <2>1, Joined
<1>10. Len(Serialize(p)) = Len(a) + Len(d) + Len(e) BY <1>6, <1>8, <1>9
<1> HIDE DEF p
<1>11. Len(Serialize(p)) = 4 BY <1>3, <1>4, <1>5, <1>10
<1> QED BY <1>11 DEF p

\* Every byte read over the buffer is one of those that were read.
LEMMA OverwrittenIsByte ==
  ASSUME NEW i, NEW d \in Seq(Byte), Bytes[i] \in Byte
  PROVE  OverwrittenByte(i, d) \in Byte
<1> DEFINE over == {j \in DOMAIN d : (j - 1) % RxSize = i - 1}
<1>1. over = {} => OverwrittenByte(i, d) = Bytes[i] BY DEF OverwrittenByte
<1>2. over # {} => OverwrittenByte(i, d) = d[CHOOSE j \in over : \A k \in over : k <= j]
  BY DEF OverwrittenByte
<1>3. over \in SUBSET (1..Len(d)) /\ Len(d) \in Nat OBVIOUS
<1> HIDE DEF over
<1>4. over # {} => \E j \in over : \A k \in over : k <= j
  <2> SUFFICES ASSUME over # {} PROVE \E j \in over : \A k \in over : k <= j OBVIOUS
  <2> DEFINE below == {Len(d) - j : j \in over}
  <2>1. below \subseteq Nat /\ below # {}
    <3>1. \A j \in over : Len(d) - j \in Nat BY <1>3
    <3> QED BY <3>1
  <2> HIDE DEF below
  <2>2. PICK x \in below : \A y \in below : x <= y BY <2>1, LeastElement
  <2>3. PICK j \in over : x = Len(d) - j BY <2>2 DEF below
  <2>4. \A k \in over : Len(d) - j <= Len(d) - k BY <2>2, <2>3 DEF below
  <2> QED BY <1>3, <2>3, <2>4
<1>5. over # {} => (CHOOSE j \in over : \A k \in over : k <= j) \in over BY <1>4
<1> DEFINE top == CHOOSE j \in over : \A k \in over : k <= j
<1> HIDE DEF top
<1>6. over # {} => d[top] \in Byte
  <2> SUFFICES ASSUME over # {} PROVE d[top] \in Byte OBVIOUS
  <2>1. top \in 1..Len(d) BY <1>3, <1>5 DEF top
  <2> QED BY <2>1, ElementOfSeq
<1> QED BY <1>1, <1>2, <1>6 DEF top

\* A packet that passes the check before it is written fits the buffer.
LEMMA CheckedFits ==
  ASSUME NEW p \in AnyPacket, FitsTx(p)
  PROVE  Len(Serialize(p)) <= TxSize
<1> DEFINE n == Len(Rest(p))
           l == Len(Serialize(p))
           m == Len(WriteLength(n))
<1>1. n \in Nat /\ l = Front(p) + n BY SerialBytes
<1>2. m = LengthSize(n) /\ m \in 1..4 /\ Front(p) = 1 + LengthSize(n)
  BY <1>1, DigitSequence DEF Front
<1>3. FinalLength(n) <= TxSize BY DEF FitsTx
<1>4. 1 + m + n <= FinalLength(n) BY <1>1, EstimateCovers
<1>5. TxSize \in Nat BY WireAssumption
<1>6. FinalLength(n) \in Nat BY <1>1 DEF FinalLength, LengthSize
<1> HIDE DEF n, l, m
<1>7. l <= TxSize BY <1>1, <1>2, <1>3, <1>4, <1>5, <1>6
<1> QED BY <1>7 DEF l

\* Every buffer is empty when the program starts.
LEMMA BytesInit ==
  ASSUME WInit PROVE BytesInv
BY WireAssumption DEF WInit, BytesInv

\* What is read leaves bytes, and at most five of them in the buffer.
LEMMA ReadingBytes ==
  ASSUME BytesInv
  PROVE  /\ Bytes \in Seq(Byte) /\ LenEnd \in Nat /\ Rem \in Nat /\ LenEnd + Rem \in Nat
         /\ InBuf \in Nat /\ InBuf <= 5 /\ InBuf <= Len(Bytes)
         /\ \A k \in Nat : First(k) \in Seq(Byte) /\ Beyond(k) \in Seq(Byte) /\ Len(First(k)) <= k
<1>1. /\ Bytes \in Seq(Byte) /\ Len(Bytes) = Len(rxBuf) + Len(arrived)
      /\ Len(Bytes) \in Nat /\ Len(rxBuf) \in Nat /\ Len(arrived) \in Nat
  BY Arrived
<1>2. LenEnd \in 0..5 /\ LenEnd <= Len(Bytes) /\ Rem \in Nat
  BY <1>1, LengthBounds DEF LenEnd, Rem
<1>3. Len(rxBuf) <= 5 BY DEF BytesInv
<1>4. InBuf \in Nat /\ InBuf <= 5 /\ InBuf <= Len(Bytes) /\ LenEnd \in Nat /\ LenEnd + Rem \in Nat
  <2> DEFINE x == LenEnd
             y == Len(rxBuf)
             z == Len(Bytes)
             w == Rem
  <2>1. x \in 0..5 /\ x <= z /\ y \in Nat /\ y <= 5 /\ z = y + Len(arrived) /\ w \in Nat
    BY <1>1, <1>2, <1>3
  <2>2. InBuf = IF y > x THEN y ELSE x BY DEF InBuf
  <2> HIDE DEF x, y, z, w
  <2>3. x \in Nat /\ x + w \in Nat /\ y <= z BY <1>1, <2>1
  <2>4. InBuf \in Nat /\ InBuf <= 5 /\ InBuf <= z BY <2>1, <2>2, <2>3
  <2> QED BY <2>3, <2>4 DEF x, w, z
<1>5. ASSUME NEW k \in Nat
      PROVE  First(k) \in Seq(Byte) /\ Beyond(k) \in Seq(Byte) /\ Len(First(k)) <= k
  BY <1>1, CutInTwo DEF First, Beyond
<1> QED BY <1>1, <1>2, <1>4, <1>5

\* No step of client, broker or network breaks BytesInv.
LEMMA BytesStep ==
  ASSUME BytesInv, [WNext]_wvars
  PROVE  BytesInv'
<1>0. /\ coming \in Seq(Seq(Byte)) /\ arrived \in Seq(Byte) /\ rxBuf \in Seq(Byte)
      /\ Len(rxBuf) <= 5 /\ Len(txBuf) <= TxSize
  BY DEF BytesInv
<1>1. CASE SendOutgoing
  <2>1. coming' = coming /\ arrived' = arrived /\ rxBuf' = rxBuf
    BY <1>1 DEF SendOutgoing, inbound
  <2>2. PICK p \in Outgoing : IF FitsTx(p) THEN Transmit(p)
                              ELSE status' = "too short" /\ UNCHANGED <<txBuf, sent>>
    BY <1>1 DEF SendOutgoing
  <2>3. p \in AnyPacket BY WireAssumption DEF AnyPacket
  <2>4. CASE FitsTx(p)
    <3>1. txBuf' = Serialize(p) BY <2>2, <2>4 DEF Transmit
    <3> QED BY <1>0, <2>1, <2>3, <2>4, <3>1, CheckedFits DEF BytesInv
  <2>5. CASE ~FitsTx(p) BY <1>0, <2>1, <2>2, <2>5 DEF BytesInv
  <2> QED BY <2>4, <2>5
<1>2. CASE BrokerSends
  <2>1. arrived' = arrived /\ rxBuf' = rxBuf /\ txBuf' = txBuf
    BY <1>2 DEF BrokerSends, outbound
  <2>2. PICK p \in Incoming :
          \E e \in 0..Len(Serialize(p)) - 1 :
            coming' = coming \o <<SubSeq(Serialize(p), 1, e),
                                  SubSeq(Serialize(p), e + 1, Len(Serialize(p)))>>
    BY <1>2 DEF BrokerSends
  <2>3. PICK e \in 0..Len(Serialize(p)) - 1 :
            coming' = coming \o <<SubSeq(Serialize(p), 1, e),
                                  SubSeq(Serialize(p), e + 1, Len(Serialize(p)))>>
    BY <2>2
  <2> DEFINE s == Serialize(p)
             u == SubSeq(s, 1, e)
             v == SubSeq(s, e + 1, Len(s))
             m == IF e < Len(s) THEN e ELSE Len(s)
  <2>4. p \in AnyPacket BY WireAssumption DEF AnyPacket
  <2>5. /\ s \in Seq(Byte) /\ Len(s) = Front(p) + Len(Rest(p))
        /\ Front(p) \in 2..5 /\ Len(Rest(p)) \in Nat /\ LengthOf(s) = Front(p)
    BY <2>4, SerialBytes, LengthOfSerial DEF LengthOf
  <2> HIDE DEF s
  <2>6. e \in Nat /\ m = e
    <3>1. e \in 0..Len(s) - 1 BY DEF s
    <3> QED BY <2>5, <3>1
  <2>7. u \in Seq(Byte) /\ v \in Seq(Byte)
    <3>1. SubSeq(s, 1, m) \in Seq(Byte) /\ v \in Seq(Byte) BY <2>5, <2>6, CutInTwo
    <3> HIDE DEF m
    <3> QED BY <2>6, <3>1
  <2>8. coming' = coming \o <<u, v>> BY <2>3 DEF s
  <2> HIDE DEF u, v
  <2>9. <<u, v>> \in Seq(Seq(Byte)) BY <2>7
  <2>10. coming \o <<u, v>> \in Seq(Seq(Byte)) BY <1>0, <2>9
  <2> QED BY <1>0, <2>1, <2>8, <2>10 DEF BytesInv
<1>3. CASE RecordArrives
  <2>1. /\ coming # <<>> /\ coming' = Tail(coming) /\ arrived' = arrived \o Head(coming)
        /\ rxBuf' = rxBuf /\ txBuf' = txBuf
    BY <1>3 DEF RecordArrives, outbound
  <2>2. Tail(coming) \in Seq(Seq(Byte)) /\ Head(coming) \in Seq(Byte) BY <1>0, <2>1
  <2>3. arrived \o Head(coming) \in Seq(Byte) BY <1>0, <2>2, Joined
  <2> QED BY <1>0, <2>1, <2>2, <2>3 DEF BytesInv
<1>4. CASE NewSession
  BY <1>0, <1>4 DEF NewSession, outbound, BytesInv
<1>5. CASE ReadShort
  <2>1. rxBuf' = First(5) /\ arrived' = Beyond(5) /\ coming' = coming /\ txBuf' = txBuf
    BY <1>5 DEF ReadShort, MaxBytes, outbound
  <2> QED BY <1>0, <2>1, ReadingBytes DEF BytesInv
<1>6. CASE ReadPacket
  <2> DEFINE end == LenEnd + Rem
             past == IF end < Len(rxBuf) THEN Len(rxBuf) ELSE end
             packet == Deserialize(First(end))
  <2>1. /\ rxBuf' = <<>> /\ arrived' = Beyond(past) /\ coming' = coming
        /\ IF packet.type = "PUBLISH" /\ packet.qos > 0
           THEN Transmit([type |-> "PUBACK", id |-> packet.id])
           ELSE UNCHANGED outbound
    BY <1>6 DEF ReadPacket
  <2>2. past \in Nat
    <3>1. end \in Nat BY ReadingBytes, Zenon
    <3>2. Len(rxBuf) \in Nat BY <1>0
    <3> QED BY <3>1, <3>2
  <2>3. Len(txBuf') <= TxSize
    <3>1. txBuf' = txBuf \/ txBuf' = Serialize([type |-> "PUBACK", id |-> packet.id])
      BY <2>1 DEF Transmit, outbound
    <3>2. Len(Serialize([type |-> "PUBACK", id |-> packet.id])) = 4 BY AckLength
    <3>3. TxSize \in Nat /\ TxSize > 4 BY WireAssumption
    <3> HIDE DEF packet
    <3>4. CASE txBuf' = txBuf BY <1>0, <3>4
    <3>5. CASE txBuf' = Serialize([type |-> "PUBACK", id |-> packet.id]) BY <3>2, <3>3, <3>5
    <3> QED BY <3>1, <3>4, <3>5
  <2> HIDE DEF past
  <2>4. arrived' \in Seq(Byte) BY <2>1, <2>2, ReadingBytes
  <2>5. rxBuf' \in Seq(Byte) /\ Len(rxBuf') <= 5 BY <2>1
  <2> QED BY <1>0, <2>1, <2>3, <2>4, <2>5 DEF BytesInv
<1>7. CASE ReadTorn
  <2>1. rxBuf' = First(InBuf) /\ arrived' = <<>> /\ coming' = coming /\ txBuf' = txBuf
    BY <1>7 DEF ReadTorn, outbound
  <2>2. InBuf \in Nat /\ InBuf <= 5 BY ReadingBytes, Zenon
  <2>3. First(InBuf) \in Seq(Byte) /\ Len(First(InBuf)) <= InBuf BY <2>2, ReadingBytes
  <2>4. Len(First(InBuf)) \in Nat BY <2>3
  <2>5. Len(First(InBuf)) <= 5 BY <2>2, <2>3, <2>4
  <2> QED BY <1>0, <2>1, <2>3, <2>5 DEF BytesInv
<1>8. CASE DropPacket
  <2> DEFINE need == InBuf + IF Rem < RxSize THEN RxSize ELSE Rem
             data == SubSeq(First(need), InBuf + 1, Len(First(need)))
             over == [i \in 1..InBuf |-> OverwrittenByte(i, data)]
  <2>1. /\ arrived' = Beyond(need) /\ coming' = coming /\ txBuf' = txBuf
        /\ rxBuf' = IF Rem >= RxSize /\ Len(data) = Rem THEN <<>> ELSE over
    BY <1>8 DEF DropPacket, outbound
  <2>2. /\ InBuf \in Nat /\ InBuf <= 5 /\ InBuf <= Len(Bytes) /\ Rem \in Nat
        /\ Bytes \in Seq(Byte)
    BY ReadingBytes, Zenon
  <2>3. need \in Nat
    <3>1. RxSize \in Nat BY WireAssumption
    <3> QED BY <2>2, <3>1
  <2> HIDE DEF need
  <2>4. data \in Seq(Byte)
    <3> DEFINE t == First(need)
    <3>1. t \in Seq(Byte) BY <2>3, ReadingBytes
    <3> HIDE DEF t
    <3>2. SubSeq(t, InBuf + 1, Len(t)) \in Seq(Byte) BY <2>2, <3>1, CutInTwo
    <3> QED BY <3>2 DEF t
  <2> HIDE DEF data
  <2>5. \A i \in 1..InBuf : OverwrittenByte(i, data) \in Byte
    <3> TAKE i \in 1..InBuf
    <3>1. i \in 1..Len(Bytes) BY <2>2
    <3>2. Bytes[i] \in Byte BY <2>2, <3>1, ElementOfSeq
    <3> QED BY <2>4, <3>2, OverwrittenIsByte
  <2>6. over \in Seq(Byte) /\ Len(over) = InBuf BY <2>2, <2>5
  <2> HIDE DEF over
  <2>7. rxBuf' \in Seq(Byte) /\ Len(rxBuf') <= 5
    <3>1. rxBuf' = <<>> \/ rxBuf' = over BY <2>1
    <3>2. CASE rxBuf' = <<>> BY <3>2
    <3>3. CASE rxBuf' = over BY <2>2, <2>6, <3>3
    <3> QED BY <3>1, <3>2, <3>3
  <2>8. arrived' \in Seq(Byte) BY <2>1, <2>3, ReadingBytes
  <2> QED BY <1>0, <2>1, <2>7, <2>8 DEF BytesInv
<1>9. CASE UNCHANGED wvars
  BY <1>0, <1>9 DEF wvars, inbound, outbound, BytesInv
<1> QED BY <1>1, <1>2, <1>3, <1>4, <1>5, <1>6, <1>7, <1>8, <1>9 DEF WNext

\* However the records end and whatever the bytes are, the serializers write no
\* more than the buffer holds, and between two calls the client keeps no more than
\* a header and a length.
THEOREM NeverOverrun == WSpec => []NoOverrun
<1>1. WInit => BytesInv BY BytesInit
<1>2. BytesInv /\ [WNext]_wvars => BytesInv' BY BytesStep
<1>3. BytesInv => NoOverrun
  <2> SUFFICES ASSUME BytesInv PROVE NoOverrun OBVIOUS
  <2>1. Len(rxBuf) \in Nat /\ Len(rxBuf) <= 5 /\ Len(txBuf) <= TxSize BY DEF BytesInv
  <2>2. RxSize \in Nat /\ RxSize > 4 BY WireAssumption
  <2> QED BY <2>1, <2>2 DEF NoOverrun
<1> QED BY <1>1, <1>2, <1>3, PTL DEF WSpec

-----------------------------------------------------------------------------
(* What is read and sent, out of step or not.                            *)

\* What is being sent is bytes, of which some were written.
Sending ==
  /\ txBuf \in Seq(Byte) /\ sent \in 0..Len(txBuf)
  /\ status \in {"none", "success", "too short"}

\* What holds whatever the bytes are that the client takes for packets.
TypeInv == BytesInv /\ Sending /\ written \in Seq(Incoming) /\ split \in BOOLEAN

\* A packet may be sent in part, or not at all.
LEMMA Transmitted ==
  ASSUME NEW p \in AnyPacket, Transmit(p)
  PROVE  Sending'
<1> DEFINE bytes == Serialize(p)
           l == Len(bytes)
<1>1. bytes \in Seq(Byte) /\ l \in Nat BY SerialBytes
<1>2. /\ txBuf' = bytes /\ status' \in {"success", "too short"}
      /\ sent' = 0 \/ sent' \in {0, l \div 2, l}
  BY DEF Transmit, WrittenOf
<1>3. sent' \in 0..l
  <2>1. sent' = 0 \/ sent' = l \div 2 \/ sent' = l BY <1>2
  <2> HIDE DEF bytes, l
  <2>2. l \div 2 \in 0..l /\ 0 \in 0..l /\ l \in 0..l BY <1>1
  <2> QED BY <2>1, <2>2, Zenon
<1> QED BY <1>1, <1>2, <1>3 DEF Sending

\* Two bytes make a word.
LEMMA WordRead ==
  ASSUME NEW s, NEW i, s[i] \in Byte, s[i + 1] \in Byte
  PROVE  ReadWord(s, i) \in Id /\ ReadWord(s, i) \in Nat
<1> DEFINE a == s[i]
           b == s[i + 1]
<1>1. a \in 0..255 /\ b \in 0..255 BY DEF Byte
<1>2. ReadWord(s, i) = 256 * a + b BY DEF ReadWord
<1> HIDE DEF a, b
<1>3. 256 * a + b \in Nat /\ 256 * a + b < 65536 BY <1>1
<1> QED BY <1>2, <1>3 DEF Id

\* Whatever bytes are taken for a publication, its identifier is a word.
LEMMA AnyIdentifier ==
  ASSUME NEW s \in Seq(Byte), NEW i \in Nat, i > 0,
         Publication(s, i).type = "PUBLISH", Publication(s, i).qos > 0
  PROVE  Publication(s, i).id \in Id
<1> DEFINE topic == String(SubSeq(s, i + 2, i + 1 + ReadWord(s, i)))
           after == i + Len(topic)
           qos == (s[1] \div 2) % 4
           id == IF qos > 0 /\ after < Len(s) THEN ReadWord(s, after) ELSE 0
           rest == [type |-> "PUBLISH", dup |-> (s[1] \div 8) % 2, qos |-> qos, retained |-> s[1] % 2,
                    topic |-> SubSeq(topic, 3, Len(topic)), id |-> id,
                    payload |-> SubSeq(s, IF qos > 0 THEN after + 2 ELSE after, Len(s))]
<1> DEFINE short == Len(s) + 1 - i < 2 \/ ReadWord(s, i) + 2 > Len(s) + 1 - i
<1>1. Publication(s, i) = IF short THEN Malformed ELSE rest BY DEF Publication
<1>2. ~short
  <2> HIDE DEF short, rest
  <2> QED BY <1>1 DEF Malformed
<1>3. Publication(s, i) = rest
  <2> HIDE DEF short, rest
  <2> QED BY <1>1, <1>2
<1>4. Publication(s, i).id = id BY <1>3
<1>5. id \in Id
  <2>1. CASE qos > 0 /\ after < Len(s)
    <3>1. Len(topic) \in Nat
      <4> DEFINE u == SubSeq(s, i + 2, i + 1 + ReadWord(s, i))
      <4>1. /\ Len(s) \in Nat /\ i + 1 <= Len(s) /\ i \in 1..Len(s) /\ i + 1 \in 1..Len(s)
        BY <1>2
      <4>2. s[i] \in Byte /\ s[i + 1] \in Byte BY <4>1, ElementOfSeq
      <4>3. ReadWord(s, i) \in Nat BY <4>2, WordRead
      <4> DEFINE m == i + 2
                 n == i + 1 + ReadWord(s, i)
      <4>4. m \in Int /\ n \in Int /\ n <= Len(s) /\ m > 0
        <5>1. ~(ReadWord(s, i) + 2 > Len(s) + 1 - i) BY <1>2
        <5> QED BY <4>1, <4>3, <5>1
      <4>5. \A j \in m..n : s[j] \in Byte
        <5> TAKE j \in m..n
        <5>1. j \in 1..Len(s) BY <4>1, <4>4
        <5> QED BY <5>1, ElementOfSeq
      <4>6. u \in Seq(Byte) BY <4>4, <4>5, SubSeqProperties
      <4> HIDE DEF u
      <4>7. Word(Len(u)) \o u = String(u) BY DEF String
      <4>8. Word(Len(u)) \in Seq(Byte)
        <5>1. ReadWord(s, i) \in Id BY <4>2, WordRead
        <5> DEFINE l == ReadWord(s, i)
                   x == Len(u)
        <5>2. x \in Nat BY <4>6, LenProperties
        <5>3. x = IF m <= n THEN n - m + 1 ELSE 0
          <6>1. Len(SubSeq(s, m, n)) = IF m <= n THEN n - m + 1 ELSE 0
            <7> HIDE DEF m, n
            <7> QED BY <4>4, <4>5, SubSeqProperties
          <6> QED BY <6>1 DEF u
        <5>4. l \in Nat /\ l < 65536 BY <4>3, <5>1 DEF Id
        <5>5. m = i + 2 /\ n = i + 1 + l OBVIOUS
        <5> HIDE DEF l, x, m, n
        <5>6. x = l \/ x = 0 BY <5>3, <5>4, <5>5
        <5>7. x \in Id BY <5>2, <5>4, <5>6 DEF Id
        <5> QED BY <5>7, WordBytes DEF x
      <4>9. Len(String(u)) \in Nat BY <4>6, <4>7, <4>8, ConcatProperties, LenProperties
      <4> QED BY <4>9 DEF u
    <3> HIDE DEF topic
    <3>2. after \in 1..Len(s) /\ after + 1 \in 1..Len(s) BY <2>1, <3>1
    <3> HIDE DEF after
    <3>3. s[after] \in Byte /\ s[after + 1] \in Byte BY <3>2, ElementOfSeq
    <3>4. ReadWord(s, after) \in Id BY <3>3, WordRead
    <3> QED BY <2>1, <3>4
  <2>2. CASE ~(qos > 0 /\ after < Len(s)) BY <2>2 DEF Id
  <2> QED BY <2>1, <2>2
<1> QED BY <1>4, <1>5

\* A publication that is acknowledged has an identifier.
LEMMA AcknowledgedIdentifier ==
  ASSUME NEW s \in Seq(Byte), Deserialize(s).type = "PUBLISH", Deserialize(s).qos > 0
  PROVE  [type |-> "PUBACK", id |-> Deserialize(s).id] \in AnyPacket
<1> DEFINE i == LengthEnd(s, 2) + 1
           t == TypeOf(s)
<1>1. i \in Nat /\ i > 0
  <2>1. LengthEnd(s, 2) \in 0..5 BY LengthBounds
  <2> QED BY <2>1
<1> HIDE DEF i, t
<1>2. Deserialize(s) = CASE t = "PUBLISH" -> Publication(s, i)
        [] t = "CONNACK" -> Connack(s, i)
        [] t = "SUBACK"  -> Suback(s, i)
        [] t \in {"PUBACK", "UNSUBACK"} -> Ack(s, i, t)
        [] t = "malformed" -> Malformed
        [] OTHER -> [type |-> t]
  BY DEF Deserialize, i, t
<1>3. t = "PUBLISH"
  <2> SUFFICES ASSUME t # "PUBLISH" PROVE Deserialize(s).type # "PUBLISH"
    OBVIOUS
  <2>1. CASE t = "CONNACK"
    <3>1. Deserialize(s) = Connack(s, i) BY <1>2, <2>1
    <3> QED BY <3>1 DEF Connack, Malformed
  <2>2. CASE t = "SUBACK"
    <3>1. Deserialize(s) = Suback(s, i) BY <1>2, <2>2
    <3> QED BY <3>1 DEF Suback, Malformed
  <2>3. CASE t \in {"PUBACK", "UNSUBACK"}
    <3>1. Deserialize(s) = Ack(s, i, t) BY <1>2, <2>3
    <3> QED BY <2>3, <3>1 DEF Ack, Malformed
  <2>4. CASE t = "malformed"
    <3>1. Deserialize(s) = Malformed BY <1>2, <2>4
    <3> QED BY <3>1 DEF Malformed
  <2>5. CASE t \notin {"PUBLISH", "CONNACK", "SUBACK", "PUBACK", "UNSUBACK", "malformed"}
    <3>1. Deserialize(s) = [type |-> t] BY <1>2, <2>5
    <3> QED BY <2>5, <3>1
  <2> QED BY <2>1, <2>2, <2>3, <2>4, <2>5
<1>4. Deserialize(s) = Publication(s, i) BY <1>2, <1>3
<1>5. Deserialize(s).id \in Id BY <1>1, <1>4, AnyIdentifier
<1> QED BY <1>5 DEF AnyPacket, FromClient

LEMMA TypeStep ==
  ASSUME TypeInv, [WNext]_wvars
  PROVE  TypeInv'
<1>1. BytesInv /\ Sending /\ written \in Seq(Incoming) /\ split \in BOOLEAN BY DEF TypeInv
<1>2. BytesInv' BY <1>1, BytesStep
<1>3. ASSUME UNCHANGED outbound PROVE Sending' BY <1>1, <1>3 DEF outbound, Sending
<1>4. CASE SendOutgoing
  <2>1. written' = written /\ split' = split BY <1>4 DEF SendOutgoing, inbound
  <2>2. PICK p \in Outgoing : IF FitsTx(p) THEN Transmit(p)
                              ELSE status' = "too short" /\ UNCHANGED <<txBuf, sent>>
    BY <1>4 DEF SendOutgoing
  <2>3. p \in AnyPacket BY WireAssumption DEF AnyPacket
  <2>4. Sending'
    <3>1. CASE FitsTx(p) BY <2>2, <2>3, <3>1, Transmitted
    <3>2. CASE ~FitsTx(p) BY <1>1, <2>2, <3>2 DEF Sending
    <3> QED BY <3>1, <3>2
  <2> QED BY <1>1, <1>2, <2>1, <2>4 DEF TypeInv
<1>5. CASE BrokerSends
  <2>1. UNCHANGED outbound BY <1>5 DEF BrokerSends
  <2>2. PICK p \in Incoming : written' = Append(written, p) BY <1>5 DEF BrokerSends
  <2>3. written' \in Seq(Incoming) BY <1>1, <2>2
  <2>4. split' \in BOOLEAN BY <1>5, Zenon DEF BrokerSends
  <2> QED BY <1>2, <1>3, <2>1, <2>3, <2>4 DEF TypeInv
<1>6. CASE RecordArrives
  <2>1. written' = written /\ split' = split /\ UNCHANGED outbound BY <1>6 DEF RecordArrives
  <2> QED BY <1>1, <1>2, <1>3, <2>1 DEF TypeInv
<1>7. CASE NewSession
  <2>1. written' = <<>> /\ split' = FALSE /\ UNCHANGED outbound BY <1>7 DEF NewSession
  <2>2. written' \in Seq(Incoming) BY <2>1
  <2>3. split' \in BOOLEAN BY <2>1, Zenon
  <2> QED BY <1>2, <1>3, <2>1, <2>2, <2>3 DEF TypeInv
<1>8. CASE ReadShort \/ ReadTorn \/ DropPacket
  <2>1. written' = written /\ split' = split /\ UNCHANGED outbound
    BY <1>8 DEF ReadShort, ReadTorn, DropPacket
  <2> QED BY <1>1, <1>2, <1>3, <2>1 DEF TypeInv
<1>9. CASE ReadPacket
  <2> DEFINE end == LenEnd + Rem
             packet == Deserialize(First(end))
  <2>1. /\ written' = written /\ split' = split
        /\ IF packet.type = "PUBLISH" /\ packet.qos > 0
           THEN Transmit([type |-> "PUBACK", id |-> packet.id])
           ELSE UNCHANGED outbound
    BY <1>9 DEF ReadPacket
  <2>2. First(end) \in Seq(Byte)
    <3>1. end \in Nat BY <1>1, ReadingBytes, Zenon
    <3> HIDE DEF end
    <3> QED BY <1>1, <3>1, ReadingBytes
  <2>3. Sending'
    <3>1. CASE packet.type = "PUBLISH" /\ packet.qos > 0
      <4>1. [type |-> "PUBACK", id |-> packet.id] \in AnyPacket
        BY <2>2, <3>1, AcknowledgedIdentifier
      <4> QED BY <2>1, <3>1, <4>1, Transmitted
    <3>2. CASE ~(packet.type = "PUBLISH" /\ packet.qos > 0) BY <1>3, <2>1, <3>2
    <3> QED BY <3>1, <3>2
  <2> QED BY <1>1, <1>2, <2>1, <2>3 DEF TypeInv
<1>10. CASE UNCHANGED wvars
  <2>1. written' = written /\ split' = split /\ UNCHANGED outbound
    BY <1>10 DEF wvars, inbound
  <2> QED BY <1>1, <1>2, <1>3, <2>1 DEF TypeInv
<1> QED BY <1>4, <1>5, <1>6, <1>7, <1>8, <1>9, <1>10 DEF WNext

LEMMA TypeInit ==
  ASSUME WInit PROVE TypeInv
<1>1. written = <<>> /\ split = FALSE /\ txBuf = <<>> /\ sent = 0 /\ status = "none"
  BY DEF WInit
<1>2. BytesInv BY BytesInit
<1>3. written \in Seq(Incoming) /\ txBuf \in Seq(Byte) /\ sent \in 0..Len(txBuf) BY <1>1
<1>4. split \in BOOLEAN BY <1>1, Zenon
<1> QED BY <1>1, <1>2, <1>3, <1>4 DEF TypeInv, Sending

\* Bytes stay bytes, acknowledgements have identifiers, and no buffer is overrun:
\* for every session, those in which the client is out of step with the broker
\* and takes for packets what are none included.
THEOREM BuffersAlwaysHold == WSpec => []BuffersHold
<1>1. TypeInv => BuffersHold
  <2> SUFFICES ASSUME TypeInv PROVE BuffersHold OBVIOUS
  <2>1. BytesInv /\ Sending /\ written \in Seq(Incoming) /\ split \in BOOLEAN BY DEF TypeInv
  <2>2. WTypeOK
    <3>1. \A i \in DOMAIN written : written[i] \in Incoming BY <2>1
    <3> QED BY <2>1, <3>1 DEF WTypeOK, BytesInv, Sending
  <2>3. NoOverrun
    <3>1. Len(rxBuf) \in Nat /\ Len(rxBuf) <= 5 /\ Len(txBuf) <= TxSize BY <2>1 DEF BytesInv
    <3>2. RxSize \in Nat /\ RxSize > 4 BY WireAssumption
    <3> QED BY <3>1, <3>2 DEF NoOverrun
  <2> QED BY <2>2, <2>3 DEF BuffersHold
<1>2. WInit => TypeInv BY TypeInit
<1>3. TypeInv /\ [WNext]_wvars => TypeInv' BY TypeStep
<1> QED BY <1>1, <1>2, <1>3, PTL DEF WSpec

-----------------------------------------------------------------------------
(* Packets that are read whole.                                          *)

\* A stream, of which the client is at the end of a packet, and what it has read.
WireInv ==
  /\ HistoryInv /\ InOrder
  /\ \E S, at, b, r : Stream(S, at, b, r)

\* Before a session there is an empty stream, of which everything is read.
LEMMA WireInit ==
  ASSUME WInit PROVE WireInv
<1>1. /\ coming = <<>> /\ arrived = <<>> /\ rxBuf = <<>> /\ written = <<>> /\ read = <<>>
  BY DEF WInit
<1>3. HistoryInv BY <1>1 DEF HistoryInv
<1>5. InOrder BY <1>1 DEF InOrder
<1> DEFINE z == [k \in Nat |-> 0]
<1>6. z \in [Nat -> Nat] /\ z[0] = 0 OBVIOUS
<1> HIDE DEF z
<1>7. <<>> \in Seq(Byte) /\ Len(<<>>) = 0 OBVIOUS
<1>8. Bytes = <<>> BY <1>1 DEF Bytes
<1>9. Laid(<<>>, z, written) BY <1>1, <1>6, <1>7 DEF Laid
<1>10. Records(<<>>, z, written, z, coming) BY <1>1, <1>6, <1>7 DEF Records, Cut
<1>11. Unread(<<>>, z, written, z, 0, rxBuf, Bytes) BY <1>1, <1>6, <1>7, <1>8 DEF Unread, At
<1>12. Len(read) = Fitting(0) BY <1>1, <1>7, FittingMore
<1>13. Stream(<<>>, z, z, 0) BY <1>9, <1>10, <1>11, <1>12 DEF Stream
<1> QED BY <1>3, <1>5, <1>13 DEF WireInv

\* Reading nothing new keeps the order, however much is written.
LEMMA InOrderKept ==
  ASSUME HistoryInv, InOrder, read' = read, Len(written') \in Nat, Len(written) <= Len(written'),
         DOMAIN written' = 1..Len(written'),
         \A k \in 1..Len(written) : written'[k] = written[k]
  PROVE  InOrder'
<1>1. /\ Len(written) \in Nat /\ DOMAIN written = 1..Len(written)
  BY DEF HistoryInv
<1>2. SUFFICES ASSUME NEW i \in DOMAIN read
               PROVE  \E k \in DOMAIN written' :
                         Fits(written'[k]) /\ Fitting(k)' = i /\ read[i] = written'[k]
  BY DEF InOrder, Fits
<1>3. PICK k \in DOMAIN written : Fits(written[k]) /\ Fitting(k) = i /\ read[i] = written[k]
  BY DEF InOrder
<1>4. k \in Nat /\ k \in DOMAIN written' /\ \A j \in 1..k : j \in 1..Len(written) BY <1>1
<1>5. Fitting(k)' = Fitting(k)
  <2>1. \A j \in 1..k : written'[j] = written[j] BY <1>4
  <2> QED BY <1>4, <2>1, FittingMore
<1>6. written'[k] = written[k] BY <1>1
<1> QED BY <1>3, <1>4, <1>5, <1>6

\* The next one that fits comes next.
LEMMA InOrderNext ==
  ASSUME HistoryInv, InOrder, NEW k \in 1..Len(written), Fits(written[k]),
         read' = Append(read, written[k]), Fitting(k) = Len(read) + 1, written' = written
  PROVE  InOrder'
<1>1. /\ Len(written) \in Nat /\ DOMAIN written = 1..Len(written)
      /\ read \in Seq(Incoming) /\ Len(read) \in Nat /\ DOMAIN read = 1..Len(read)
  BY DEF HistoryInv
<1> DEFINE p == written[k]
           n == Len(read)
<1>2. p \in Incoming BY DEF HistoryInv
<1>3. /\ DOMAIN read' = 1..(n + 1) /\ read'[n + 1] = p
      /\ \A i \in 1..n : read'[i] = read[i]
  <2> HIDE DEF p
  <2>1. read' = Append(read, p) BY DEF p
  <2> QED BY <1>1, <1>2, <2>1
<1>4. \A j : Fitting(j)' = Fitting(j) BY DEF Fitting
<1>5. SUFFICES ASSUME NEW i \in DOMAIN read'
               PROVE  \E j \in DOMAIN written :
                         Fits(written[j]) /\ Fitting(j) = i /\ read'[i] = written[j]
  BY <1>4 DEF InOrder, Fits
<1>6. CASE i \in 1..n
  <2>1. PICK j \in DOMAIN written : Fits(written[j]) /\ Fitting(j) = i /\ read[i] = written[j]
    BY <1>1, <1>6 DEF InOrder
  <2> QED BY <1>3, <1>6, <2>1
<1>7. CASE i = n + 1
  <2>1. k \in DOMAIN written BY <1>1
  <2> QED BY <1>3, <1>7, <2>1
<1> QED BY <1>1, <1>3, <1>6, <1>7

\* As long as a session is whole, every step leaves a stream, and the client at the
\* end of a packet of it.
LEMMA WireStep ==
  ASSUME TypeInv, Whole => WireInv, Whole', [WNext]_wvars
  PROVE  WireInv'
<1>1. CASE NewSession
  <2>1. coming' = <<>> /\ arrived' = <<>> /\ rxBuf' = <<>> /\ written' = <<>> /\ read' = <<>>
    BY <1>1 DEF NewSession
  <2>2. HistoryInv' BY <2>1 DEF HistoryInv
  <2>3. InOrder' BY <2>1 DEF InOrder
  <2>4. PICK s, z : s = <<>> /\ z = [k \in Nat |-> 0] OBVIOUS
  <2>5. Stream(s, z, z, 0)' BY <2>1, <2>4, NewStream
  <2> QED BY <2>2, <2>3, <2>5 DEF WireInv
<1>2. CASE BrokerSends
  <2>0. BytesInv /\ written \in Seq(Incoming) BY DEF TypeInv
  <2>1. read' = read BY <1>2 DEF BrokerSends
  <2>2. PICK p \in Incoming : written' = Append(written, p) BY <1>2 DEF BrokerSends
  <2>3. /\ written' \in Seq(Incoming) /\ Len(written') = Len(written) + 1
        /\ DOMAIN written' = 1..Len(written') /\ DOMAIN written = 1..Len(written)
        /\ Len(written) \in Nat
        /\ \A k \in 1..Len(written) : written'[k] = written[k] /\ k \in DOMAIN written'
    BY <2>0, <2>2
  <2>4. ~split' /\ (split => split')
    <3>1. split => split' BY <1>2, Zenon DEF BrokerSends
    <3>2. ~split' BY DEF Whole
    <3> QED BY <3>1, <3>2
  <2>5. WireInv
    <3>1. \A i \in DOMAIN written : Drained(written[i])
      <4>1. \A i \in DOMAIN written' : Drained(written'[i]) BY DEF Whole, Drained, Fits
      <4> QED BY <2>3, <4>1
    <3> QED BY <2>4, <3>1 DEF Whole
  <2>6. HistoryInv /\ InOrder BY <2>5 DEF WireInv
  <2>7. PICK S, at, b, r : Stream(S, at, b, r) BY <2>5 DEF WireInv
  <2>8. HistoryInv' BY <2>1, <2>3, <2>6 DEF HistoryInv
  <2>9. InOrder' BY <2>1, <2>3, <2>6, InOrderKept
  <2>10. \E T, more, c : Stream(T, more, c, r)'
    BY <1>2, <2>0, <2>4, <2>6, <2>7, BrokerSendsStream
  <2> QED BY <2>8, <2>9, <2>10 DEF WireInv
<1>3. CASE ~NewSession /\ ~BrokerSends
  <2>1. written' = written /\ split' = split
    BY <1>3 DEF WNext, SendOutgoing, RecordArrives, ReadShort, ReadPacket, ReadTorn, DropPacket,
       inbound, wvars
  <2>2. Whole
    <3>1. ~split' /\ \A i \in DOMAIN written' : Drained(written'[i]) BY DEF Whole, Drained, Fits
    <3> QED BY <2>1, <3>1 DEF Whole
  <2>3. WireInv /\ BytesInv BY <2>2 DEF TypeInv
  <2>4. HistoryInv /\ InOrder BY <2>3 DEF WireInv
  <2>5. PICK S, at, b, r : Stream(S, at, b, r) BY <2>3 DEF WireInv
  <2>6. /\ written \in Seq(Incoming) /\ read \in Seq(Incoming) /\ Len(written) \in Nat
        /\ DOMAIN written = 1..Len(written)
    BY <2>4 DEF HistoryInv
  <2>7. ASSUME read' = read PROVE HistoryInv' /\ InOrder'
    BY <2>1, <2>4, <2>6, <2>7, InOrderKept DEF HistoryInv
  <2>8. CASE UNCHANGED inbound
    <3>1. coming' = coming /\ arrived' = arrived /\ rxBuf' = rxBuf /\ read' = read
      BY <2>8 DEF inbound
    <3>2. Bytes' = Bytes BY <3>1 DEF Bytes
    <3>3. /\ r = Len(written) => rxBuf' = <<>>
          /\ r < Len(written) => Len(rxBuf') <= Front(written[r + 1])
      BY <2>5, <3>1 DEF Stream, Unread
    <3>4. Stream(S, at, b, r)' BY <2>1, <2>4, <2>5, <3>1, <3>2, <3>3, Unmoved
    <3> QED BY <2>7, <3>1, <3>4 DEF WireInv
  <2>9. CASE RecordArrives
    <3>1. read' = read BY <2>9 DEF RecordArrives
    <3>2. PICK c : c = [j \in Nat |-> b[j + 1]] OBVIOUS
    <3>3. Stream(S, at, c, r)' BY <2>3, <2>4, <2>5, <2>9, <3>2, RecordArrivesStream
    <3> QED BY <2>7, <3>1, <3>3 DEF WireInv
  <2>10. CASE ReadShort
    <3>1. read' = read BY <2>10 DEF ReadShort
    <3>2. Stream(S, at, b, r)' BY <2>3, <2>4, <2>5, <2>10, ReadShortStream
    <3> QED BY <2>7, <3>1, <3>2 DEF WireInv
  <2>11. CASE ReadPacket
    <3>1. /\ Stream(S, at, b, r + 1)'
          /\ r + 1 \in 1..Len(written) /\ Fits(written[r + 1])
          /\ written[r + 1] \in Incoming
          /\ read' = Append(read, written[r + 1])
          /\ Fitting(r + 1) = Len(read) + 1
      BY <2>3, <2>4, <2>5, <2>11, ReadPacketStream
    <3>2. InOrder' BY <2>1, <2>4, <3>1, InOrderNext
    <3> DEFINE p == written[r + 1]
    <3>3. HistoryInv'
      <4>1. read' = Append(read, p) /\ p \in Incoming BY <3>1
      <4> HIDE DEF p
      <4> QED BY <2>1, <2>6, <4>1 DEF HistoryInv
    <3>4. \E q : Stream(S, at, b, q)' BY <3>1
    <3> QED BY <3>2, <3>3, <3>4 DEF WireInv
  <2>12. CASE ReadTorn
    <3>1. read' = read BY <2>12 DEF ReadTorn
    <3>2. Stream(S, at, b, r)' BY <2>3, <2>4, <2>5, <2>12, ReadTornStream
    <3> QED BY <2>7, <3>1, <3>2 DEF WireInv
  <2>13. CASE DropPacket
    <3>1. read' = read BY <2>13 DEF DropPacket
    <3>2. Stream(S, at, b, r)' \/ Stream(S, at, b, r + 1)'
      BY <2>2, <2>3, <2>4, <2>5, <2>13, DropPacketStream
    <3>3. \E q : Stream(S, at, b, q)' BY <3>2
    <3> QED BY <2>7, <3>1, <3>3 DEF WireInv
  <2>14. UNCHANGED inbound \/ RecordArrives \/ ReadShort \/ ReadPacket \/ ReadTorn \/ DropPacket
    BY <1>3 DEF WNext, SendOutgoing, wvars
  <2> QED BY <2>8, <2>9, <2>10, <2>11, <2>12, <2>13, <2>14
<1> QED BY <1>1, <1>2, <1>3

\* What the invariant bears.
LEMMA WireHolds ==
  ASSUME WireInv PROVE EachInTurn
<1>1. HistoryInv /\ InOrder BY DEF WireInv
<1>2. PICK S, at, b, r : Stream(S, at, b, r) BY DEF WireInv
<1>3. Len(written) \in Nat /\ r \in 0..Len(written) /\ Len(read) = Fitting(r)
  BY <1>1, <1>2, BrokersPackets DEF Stream, Unread
<1>4. NoneMissing
  <2> SUFFICES ASSUME coming = <<>>, arrived = <<>>, rxBuf = <<>>
               PROVE  Len(read) = Fitting(Len(written))
    BY DEF NoneMissing
  <2>1. b[0] = Len(S)
    <3>1. Len(coming) = 0 OBVIOUS
    <3> QED BY <1>2, <3>1 DEF Stream, Records
  <2>2. Len(Bytes) = 0 BY DEF Bytes
  <2>3. at[r] + Len(Bytes) = b[0] /\ at \in [Nat -> Nat] BY <1>2 DEF Stream, Unread, Laid
  <2>4. at[r] = Len(S)
    <3>1. at[r] \in Nat BY <1>3, <2>3
    <3> QED BY <2>1, <2>2, <2>3, <3>1
  <2>5. r < Len(written) => at[r] < Len(S) BY <1>2, <1>3 DEF Stream, Laid
  <2>6. Len(S) \in Nat BY <1>2, LenProperties DEF Stream, Laid
  <2>7. r = Len(written) BY <1>3, <2>4, <2>5, <2>6
  <2> QED BY <1>3, <2>7
<1> QED BY <1>1, <1>4 DEF EachInTurn

\* In a session in which no record has ended inside the rest of a packet, and no
\* packet was too long by less than a buffer, each packet that fits is read once,
\* whole and in its turn: the bytes of a header that arrive late, a packet whose
\* rest alone fills the buffer and a packet that follows at once leave the client
\* at the end of a packet (_aws_iot_mqtt_internal_read_packet).
THEOREM AlwaysReadWhole == WSpec => []ReadWhole
<1>1. WInit => TypeInv /\ (Whole => WireInv) BY TypeInit, WireInit
<1>2. TypeInv /\ (Whole => WireInv) /\ [WNext]_wvars => TypeInv' /\ (Whole => WireInv)'
  <2> SUFFICES ASSUME TypeInv, Whole => WireInv, [WNext]_wvars
               PROVE  TypeInv' /\ (Whole' => WireInv')
    OBVIOUS
  <2> QED BY TypeStep, WireStep
<1>3. (Whole => WireInv) => ReadWhole BY WireHolds DEF ReadWhole
<1> QED BY <1>1, <1>2, <1>3, PTL DEF WSpec
=============================================================================
