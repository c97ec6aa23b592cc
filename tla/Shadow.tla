------------------------------- MODULE Shadow -------------------------------
(***************************************************************************)
(* The shadow of the scale's tare value, from the application that writes  *)
(* it to the device that takes it over and reports it: sys_aws_shadow.c    *)
(* on the shadow library of the AWS SDK.  The library keeps a list of the  *)
(* requests that wait for an answer and one of the topics on which answers *)
(* come; a request subscribes to its two topics when it is made for the    *)
(* first time, and while it waits for those subscriptions other messages   *)
(* are handled.  The firmware always asks for persistent subscriptions.    *)
(***************************************************************************)
EXTENDS Naturals, Sequences, FiniteSets

CONSTANTS
  Value,        \* values of scale_tare
  NoValue,      \* no value
  Acks,         \* MAX_ACKS_TO_COMEIN_AT_ANY_GIVEN_TIME
  Slots,        \* MAX_TOPICS_AT_ANY_GIVEN_TIME
  QueueLength,  \* length of evt_queue
  MaxWrites,    \* bound: values the application writes
  MaxBreaks     \* bound: lost sessions and restarts

Command == {"get_tare", "set_fw", "set_tare"}

\* MAX_TOPICS_AT_ANY_GIVEN_TIME is 20, enough for the topics of ten commands, and
\* evt_queue has room for 20 commands, more than those of the start.
ASSUME ShadowAssumption ==
  /\ NoValue \notin Value
  /\ Acks \in Nat \ {0}
  /\ Slots \in Nat /\ Slots >= 2 * Cardinality(Command)
  /\ QueueLength \in Nat /\ QueueLength >= Cardinality(Command)
  /\ MaxWrites \in Nat /\ MaxBreaks \in Nat

VARIABLES
  ackWaitList,        \* AckWaitList
  subscriptionList,   \* SubscriptionList
  handlers,           \* the slots whose topic the MQTT client has a handler for
  rxBuf,              \* the value the GET callback would find in shadowRxBuf
  token,              \* clientTokenNum
  op,                 \* the request being made
  tare,               \* properties.scale_tare, in RAM and in flash
  queue,              \* g_sys_aws.evt_queue
  started,            \* sys_aws_shadow_init has succeeded in this boot
  connected,          \* the session
  heard,              \* topics the broker has subscriptions of the session for
  up, down,           \* messages on their way to AWS and to the device
  desired, reported,  \* the shadow
  writes, breaks,     \* counters of the bounds
  taken,              \* history: the token after that of the last request taken
  calls, last,        \* history: the callbacks, and the last one
  missed,             \* history: a failure may have kept the values apart
  written             \* history: the last value the application wrote

library  == <<ackWaitList, subscriptionList, handlers, rxBuf, token>>
called   == <<calls, last>>
device   == <<tare, queue>>
network  == <<connected, heard>>
cloud    == <<desired, reported, writes, written>>
vars     == <<library, op, device, started, network, up, down, cloud, breaks, taken, called, missed>>

-----------------------------------------------------------------------------
Topic    == [cmd : Command, ack : {"accepted", "rejected"}]
Delta    == [cmd |-> "delta", ack |-> "none"]
Tare     == Value \cup {NoValue}
Accepted(c) == [cmd |-> c, ack |-> "accepted"]
Rejected(c) == [cmd |-> c, ack |-> "rejected"]

Free     == [token |-> 0, cmd |-> "none"]
Idle     == [stage |-> "idle"]
Stages   == {"accepted", "rejected", "publish", "expire"}
NoTopic  == [cmd |-> "none", ack |-> "none"]
EmptySlot == [topic |-> NoTopic, count |-> 0, isFree |-> TRUE]

Request  == [token : Nat, cmd : Command]
\* m_json_buffer: the two parts of a document, which of them is being written, and
\* its token
Doc      == [desired : Tare, reported : Tare, part : {"none", "desired", "reported"}, token : Nat]
Message  == [topic : Topic \cup {Delta}, token : Nat, value : Tare]

TypeOK ==
  /\ ackWaitList \in [1..Acks -> Request \cup {Free}]
  /\ subscriptionList \in
       [1..Slots -> [topic : Topic \cup {NoTopic}, count : 0..255, isFree : BOOLEAN]]
  /\ handlers \subseteq 1..Slots /\ rxBuf \in Tare /\ token \in Nat
  /\ op = Idle \/ (op.stage \in Stages /\ op.cmd \in Command /\ op.doc \in Doc)
  /\ tare \in Value /\ queue \in Seq(Command) /\ Len(queue) <= QueueLength
  /\ started \in BOOLEAN /\ connected \in BOOLEAN /\ heard \subseteq Topic \cup {Delta}
  /\ up \in Seq([cmd : Command, doc : Doc]) /\ down \in Seq(Message)
  /\ desired \in Tare /\ reported \in Tare
  /\ missed \in BOOLEAN

\* aws_iot_shadow_init and initializeRecords
NoAcks  == [i \in 1..Acks |-> Free]
NoSlots == [s \in 1..Slots |-> EmptySlot]

\* A shadow that has been reported or not, and that the application may have
\* written to since.
Init ==
  /\ ackWaitList = NoAcks /\ subscriptionList = NoSlots /\ handlers = {}
  /\ rxBuf = NoValue /\ token = 0
  /\ op = Idle /\ queue = <<>> /\ started = FALSE
  /\ tare \in Value
  /\ connected = FALSE /\ heard = {} /\ up = <<>> /\ down = <<>>
  /\ reported \in {tare, NoValue} /\ desired \in IF reported = tare THEN Value ELSE {NoValue}
  /\ writes = 0 /\ breaks = 0 /\ written = desired
  /\ taken = 0 /\ calls = 0 /\ last = [cmd |-> "none", cause |-> "none"]
  /\ missed = FALSE

-----------------------------------------------------------------------------
(* The application and AWS IoT.                                            *)

\* A message nobody has subscribed to goes nowhere.
Publish(m) == IF connected /\ m.topic \in heard THEN Append(down, m) ELSE down

Lost(m)    == ~(connected /\ m.topic \in heard)

AppWrites ==
  /\ writes < MaxWrites
  /\ \E v \in Value \ {desired} :
       LET m == [topic |-> Delta, token |-> 0, value |-> v]
       IN  /\ desired' = v /\ written' = v /\ writes' = writes + 1
           /\ IF v = reported THEN UNCHANGED <<down, missed>>
              ELSE down' = Publish(m) /\ missed' = (missed \/ Lost(m))
  /\ UNCHANGED <<library, op, device, started, network, up, reported, breaks, taken, called>>

\* History: the shadow has the device's value and nothing else is on its way.
Repaired(v) ==
  /\ v = tare /\ Len(up) = 1
  /\ op.stage \in {"accepted", "rejected", "publish"} => op.doc.reported = tare
  /\ \A i \in DOMAIN down : down[i].topic \notin {Delta, Accepted("get_tare")}

AwsUpdates ==
  LET r == Head(up)
      m == [topic |-> Accepted(r.cmd), token |-> r.doc.token, value |-> r.doc.reported]
  IN  /\ r.cmd \in {"set_fw", "set_tare"}
      /\ down' = Publish(m)
      /\ IF r.cmd = "set_tare"
         THEN /\ desired' = r.doc.desired /\ reported' = r.doc.reported
              /\ missed' = (missed /\ ~(desired' = reported' /\ Repaired(reported')))
         ELSE UNCHANGED <<desired, reported, missed>>

AwsGets ==
  LET r == Head(up)
      m == [topic |-> IF desired = NoValue THEN Rejected(r.cmd) ELSE Accepted(r.cmd),
            token |-> r.doc.token, value |-> desired]
  IN  /\ r.cmd = "get_tare"
      /\ down' = Publish(m) /\ missed' = (missed \/ Lost(m))
      /\ UNCHANGED <<desired, reported>>

AwsRejects ==
  LET r == Head(up)
  IN  /\ down' = Publish([topic |-> Rejected(r.cmd), token |-> r.doc.token, value |-> NoValue])
      /\ missed' = (missed \/ r.cmd # "set_fw")
      /\ UNCHANGED <<desired, reported>>

AwsAnswers ==
  /\ up # <<>>
  /\ up' = Tail(up)
  /\ AwsUpdates \/ AwsGets \/ AwsRejects
  /\ UNCHANGED <<library, op, device, started, network, writes, written, breaks, taken, called>>

-----------------------------------------------------------------------------
(* The session.                                                            *)

SessionBreaks ==
  /\ connected /\ breaks < MaxBreaks
  /\ breaks' = breaks + 1
  /\ connected' = FALSE /\ heard' = {} /\ up' = <<>> /\ down' = <<>>
  /\ missed' = TRUE
  /\ UNCHANGED <<library, op, device, started, cloud, taken, called>>

\* The MQTT client subscribes again to every topic it has a handler for: to
\* what the slot it points to holds by now.
Reconnects ==
  /\ started /\ ~connected /\ op = Idle
  /\ connected' = TRUE
  /\ heard' = {Delta} \cup {subscriptionList[s].topic : s \in handlers}
  /\ UNCHANGED <<library, op, device, started, up, down, cloud, breaks, taken, called, missed>>

\* The tokens begin anew.
Restarts ==
  /\ started /\ breaks < MaxBreaks
  /\ breaks' = breaks + 1
  /\ ackWaitList' = NoAcks /\ subscriptionList' = NoSlots /\ handlers' = {}
  /\ rxBuf' = NoValue /\ token' = 0
  /\ op' = Idle /\ queue' = <<>> /\ started' = FALSE
  /\ connected' = FALSE /\ heard' = {} /\ up' = <<>> /\ down' = <<>>
  /\ taken' = 0 /\ calls' = 0 /\ last' = [cmd |-> "none", cause |-> "none"]
  /\ missed' = TRUE
  /\ UNCHANGED <<tare, cloud>>

-----------------------------------------------------------------------------
(* The callbacks of the firmware.                                          *)

\* sys_aws_shadow_trigger_command; a full queue drops the command.
Enqueue(q, c) == IF Len(q) < QueueLength THEN Append(q, c) ELSE q

\* Mutation: the value is taken over and not reported.
TareCallback_Silent(v, late) == tare' = v /\ UNCHANGED <<queue, missed>>

\* m_shadow_scale_tare_callback: the value is taken over, stored and reported.
TareCallback(v, late) ==
  /\ tare' = v
  /\ queue' = Enqueue(queue, "set_tare")
  /\ missed' = (missed \/ late \/ Len(queue) = QueueLength)

\* aws_parse_shadow_packet
Parsed(found) == found \in Value

\* m_parse_shadow_get_payload
GetPayload(found, late) ==
  IF Parsed(found) THEN TareCallback(found, late)
  ELSE UNCHANGED device /\ missed' = (missed \/ late)

\* m_shadow_get_callback does not look at the status: it takes what it finds
\* in the buffer, though after a timeout that is some earlier message.
GetCallback(found, late) == GetPayload(found, late)

\* Of the updates, only those of the error code have a callback that does
\* anything (module ErrorRing).
Callback(c, found, late) ==
  IF c = "get_tare" THEN GetCallback(found, late) ELSE UNCHANGED <<device, missed>>

-----------------------------------------------------------------------------
(* Reading messages, in a yield or while waiting for a subscription.       *)

Reading == op.stage \in {"idle", "accepted", "rejected"}

Handled(t) == \E s \in handlers : subscriptionList[s].topic = t

\* unsubscribeFromAcceptedAndRejected for a persistent subscription
CountDown(list, c) ==
  [s \in DOMAIN list |->
     IF ~list[s].isFree /\ list[s].topic \in {Accepted(c), Rejected(c)} /\ list[s].count > 1
     THEN [list[s] EXCEPT !.count = @ - 1] ELSE list[s]]

\* Mutation: the record is kept.
Ended_Kept(i, c, cause, found) ==
  /\ Callback(c, found, cause = "timeout")
  /\ calls' = calls + 1 /\ last' = [cmd |-> c, cause |-> cause]
  /\ subscriptionList' = CountDown(subscriptionList, c)
  /\ UNCHANGED ackWaitList

\* The callback of a request is called and its record given back.
Ended(i, c, cause, found) ==
  /\ Callback(c, found, cause = "timeout")
  /\ calls' = calls + 1 /\ last' = [cmd |-> c, cause |-> cause]
  /\ subscriptionList' = CountDown(subscriptionList, c)
  /\ ackWaitList' = [ackWaitList EXCEPT ![i] = Free]

Waiting(i) == ackWaitList[i] # Free

\* extractClientToken, compared with the tokens of the requests
WaitingFor(m) == {i \in 1..Acks : Waiting(i) /\ ackWaitList[i].token = m.token}

\* AckStatusCallback
AckStatusCallback ==
  LET m == Head(down)
      W == WaitingFor(m)
  IN  /\ m.topic # Delta
      /\ IF ~Handled(m.topic)
         THEN UNCHANGED <<ackWaitList, subscriptionList, rxBuf, device, called, missed>>
         ELSE /\ rxBuf' = m.value
              /\ IF W = {} THEN UNCHANGED <<ackWaitList, subscriptionList, device, called, missed>>
                 ELSE LET i == CHOOSE w \in W : \A x \in W : w <= x
                      IN  Ended(i, ackWaitList[i].cmd, m.topic.cmd, m.value)

\* shadow_delta_callback.  The GET callback makes nothing of a delta.
DeltaCallback ==
  LET m == Head(down)
  IN  /\ m.topic = Delta
      /\ rxBuf' = NoValue
      /\ TareCallback(m.value, FALSE)
      /\ UNCHANGED <<ackWaitList, subscriptionList, called>>

Read ==
  /\ started /\ Reading /\ down # <<>>
  /\ down' = Tail(down)
  /\ AckStatusCallback \/ DeltaCallback
  /\ UNCHANGED <<handlers, token, op, started, network, up, cloud, breaks, taken>>

-----------------------------------------------------------------------------
(* Requests: aws_iot_shadow_internal_action, one action for each step that *)
(* ends in a wait.                                                         *)

\* registerJsonTokenOnDelta subscribes to the one delta topic.
RegisterDelta == heard' = {Delta}

\* sys_aws_shadow_init in a session; a failure to begin with is in AwsTask.
Start ==
  /\ ~started
  /\ RegisterDelta
  /\ started' = TRUE /\ connected' = TRUE
  /\ queue' = Enqueue(Enqueue(Enqueue(<<>>, "get_tare"), "set_fw"), "set_tare")
  /\ UNCHANGED <<library, op, tare, up, down, cloud, breaks, taken, called, missed>>

FreeSlots  == {s \in 1..Slots : subscriptionList[s].isFree}
FirstOf(S) == CHOOSE s \in S : \A t \in S : s <= t

Present(c) ==
  \A t \in {Accepted(c), Rejected(c)} :
    \E s \in 1..Slots : ~subscriptionList[s].isFree /\ subscriptionList[s].topic = t

\* Mutation: the first slot found is not marked as taken.
Take_Same(S) == <<FirstOf(S), FirstOf(S)>>

\* getNextFreeIndexOfSubscriptionList, twice
Take(S) == <<FirstOf(S), FirstOf(S \ {FirstOf(S)})>>

\* incrementSubscriptionCnt, in a uint8_t
CountUp(list, c) ==
  [s \in DOMAIN list |->
     IF ~list[s].isFree /\ list[s].topic \in {Accepted(c), Rejected(c)}
     THEN [list[s] EXCEPT !.count = (@ + 1) % 256] ELSE list[s]]

Refuse(c) == missed' = (missed \/ c # "set_fw")

\* Mutation: the token is not counted.
NextToken_Same == token' = token

\* FillWithClientTokenSize
NextToken == token' = token + 1

\* aws_iot_shadow_init_json_document
InitJsonDocument == [desired |-> NoValue, reported |-> NoValue, part |-> "none", token |-> 0]

\* aws_iot_shadow_add_desired, aws_iot_shadow_add_reported
AddDesired(d)  == [d EXCEPT !.part = "desired"]
AddReported(d) == [d EXCEPT !.part = "reported"]

\* m_shadow_create_json_format: the value of this moment, in the part begun last
CreateJsonFormat(d, c) ==
  CASE c # "set_tare"      -> d
    [] d.part = "desired"  -> [d EXCEPT !.desired = tare]
    [] d.part = "reported" -> [d EXCEPT !.reported = tare]

\* aws_iot_finalize_json_document closes the parts and adds the token.
Finalize(d) == [d EXCEPT !.part = "none", !.token = token]

\* sys_aws_shadow_update
UpdateDocument(c) ==
  LET first  == CreateJsonFormat(AddDesired(InitJsonDocument), c)
      second == CreateJsonFormat(AddReported(first), c)
  IN  Finalize(second)

\* emptyJsonWithClientToken
EmptyJson == [InitJsonDocument EXCEPT !.token = token]

Document(c) == IF c = "get_tare" THEN EmptyJson ELSE UpdateDocument(c)

\* getNextFreeIndexOfAckWaitList
FreeAcks == {i \in 1..Acks : ~Waiting(i)}

\* addToAckWaitList
AddToAckWaitList == [ackWaitList EXCEPT ![op.ack] = [token |-> op.doc.token, cmd |-> op.cmd]]

\* sys_aws_shadow_update or sys_aws_shadow_get takes a command: the value and
\* the token of the document are those of this moment.
Serve ==
  /\ started /\ connected /\ op = Idle /\ queue # <<>>
  /\ queue' = Tail(queue)
  /\ NextToken
  /\ LET c == Head(queue)
         o == [stage |-> "publish", cmd |-> c, doc |-> Document(c), slots |-> <<0, 0>>,
               ack |-> FirstOf(FreeAcks)]
     IN  \/ /\ FreeAcks = {}
            /\ Refuse(c) /\ op' = Idle
            /\ UNCHANGED subscriptionList
         \/ /\ FreeAcks # {}
            /\ Present(c)
            /\ subscriptionList' = CountUp(subscriptionList, c)
            /\ op' = o
            /\ UNCHANGED missed
         \/ /\ FreeAcks # {}
            /\ ~Present(c)
            /\ LET s == Take(FreeSlots)
               IN  /\ op' = [o EXCEPT !.stage = "accepted", !.slots = s]
                   /\ subscriptionList' =
                        [subscriptionList EXCEPT ![s[1]].isFree = FALSE, ![s[2]].isFree = FALSE,
                                                 ![s[1]].topic = Accepted(c)]
            /\ UNCHANGED missed
  /\ UNCHANGED <<ackWaitList, handlers, rxBuf, tare, started, network, up, down, cloud, breaks,
                 taken, called>>

\* The topic in slot s is subscribed to; the broker may have done it though the
\* client does not know, and a session that is lost subscribes to nothing.
Subscribed(s, topic) ==
  /\ connected
  /\ handlers' = handlers \cup {s} /\ heard' = heard \cup {topic}

NotSubscribed(topic) ==
  /\ UNCHANGED handlers
  /\ heard' \in {heard, IF connected THEN heard \cup {topic} ELSE heard}

\* The clean-up unsubscribes from the first topic, whatever became of the
\* second; the broker may have done it though the client does not know.
Unsubscribed(first, second) ==
  /\ connected /\ Handled(first)
  /\ handlers' \in {handlers, {s \in handlers : subscriptionList[s].topic # first}}
  /\ heard' \in {heard \ {first}, (heard \ {first}) \cup {second}}

\* A slot keeps the count of 1 it was given back with, and is cleaned up by it.
SubscribeAccepted ==
  /\ op.stage = "accepted"
  /\ LET a == op.slots[1]
         r == op.slots[2]
     IN  \/ /\ Subscribed(a, Accepted(op.cmd))
            /\ subscriptionList' = [subscriptionList EXCEPT ![a].count = 1,
                                                            ![r].topic = Rejected(op.cmd)]
            /\ op' = [op EXCEPT !.stage = "rejected"]
            /\ UNCHANGED missed
         \/ /\ \/ NotSubscribed(Accepted(op.cmd))
               \/ /\ subscriptionList[a].count = 1
                  /\ Unsubscribed(Accepted(op.cmd), Accepted(op.cmd))
            /\ subscriptionList' = [subscriptionList EXCEPT ![a].isFree = TRUE, ![r].isFree = TRUE]
            /\ op' = Idle /\ Refuse(op.cmd)
  /\ UNCHANGED <<ackWaitList, rxBuf, token, device, started, connected, up, down, cloud, breaks,
                 taken, called>>

\* When the second subscription fails both slots are given back, whether or
\* not the first topic can be unsubscribed from.
SubscribeRejected ==
  /\ op.stage = "rejected"
  /\ LET a == op.slots[1]
         r == op.slots[2]
     IN  \/ /\ Subscribed(r, Rejected(op.cmd))
            /\ subscriptionList' = [subscriptionList EXCEPT ![r].count = 1]
            /\ op' = [op EXCEPT !.stage = "publish"]
            /\ UNCHANGED missed
         \/ /\ \/ NotSubscribed(Rejected(op.cmd))
               \/ Unsubscribed(Accepted(op.cmd), Rejected(op.cmd))
            /\ subscriptionList' = [subscriptionList EXCEPT ![a].isFree = TRUE, ![r].isFree = TRUE]
            /\ op' = Idle /\ Refuse(op.cmd)
  /\ UNCHANGED <<ackWaitList, rxBuf, token, device, started, connected, up, down, cloud, breaks,
                 taken, called>>

\* publishToShadowAction, and addToAckWaitList before anything is read.  An
\* update goes on to aws_iot_shadow_yield.
PublishRequest ==
  /\ op.stage = "publish"
  /\ \/ /\ connected
        /\ up' = Append(up, [cmd |-> op.cmd, doc |-> op.doc])
        /\ ackWaitList' = AddToAckWaitList
        /\ taken' = op.doc.token + 1
        /\ op' = IF op.cmd = "get_tare" THEN Idle ELSE [op EXCEPT !.stage = "expire"]
        /\ UNCHANGED missed
     \/ /\ op' = Idle /\ Refuse(op.cmd)
        /\ UNCHANGED <<up, ackWaitList, taken>>
  /\ UNCHANGED <<subscriptionList, handlers, rxBuf, token, device, started, network, down, cloud,
                 breaks, called>>

\* HandleExpiredResponseCallbacks: any request but the one just made may have
\* run out of its four seconds.
Expire ==
  /\ op.stage = "expire"
  /\ \E i \in 1..Acks :
       /\ Waiting(i) /\ ackWaitList[i].token # op.doc.token
       /\ Ended(i, ackWaitList[i].cmd, "timeout", rxBuf)
  /\ UNCHANGED <<handlers, rxBuf, token, op, started, network, up, down, cloud, breaks, taken>>

ExpireDone ==
  /\ op.stage = "expire"
  /\ op' = Idle
  /\ UNCHANGED <<library, device, started, network, up, down, cloud, breaks, taken, called, missed>>

-----------------------------------------------------------------------------
Make  == Serve \/ SubscribeAccepted \/ SubscribeRejected \/ PublishRequest \/ Expire \/ ExpireDone
World == AppWrites \/ AwsAnswers \/ SessionBreaks \/ Reconnects \/ Restarts

Next == Start \/ Read \/ Make \/ World

Spec == Init /\ [][Next]_vars

-----------------------------------------------------------------------------
(* Properties.                                                             *)

\* A request that waits can be answered: the client handles both its topics, and
\* in a session the broker sends them, though other requests failed half way
\* and their slots were used again.
Listening ==
  \A i \in 1..Acks : Waiting(i) =>
    \A t \in {Accepted(ackWaitList[i].cmd), Rejected(ackWaitList[i].cmd)} :
      Handled(t) /\ (connected => t \in heard)

\* The records of requests and topics are sound, as long as a request waits.
RecordsHold == TypeOK /\ Listening

\* Each request taken is ended once, and by an answer of its own kind.
Requests == INSTANCE ShadowRequests WITH
  pending <- {ackWaitList[i] : i \in {i \in 1..Acks : Waiting(i)}}

EndedOnce == Requests!Spec

\* When nothing is under way and nothing has failed since the shadow was last
\* right, device and shadow agree, in whatever order the application, the
\* answers and the updates met.
Quiet == started /\ connected /\ op = Idle /\ queue = <<>> /\ up = <<>> /\ down = <<>>

InSync == Quiet /\ ~missed => tare = desired /\ tare = reported

-----------------------------------------------------------------------------
\* sys_aws_shadow.c:102 "The value on the AWS is the final value for device":
\* what the application wrote last is what the device ends up with.
AwsValueIsFinal == Quiet /\ ~missed => written \in {NoValue, tare}
=============================================================================
