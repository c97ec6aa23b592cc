----------------------------- MODULE MqttClient -----------------------------
(***************************************************************************)
(* The MQTT client of the AWS SDK as the firmware uses it: one thread      *)
(* calls it, and every call blocks.  While a call waits for its answer it  *)
(* reads whatever comes in, so the handler of a message may run inside any *)
(* call and may itself call the client.  What the thread is in the middle  *)
(* of is a stack of calls, the innermost first.  The broker and the TLS    *)
(* session to it belong to the model; how packets are laid out in bytes is *)
(* left to MqttWire.                                                       *)
(***************************************************************************)
EXTENDS Naturals, Sequences, FiniteSets

CONSTANTS
  Topic, None,      \* topics, and no topic
  Stale,            \* a topic name whose bytes have been overwritten
  NumHandlers,      \* AWS_IOT_MQTT_NUM_SUBSCRIBE_HANDLERS
  CallbackOps,      \* the calls message handlers make
  AutoReconnect,    \* what isAutoReconnectEnabled may be set to
  MinWait, MaxWait, \* AWS_IOT_MQTT_MIN and _MAX_RECONNECT_WAIT_INTERVAL
  MaxContexts,      \* bound: TLS contexts the heap has room for
  MaxPackets,       \* bound: packets on their way, each way
  MaxNesting        \* bound: messages being delivered at once

ASSUME ClientAssumption ==
  /\ None \notin Topic /\ Stale \notin Topic \cup {None}
  /\ NumHandlers \in Nat \ {0}
  /\ CallbackOps \subseteq {"publish", "unsubscribe", "subscribe", "disconnect"}
  /\ AutoReconnect \in SUBSET BOOLEAN
  /\ MinWait \in Nat \ {0} /\ MaxWait \in Nat
  /\ MaxContexts \in Nat \ {0} /\ MaxPackets \in Nat /\ MaxNesting \in Nat

-----------------------------------------------------------------------------
VARIABLES
  auto,       \* isAutoReconnectEnabled
  state,      \* clientStatus.clientState
  calls,      \* the calls under way, the innermost first
  handlers,   \* messageHandlers[].topicName
  tls,        \* TLS contexts set up and not freed
  session,    \* the session in the contexts
  toBroker, fromBroker,
  granted,    \* topics the broker holds for the session
  ping,       \* isPingOutstanding
  wait,       \* currentReconnectWaitInterval
  held,       \* history: topics subscribed to with success, and not left
  dropped,    \* history: topics of the session whose leaving was asked for
  restored    \* history: every handler was subscribed for in the session

net     == <<tls, session, toBroker, fromBroker, granted, ping>>
history == <<held, dropped, restored>>
vars    == <<auto, state, calls, handlers, net, wait, history>>

Slot == 1..NumHandlers

\* While a call is in progress the state has its name; "callback" is
\* WAIT_FOR_CB_RETURN.  CONNECTING and DISCONNECTING do not outlast a step.
Request     == {"subscribe", "unsubscribe", "publish", "resubscribe"}
Connected   == {"idle", "yield", "callback"} \cup Request
ClientState == {"initialized", "error", "manual", "pending"} \cup Connected

\* "deliver" is a message being handed to the handlers, from "slot" on, and
\* "lost" the disconnect handler, which has made its attempt if slot is 1.
Call == [op    : Request \cup {"yield", "deliver", "lost"},
         saved : ClientState,               \* the state when it was called
         topic : Topic \cup {None, Stale},
         slot  : 0..NumHandlers + 1,
         last  : 0..NumHandlers]            \* the last slot to resubscribe

Answer == [subscribe |-> "SUBACK", unsubscribe |-> "UNSUBACK",
           publish |-> "PUBACK", resubscribe |-> "SUBACK", yield |-> "none"]

Packet == [type  : {"SUBSCRIBE", "UNSUBSCRIBE", "PUBLISH", "PINGREQ",
                    "SUBACK", "UNSUBACK", "PUBACK", "PINGRESP"},
           topic : Topic \cup {None}]

TypeOK ==
  /\ auto \in AutoReconnect
  /\ state \in ClientState
  /\ calls \in Seq(Call)
  /\ handlers \in [Slot -> Topic \cup {None}]
  /\ tls \in Nat
  /\ session \in {"closed", "up", "broken"}
  /\ toBroker \in Seq(Packet) /\ fromBroker \in Seq(Packet)
  /\ granted \in SUBSET Topic
  /\ ping \in BOOLEAN
  /\ wait \in Nat
  /\ held \in SUBSET Topic /\ dropped \in SUBSET Topic
  /\ restored \in BOOLEAN

\* aws_iot_mqtt_init.  The wait is left at zero until a session is lost.
Init ==
  /\ auto \in AutoReconnect
  /\ state = "initialized" /\ calls = <<>>
  /\ handlers = [s \in Slot |-> None]
  /\ tls = 0 /\ session = "closed"
  /\ toBroker = <<>> /\ fromBroker = <<>> /\ granted = {}
  /\ ping = FALSE /\ wait = 0
  /\ held = {} /\ dropped = {} /\ restored = FALSE

-----------------------------------------------------------------------------
(* What the calls are made of.                                             *)

Top    == calls[1]
Within == calls # <<>>

\* aws_iot_mqtt_set_client_state
CompareAndSet(expected, new) == IF state = expected THEN new ELSE state

Push(op, topic, slot, last, below) ==
  <<[op |-> op, saved |-> state, topic |-> topic, slot |-> slot, last |-> last]>> \o below

Used == {s \in Slot : handlers[s] # None}

\* Mutation: the handlers are counted.
FirstFree_Count == Cardinality(Used) + 1

\* get_free_message_handler_index; NumHandlers + 1 when there is none
FirstFree == CHOOSE s \in 1..NumHandlers + 1 :
               /\ s \notin Used
               /\ \A r \in 1..s - 1 : r \in Used

\* A packet written to a session that is gone goes nowhere: the call fails in
\* the writing or in the reading after it.
Send(type, topic) ==
  toBroker' = IF session = "up"
              THEN Append(toBroker, [type |-> type, topic |-> topic]) ELSE toBroker

\* A call may start at rest or from the handler of a message; one that finds
\* the client busy or not connected returns at once.
InCallback == Within /\ Top.op = "deliver" /\ Top.slot > 1

MayStart(op) ==
  /\ state \in {"idle", "callback"}
  /\ ~Within \/ (InCallback /\ op \in CallbackOps)
  /\ Len(toBroker) < MaxPackets

\* In a call that reads.
Reading ==
  /\ Within /\ Top.op \in Request \cup {"yield"}
  /\ state # "pending" /\ session # "closed"

Received(type) == Reading /\ fromBroker # <<>> /\ fromBroker[1].type = type

\* Reading a packet overwrites the message a handler further out was given.
Overwritten(cs) ==
  [i \in DOMAIN cs |-> IF cs[i].op = "deliver" THEN [cs[i] EXCEPT !.topic = Stale] ELSE cs[i]]

-----------------------------------------------------------------------------
(* Opening and closing a session.                                          *)

\* iot_tls_connect sets every context up anew, without freeing it first; the
\* CONNECT has the clean session flag and its answer resets the ping.
OpenSession ==
  /\ tls < MaxContexts
  /\ tls' = tls + 1 /\ session' = "up"
  /\ fromBroker' = <<>> /\ granted' = {} /\ ping' = FALSE
  /\ dropped' = {}

\* What a failing attempt has set up is freed.
OpenFails ==
  /\ session' = "closed" /\ toBroker' = <<>> /\ fromBroker' = <<>>
  /\ UNCHANGED <<tls, granted, ping, dropped>>

\* iot_tls_disconnect and iot_tls_destroy
CloseSession ==
  /\ tls' = IF tls > 0 THEN tls - 1 ELSE 0
  /\ session' = "closed" /\ toBroker' = <<>> /\ fromBroker' = <<>>

\* aws_iot_mqtt_connect by the application
Connect ==
  /\ ~Within /\ state \notin Connected
  /\ \/ OpenSession /\ toBroker' = <<>> /\ state' = "idle" /\ restored' = (Used = {})
     \/ OpenFails /\ state' = "error" /\ UNCHANGED restored
  /\ UNCHANGED <<auto, calls, handlers, wait, held>>

\* aws_iot_mqtt_disconnect
Disconnect ==
  /\ ~Within \/ (InCallback /\ "disconnect" \in CallbackOps)
  /\ state \in Connected
  /\ CloseSession
  /\ state' = "manual"
  /\ UNCHANGED <<auto, calls, handlers, granted, ping, wait, history>>

\* Mutation: the count is taken for an index.
LastToRestore_OneMore == FirstFree

LastToRestore == FirstFree - 1

\* aws_iot_mqtt_attempt_reconnect, called from "below": with a session the
\* handlers before the first free one are subscribed again, one by one, by a
\* client that is idle between them.
ReconnectOpens(below) ==
  /\ OpenSession
  /\ IF 1 \in Used
     THEN /\ state' = "resubscribe"
          /\ calls' = <<[op |-> "resubscribe", saved |-> "idle", topic |-> None,
                         slot |-> 1, last |-> LastToRestore]>> \o below
          /\ toBroker' = <<[type |-> "SUBSCRIBE", topic |-> handlers[1]]>>
          /\ restored' = FALSE
     ELSE /\ state' = IF below # <<>> /\ below[1].op = "yield" THEN "yield" ELSE "idle"
          /\ calls' = below
          /\ toBroker' = <<>>
          /\ restored' = (Used = {})

ReconnectFails(below) ==
  /\ OpenFails
  /\ state' = "pending"
  /\ calls' = below
  /\ UNCHANGED restored

AttemptReconnect ==
  /\ ~Within /\ state \notin Connected
  /\ ReconnectOpens(<<>>) \/ ReconnectFails(<<>>)
  /\ UNCHANGED <<auto, handlers, wait, held>>

-----------------------------------------------------------------------------
(* Requests.                                                               *)

\* aws_iot_mqtt_subscribe: the slot is chosen before the request is sent.
Subscribe(t) ==
  /\ MayStart("subscribe") /\ FirstFree \in Slot
  /\ calls' = Push("subscribe", t, FirstFree, 0, calls)
  /\ state' = "subscribe"
  /\ Send("SUBSCRIBE", t) /\ dropped' = dropped \ {t}
  /\ UNCHANGED <<auto, handlers, tls, session, fromBroker, granted, ping, wait, held, restored>>

\* aws_iot_mqtt_unsubscribe
Unsubscribe(t) ==
  /\ MayStart("unsubscribe") /\ \E s \in Slot : handlers[s] = t
  /\ calls' = Push("unsubscribe", t, 0, 0, calls)
  /\ state' = "unsubscribe"
  /\ Send("UNSUBSCRIBE", t) /\ dropped' = dropped \cup {t}
  /\ UNCHANGED <<auto, handlers, tls, session, fromBroker, granted, ping, wait, held, restored>>

\* aws_iot_mqtt_publish with QOS1; with QOS0 nothing is waited for.
Publish ==
  /\ MayStart("publish")
  /\ calls' = Push("publish", None, 0, 0, calls)
  /\ state' = "publish"
  /\ Send("PUBLISH", None)
  /\ UNCHANGED <<auto, handlers, tls, session, fromBroker, granted, ping, wait, history>>

\* The answer that ends a request.  Whose answer it is is not looked at: the
\* check of the packet identifier is commented out.
Answered(op) ==
  /\ Received(Answer[op]) /\ Top.op = op
  /\ fromBroker' = Tail(fromBroker)

Returns(below) ==
  /\ calls' = Overwritten(below)
  /\ state' = CompareAndSet(Top.op, Top.saved)

SubscribeAnswered ==
  /\ Answered("subscribe")
  /\ handlers' = [handlers EXCEPT ![Top.slot] = Top.topic]
  /\ held' = held \cup {Top.topic}
  /\ Returns(Tail(calls))
  /\ UNCHANGED <<auto, tls, session, toBroker, granted, ping, wait, dropped, restored>>

UnsubscribeAnswered ==
  /\ Answered("unsubscribe")
  /\ handlers' = [s \in Slot |-> IF handlers[s] = Top.topic THEN None ELSE handlers[s]]
  /\ held' = held \ {Top.topic}
  /\ Returns(Tail(calls))
  /\ UNCHANGED <<auto, tls, session, toBroker, granted, ping, wait, dropped, restored>>

PublishAnswered ==
  /\ Answered("publish")
  /\ Returns(Tail(calls))
  /\ UNCHANGED <<auto, handlers, tls, session, toBroker, granted, ping, wait, history>>

\* Where the thread is once a resubscription is through: a yield that was
\* reconnecting goes on as one that has a session.
AfterResubscribe == IF Len(calls) > 1 /\ calls[2].op = "yield" THEN "yield" ELSE Top.saved

\* Mutation: one handler less is subscribed again.
ToRestore_OneLess == {s \in Used : Top.slot < s /\ s < Top.last}

\* A handler behind a free one, as an unsubscription leaves it, is not reached.
ToRestore == {s \in Used : Top.slot < s /\ s <= Top.last}

ResubscribeAnswered ==
  LET next == CHOOSE s \in ToRestore : \A r \in ToRestore : s <= r
  IN  /\ Answered("resubscribe")
      /\ \/ /\ ToRestore # {}
            /\ calls' = [calls EXCEPT ![1].slot = next]
            /\ Send("SUBSCRIBE", handlers[next]) /\ dropped' = dropped \ {handlers[next]}
            /\ UNCHANGED <<state, restored>>
         \/ /\ ToRestore = {}
            /\ calls' = Tail(calls)
            /\ state' = CompareAndSet("resubscribe", AfterResubscribe)
            /\ restored' = \A s \in Used : s <= Top.last
            /\ UNCHANGED <<toBroker, dropped>>
      /\ UNCHANGED <<auto, handlers, tls, session, granted, ping, wait, held>>

\* A failing resubscription leaves a yield that was reconnecting with a
\* connected client and a longer wait; nothing asks for the rest again.
LongerWait ==
  wait' = IF Top.op = "resubscribe" /\ Len(calls) > 1 /\ calls[2].op = "yield"
          THEN 2 * wait ELSE wait

\* The answer does not come in commandTimeoutMs, or the session is gone.
RequestFails ==
  /\ Within /\ Top.op \in Request
  /\ calls' = Tail(calls)
  /\ state' = CompareAndSet(Top.op, Top.saved)
  /\ LongerWait
  /\ UNCHANGED <<auto, handlers, net, history>>

-----------------------------------------------------------------------------
(* Reading.                                                                *)

\* _aws_iot_mqtt_internal_deliver_message
HandlePublish ==
  /\ Received("PUBLISH")
  /\ Len(SelectSeq(calls, LAMBDA c : c.op = "deliver")) < MaxNesting
  /\ fromBroker' = Tail(fromBroker)
  /\ calls' = Push("deliver", fromBroker[1].topic, 1, 0, Overwritten(calls))
  /\ state' = "callback"
  /\ UNCHANGED <<auto, handlers, tls, session, toBroker, granted, ping, wait, history>>

\* Any other packet the caller does not wait for
ReadOther ==
  /\ Reading /\ fromBroker # <<>>
  /\ fromBroker[1].type \notin {"PUBLISH", Answer[Top.op]}
  /\ fromBroker' = Tail(fromBroker)
  /\ ping' = (ping /\ fromBroker[1].type # "PINGRESP")
  /\ calls' = Overwritten(calls)
  /\ UNCHANGED <<auto, state, handlers, tls, session, toBroker, granted, wait, history>>

\* The handlers still to be asked whose topic is the name of the message.  Of
\* overwritten bytes any may be.
Matching ==
  {s \in Used : s >= Top.slot /\ (Top.topic = Stale \/ handlers[s] = Top.topic)}

CallHandler ==
  /\ Within /\ Top.op = "deliver"
  /\ \E s \in Matching :
       /\ Top.topic # Stale => \A r \in Matching : s <= r
       /\ calls' = [calls EXCEPT ![1].slot = s + 1]
  /\ UNCHANGED <<auto, state, handlers, net, wait, history>>

\* Mutation: a handler that disconnected goes unnoticed.
HandlersDone_Ignored ==
  /\ Within /\ Top.op = "deliver"
  /\ Matching = {} \/ Top.topic = Stale
  /\ calls' = Tail(calls)
  /\ state' = CompareAndSet("callback", Top.saved)
  /\ UNCHANGED <<auto, handlers, net, wait, history>>

\* When a handler has disconnected, the state is not the one expected, and the
\* call the message was read in fails as well.
HandlersDone ==
  /\ Within /\ Top.op = "deliver"
  /\ Matching = {} \/ Top.topic = Stale
  /\ \/ /\ state = "callback"
        /\ calls' = Tail(calls) /\ state' = Top.saved
        /\ UNCHANGED wait
     \/ /\ state # "callback"
        /\ calls' = Tail(Tail(calls)) /\ UNCHANGED state
        /\ wait' = IF calls[2].op = "resubscribe" /\ Len(calls) > 2 /\ calls[3].op = "yield"
                   THEN 2 * wait ELSE wait
  /\ UNCHANGED <<auto, handlers, net, history>>

-----------------------------------------------------------------------------
(* aws_iot_mqtt_yield.                                                     *)

Yield ==
  /\ ~Within /\ state \in {"idle", "pending"}
  /\ calls' = Push("yield", None, 0, 0, calls)
  /\ state' = CompareAndSet("idle", "yield")
  /\ UNCHANGED <<auto, handlers, net, wait, history>>

InYield == Within /\ Top.op = "yield"

YieldEnds ==
  /\ InYield
  /\ calls' = Tail(calls)
  /\ state' = CompareAndSet("yield", "idle")
  /\ UNCHANGED <<auto, handlers, net, wait, history>>

\* _aws_iot_mqtt_keep_alive, when its timer has run out
KeepAlive ==
  /\ InYield /\ state # "pending" /\ session # "closed" /\ ~ping
  /\ Len(toBroker) < MaxPackets
  /\ Send("PINGREQ", None) /\ ping' = TRUE
  /\ UNCHANGED <<auto, state, calls, handlers, tls, session, fromBroker, granted, wait, history>>

\* Mutation: the contexts are kept for the reconnection.
HandleDisconnect_Keeps ==
  /\ InYield /\ state # "pending" /\ (session # "up" \/ ping)
  /\ session' = "closed" /\ toBroker' = <<>> /\ fromBroker' = <<>>
  /\ calls' = Push("lost", None, 0, 0, calls)
  /\ state' = IF state \in Connected THEN "manual" ELSE "error"
  /\ UNCHANGED <<auto, handlers, tls, granted, ping, wait, history>>

\* A read or write fails, or the ping was not answered: the client is
\* disconnected, by force if it is not connected, and the handler called.
HandleDisconnect ==
  /\ InYield /\ state # "pending" /\ (session # "up" \/ ping)
  /\ CloseSession
  /\ calls' = Push("lost", None, 0, 0, calls)
  /\ state' = IF state \in Connected THEN "manual" ELSE "error"
  /\ UNCHANGED <<auto, handlers, granted, ping, wait, history>>

\* m_sys_aws_disconnect_callback_handler
LostHandler ==
  /\ Within /\ Top.op = "lost" /\ Top.slot = 0 /\ ~auto
  /\ LET below == [calls EXCEPT ![1].slot = 1]
     IN  ReconnectOpens(below) \/ ReconnectFails(below)
  /\ UNCHANGED <<auto, handlers, wait, held>>

\* Whatever the handler did, the state becomes DISCONNECTED_ERROR, and the
\* yield ends or goes on to reconnect.
LostReturns ==
  /\ Within /\ Top.op = "lost" /\ (auto \/ Top.slot = 1)
  /\ \/ /\ auto
        /\ calls' = Tail(calls) /\ state' = "pending" /\ wait' = MinWait
     \/ /\ ~auto
        /\ calls' = Tail(Tail(calls)) /\ state' = "error" /\ UNCHANGED wait
  /\ UNCHANGED <<auto, handlers, net, history>>

\* _aws_iot_mqtt_handle_reconnect, when its delay has run out
HandleReconnect ==
  /\ InYield /\ state = "pending" /\ wait <= MaxWait
  /\ \/ ReconnectOpens(calls) /\ UNCHANGED wait
     \/ ReconnectFails(calls) /\ wait' = 2 * wait
  /\ UNCHANGED <<auto, handlers, held>>

-----------------------------------------------------------------------------
(* The broker and the network.                                             *)

\* The broker answers in the order of the requests.  It grants what is asked.
BrokerAnswers ==
  /\ session = "up" /\ toBroker # <<>> /\ Len(fromBroker) < MaxPackets
  /\ LET p == toBroker[1]
         a == CASE p.type = "SUBSCRIBE" -> "SUBACK" [] p.type = "UNSUBSCRIBE" -> "UNSUBACK"
                [] p.type = "PUBLISH" -> "PUBACK"   [] p.type = "PINGREQ" -> "PINGRESP"
     IN  /\ granted' = CASE p.type = "SUBSCRIBE"   -> granted \cup {p.topic}
                         [] p.type = "UNSUBSCRIBE" -> granted \ {p.topic}
                         [] OTHER -> granted
         /\ fromBroker' = Append(fromBroker, [type |-> a, topic |-> None])
  /\ toBroker' = Tail(toBroker)
  /\ UNCHANGED <<auto, state, calls, handlers, tls, session, ping, wait, history>>

BrokerPublishes ==
  /\ session = "up" /\ Len(fromBroker) < MaxPackets
  /\ \E t \in granted : fromBroker' = Append(fromBroker, [type |-> "PUBLISH", topic |-> t])
  /\ UNCHANGED <<auto, state, calls, handlers, tls, session, toBroker, granted, ping, wait, history>>

\* What has arrived can still be read.
SessionBreaks ==
  /\ session = "up"
  /\ session' = "broken" /\ toBroker' = <<>>
  /\ UNCHANGED <<auto, state, calls, handlers, tls, fromBroker, granted, ping, wait, history>>

-----------------------------------------------------------------------------
Application ==
  \/ Connect \/ Disconnect \/ AttemptReconnect \/ Publish \/ Yield
  \/ \E t \in Topic : Subscribe(t) \/ Unsubscribe(t)
Client ==
  \/ SubscribeAnswered \/ UnsubscribeAnswered \/ PublishAnswered \/ ResubscribeAnswered
  \/ RequestFails \/ HandlePublish \/ ReadOther \/ CallHandler \/ HandlersDone
  \/ YieldEnds \/ KeepAlive \/ HandleDisconnect \/ LostHandler \/ LostReturns
  \/ HandleReconnect
World == BrokerAnswers \/ BrokerPublishes \/ SessionBreaks

Next == Application \/ Client \/ World

Spec == Init /\ [][Next]_vars

-----------------------------------------------------------------------------
(* Properties.                                                             *)

\* However calls nest and fail, and whatever handlers do, no call leaves the
\* client in progress: it could never be used again.
IdleAtRest == ~Within => state \in {"initialized", "idle", "error", "manual", "pending"}

\* With automatic reconnection, the contexts are set up exactly while the
\* client takes itself for connected: none leaks and none is freed in use.
OneContext == auto => tls = IF state \in Connected THEN 1 ELSE 0

\* Nobody waits for an answer in a session that has been closed under it by a
\* handler.
WaitsInSession == (Within /\ Top.op \in Request) => session # "closed"

\* So the client can always be used again, whatever a handler does in a call.
NoCallStuck == IdleAtRest /\ WaitsInSession

\* A topic subscribed to with success keeps a handler until it is left, though
\* messages are handled and slots freed between the choice of the slot and its
\* use.
AcceptedHasHandler == \A t \in held : \E s \in Slot : handlers[s] = t

\* In a session opened by the first connection or fully restored, each handler
\* is subscribed for, its request is on its way, or its leaving was asked for:
\* taking another request's answer for one's own does no harm.
Requested(t) == \E i \in DOMAIN toBroker : toBroker[i] = [type |-> "SUBSCRIBE", topic |-> t]

HandlersAreServed ==
  session = "up" /\ restored =>
    \A s \in Used : handlers[s] \in granted \cup dropped \/ Requested(handlers[s])

-----------------------------------------------------------------------------
(* What the firmware logs and the SDK undoes.                              *)

\* sys_aws.c:343 "Manual Reconnect Successful", and aws_iot_mqtt_client.h:340
\* "true = connected, false = not currently connected": a client at rest that
\* holds the context of a session takes itself for connected.
ReconnectStays == (~Within /\ tls > 0) => state \in Connected
=============================================================================
