------------------------------- MODULE AwsTask -------------------------------
(***************************************************************************)
(* The AWS task of a station boot, sys_aws.c: its session with AWS, which  *)
(* is lost and found again, and its service queue, which the main loop and *)
(* the task itself fill from the one record g_sys_aws.service.  The task   *)
(* has the higher priority, so it may run between any two steps of the     *)
(* main loop, but not the other way round.  What a shadow holds, the jobs  *)
(* and the error codes are left to other modules.                          *)
(***************************************************************************)
EXTENDS Naturals, Sequences

CONSTANTS
  Cap,      \* length of evt_queue
  MaxNoti   \* bound: notifications the main loop sends

ASSUME TaskAssumption == Cap \in Nat \ {0} /\ MaxNoti \in Nat

-----------------------------------------------------------------------------
VARIABLES
  wifi,     \* the station has an address
  evt,      \* SYS_AWS_RECONNECT_EVT
  client,   \* state of the MQTT client, as far as callers tell it apart
  broken,   \* a session the client believes in is gone
  subs,     \* topics the client has handlers for
  pc,       \* where the AWS task is
  rec,      \* g_sys_aws.service
  queue,    \* g_sys_aws.evt_queue
  main,     \* where the main loop is in sys_aws_mqtt_send_noti
  sent      \* history: the notifications given to aws_iot_mqtt_publish

session == <<client, broken, subs>>
vars    == <<wifi, evt, session, pc, rec, queue, main, sent>>

Topic   == {"downstream", "delta", "jobs"}
Command == {"get_tare", "set_fw", "set_tare"}
Noti    == 1..MaxNoti

\* One record serves both kinds of request; the tasks fill one half each and
\* share the type.  A notification is the number of its sending.
Service == [type : {"shadow", "mqtt"}, cmd : Command, noti : 0..MaxNoti]

\* Where the task reads what comes in: aws_iot_mqtt_yield, the yield after an
\* update, or the wait for an answer
Yielding == {"errors", "yield", "answer"}

TypeOK ==
  /\ wifi \in BOOLEAN /\ evt \in BOOLEAN /\ broken \in BOOLEAN
  /\ client \in {"init", "connected", "error", "pending"}
  /\ subs \in SUBSET Topic
  /\ pc \in {"connect", "subscribe", "shadow", "jobs", "serve", "check"} \cup Yielding
  /\ rec \in Service
  /\ queue \in Seq(Service) /\ Len(queue) <= Cap
  /\ main \in {"delay", "filled", "typed"}
  /\ sent \in Seq(Noti)

\* sys_aws_start, at the first address of the boot
Init ==
  /\ wifi = TRUE /\ evt = FALSE
  /\ client = "init" /\ broken = FALSE /\ subs = {}
  /\ pc = "connect"
  /\ rec = [type |-> "shadow", cmd |-> "get_tare", noti |-> 0]
  /\ queue = <<>>
  /\ main = "delay"
  /\ sent = <<>>

-----------------------------------------------------------------------------
(* The event task.                                                         *)

\* The event is set whether or not the client has noticed anything yet.
GotIp ==
  /\ ~wifi
  /\ wifi' = TRUE /\ evt' = TRUE
  /\ UNCHANGED <<session, pc, rec, queue, main, sent>>

StaDisconnected ==
  /\ wifi
  /\ wifi' = FALSE
  /\ UNCHANGED <<evt, session, pc, rec, queue, main, sent>>

\* The server or the network ends the session; with the Wi-Fi link or not.
SessionBreaks ==
  /\ client = "connected" /\ ~broken
  /\ broken' = TRUE
  /\ UNCHANGED <<wifi, evt, client, subs, pc, rec, queue, main, sent>>

-----------------------------------------------------------------------------
(* The service queue.  xQueueSend copies the record when there is room, and *)
(* gives up after 100 ms when there is none; nobody looks at its result.   *)

Enqueue(q, s) == IF Len(q) < Cap THEN Append(q, s) ELSE q

\* sys_aws_mqtt_send_noti on the main task: its half of the record, ...
FillNoti ==
  /\ main = "delay" /\ rec.noti < MaxNoti
  /\ rec' = [rec EXCEPT !.noti = @ + 1]
  /\ main' = "filled"
  /\ UNCHANGED <<wifi, evt, session, pc, queue, sent>>

\* ... the type, in sys_aws_mqtt_trigger_publish, ...
FillType ==
  /\ main = "filled"
  /\ rec' = [rec EXCEPT !.type = "mqtt"]
  /\ main' = "typed"
  /\ UNCHANGED <<wifi, evt, session, pc, queue, sent>>

\* ... and the copy, of the record as it is by then, at once or while waiting
\* for room.
SendNoti ==
  /\ main = "typed"
  /\ queue' = Enqueue(queue, rec)
  /\ main' = "delay"
  /\ UNCHANGED <<wifi, evt, session, pc, rec, sent>>

\* sys_aws_shadow_trigger_command, on the AWS task.  Waiting for room is in
\* vain, as nobody else takes from the queue.
Trigger(c) ==
  /\ rec'   = [rec EXCEPT !.type = "shadow", !.cmd = c]
  /\ queue' = Enqueue(queue, rec')

-----------------------------------------------------------------------------
(* The AWS task up to its loop.                                            *)

Works == client = "connected" /\ ~broken

\* m_sys_aws_connect, once
Connect ==
  /\ pc = "connect"
  /\ \/ wifi /\ client' = "connected"
     \/ client' = "error"
  /\ pc' = "subscribe"
  /\ UNCHANGED <<wifi, evt, broken, subs, rec, queue, main, sent>>

\* Subscribing may fail in a session that works, and does in any other.
Subscribed(t) == Works /\ subs' = subs \cup {t}

\* sys_aws_mqtt_subscribe; its result is ignored.
Subscribe ==
  /\ pc = "subscribe"
  /\ Subscribed("downstream") \/ UNCHANGED subs
  /\ pc' = "shadow"
  /\ UNCHANGED <<wifi, evt, client, broken, rec, queue, main, sent>>

\* sys_aws_shadow_init: without the delta topic nothing is asked for.
ShadowInit ==
  /\ pc = "shadow"
  /\ \/ /\ Subscribed("delta")
        /\ rec' = [rec EXCEPT !.type = "shadow", !.cmd = "set_tare"]
        /\ LET q1 == Enqueue(queue, [rec' EXCEPT !.cmd = "get_tare"])
               q2 == Enqueue(q1, [rec' EXCEPT !.cmd = "set_fw"])
           IN  queue' = Enqueue(q2, rec')
     \/ UNCHANGED <<subs, rec, queue>>
  /\ pc' = "errors"
  /\ UNCHANGED <<wifi, evt, client, broken, main, sent>>

\* sys_aws_send_error_code yields after each code it sends.
ErrorsSent ==
  /\ pc = "errors"
  /\ pc' = "jobs"
  /\ UNCHANGED <<wifi, evt, session, rec, queue, main, sent>>

\* sys_aws_jobs_init; the yield at its end is taken with the loop's.
JobsInit ==
  /\ pc = "jobs"
  /\ Subscribed("jobs") \/ UNCHANGED subs
  /\ pc' = "yield"
  /\ UNCHANGED <<wifi, evt, client, broken, rec, queue, main, sent>>

-----------------------------------------------------------------------------
(* The client, in its yields.                                              *)

\* An update of the shadow made elsewhere, or the answer to "get_tare":
\* m_shadow_scale_tare_callback reports the value it takes.
TareReceived ==
  /\ pc \in Yielding /\ Works /\ "delta" \in subs
  /\ Trigger("set_tare")
  /\ UNCHANGED <<wifi, evt, session, pc, main, sent>>

\* A failing read or a missing answer to a ping.  The disconnect handler tries
\* to connect again, but whatever comes of it, DISCONNECTED_ERROR is written
\* over the client's state when it returns.
LossNoticed ==
  /\ pc \in Yielding /\ client = "connected" /\ broken
  /\ client' = "error" /\ broken' = FALSE
  /\ UNCHANGED <<wifi, evt, subs, pc, rec, queue, main, sent>>

\* PENDING_RECONNECT is tried again in every turn of a yield; the topics with
\* a handler are subscribed to again.
PendingConnects ==
  /\ pc \in Yielding /\ client = "pending" /\ wifi
  /\ client' = "connected"
  /\ UNCHANGED <<wifi, evt, broken, subs, pc, rec, queue, main, sent>>

\* The yields and waits of the loop end after their time.
YieldEnds ==
  /\ \/ pc = "yield" /\ pc' = "serve"
     \/ pc = "answer" /\ pc' = "check"
  /\ UNCHANGED <<wifi, evt, session, rec, queue, main, sent>>

-----------------------------------------------------------------------------
(* The loop of m_sys_aws_task.                                             *)

\* The first use of a shadow waits for its subscriptions, and the quality of
\* service of a publication is never set: with QOS1 it waits for the answer.
Sends == pc' \in {"check", "answer"}

\* sys_aws_mqtt_publish, sys_aws_shadow_update with its yield of 200 ms and
\* sys_aws_shadow_get; their results are ignored.
Publish(service)      == service.type = "mqtt" /\ sent' = Append(sent, service.noti)
ShadowUpdate(service) == service.type = "shadow" /\ service.cmd # "get_tare" /\ UNCHANGED sent
ShadowGet(service)    == service.type = "shadow" /\ service.cmd = "get_tare" /\ UNCHANGED sent

\* Mutation: what is handled is the shared record, not the copy received.
Serve_SharedRecord ==
  /\ pc = "serve" /\ client = "connected" /\ queue # <<>>
  /\ queue' = Tail(queue)
  /\ Publish(rec) \/ ShadowUpdate(rec) \/ ShadowGet(rec)
  /\ Sends
  /\ UNCHANGED <<wifi, evt, session, rec, main>>

\* One service in every turn, and only while the client is connected
Serve ==
  /\ pc = "serve" /\ client = "connected" /\ queue # <<>>
  /\ queue' = Tail(queue)
  /\ LET service == Head(queue)
     IN  Publish(service) \/ ShadowUpdate(service) \/ ShadowGet(service)
  /\ Sends
  /\ UNCHANGED <<wifi, evt, session, rec, main>>

\* Nothing came in 100 ms, or the client is not connected (1 s).
ServeNothing ==
  /\ pc = "serve" /\ (queue = <<>> \/ client # "connected")
  /\ pc' = "check"
  /\ UNCHANGED <<wifi, evt, session, rec, queue, main, sent>>

\* Mutation: the loop waits for the event.
Check_Waits ==
  /\ pc = "check" /\ evt
  /\ evt' = FALSE
  /\ \/ client = "connected" /\ UNCHANGED client
     \/ client # "connected" /\ wifi /\ client' = "connected"
     \/ client # "connected" /\ client' = "pending"
  /\ pc' = "yield"
  /\ UNCHANGED <<wifi, broken, subs, rec, queue, main, sent>>

\* Mutation: a failing attempt is not kept as pending.
Check_NotPending ==
  /\ pc = "check"
  /\ evt' = FALSE
  /\ \/ (evt => client = "connected") /\ UNCHANGED client
     \/ evt /\ client # "connected" /\ wifi /\ client' = "connected"
     \/ evt /\ client # "connected" /\ client' = "error"
  /\ pc' = "yield"
  /\ UNCHANGED <<wifi, broken, subs, rec, queue, main, sent>>

\* The event is taken; sys_aws_reconnect_manual does nothing for a client that
\* believes itself connected, and leaves a failing attempt pending.
Check ==
  /\ pc = "check"
  /\ evt' = FALSE
  /\ \/ (evt => client = "connected") /\ UNCHANGED client
     \/ evt /\ client # "connected" /\ wifi /\ client' = "connected"
     \/ evt /\ client # "connected" /\ client' = "pending"
  /\ pc' = "yield"
  /\ UNCHANGED <<wifi, broken, subs, rec, queue, main, sent>>

-----------------------------------------------------------------------------
Task  == \/ Connect \/ Subscribe \/ ShadowInit \/ ErrorsSent \/ JobsInit
         \/ YieldEnds \/ Serve \/ ServeNothing \/ Check
Reads == TareReceived \/ LossNoticed \/ PendingConnects
Main  == FillNoti \/ FillType \/ SendNoti
World == GotIp \/ StaDisconnected \/ SessionBreaks

Next == Task \/ Reads \/ Main \/ World

Spec == Init /\ [][Next]_vars

\* The task goes on, the client notices in the end, and an attempt repeated
\* over and over while there is an address succeeds.
LiveSpec == /\ Spec
            /\ WF_vars(Task) /\ SF_vars(LossNoticed)
            /\ SF_vars(PendingConnects)

-----------------------------------------------------------------------------
(* Properties.                                                             *)

\* Though the two tasks share one record, the AWS task may change it before it
\* is copied, and the queue may be full: no notification is published twice or
\* after a newer one.
PublishedInOrder == \A i, j \in DOMAIN sent : i < j => sent[i] < sent[j]

\* A notification in the queue gets its turn as long as the client is
\* connected, however many deltas come in.
Queued(n) == \E i \in DOMAIN queue : queue[i].type = "mqtt" /\ queue[i].noti = n

Sent(n)   == \E i \in DOMAIN sent : sent[i] = n

NotiServed == \A n \in Noti : Queued(n) ~> (Sent(n) \/ client # "connected")

\* An address acquired after the client noticed its loss brings it back, also
\* when the first attempt fails.
AddressReconnects ==
  <>[]wifi => [](evt /\ client # "connected" => <>(client = "connected"))

-----------------------------------------------------------------------------
(* What a comment of the code says and the code does not do.               *)

\* sys_aws.c:308 "Enable auto reconnect": a client that was connected does not
\* stay without a session for ever while the station has its address.
Reconnects ==
  <>[]wifi /\ <>(client = "connected") => []<>(client = "connected")
=============================================================================
