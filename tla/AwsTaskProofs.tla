---------------------------- MODULE AwsTaskProofs ----------------------------
(***************************************************************************)
(* Proofs about AwsTask, for a queue of any length and any number of       *)
(* notifications: the tasks that share the service record publish every    *)
(* notification at most once and in the order of their sending.            *)
(***************************************************************************)
EXTENDS AwsTask, Integers, TLAPS

\* The number of notifications the main loop has finished sending
Finished == IF main = "delay" THEN rec.noti ELSE rec.noti - 1

\* The notifications of q are among 1..n, in order, and newer than those of s.
Ordered(q, s, n) ==
  /\ \A i \in 1..Len(q) : q[i].type = "mqtt" =>
       /\ q[i].noti \in 1..n
       /\ \A k \in 1..Len(s) : s[k] < q[i].noti
  /\ \A i, j \in 1..Len(q) :
       i < j /\ q[i].type = "mqtt" /\ q[j].type = "mqtt" => q[i].noti < q[j].noti

\* What is published is old, what is queued is newer, and a notification under
\* way is the newest: neither task can bring an old number back.
OrderInv ==
  /\ main # "delay" => rec.noti >= 1
  /\ Ordered(queue, sent, Finished)
  /\ \A k \in 1..Len(sent) : sent[k] <= Finished
  /\ \A i, j \in 1..Len(sent) : i < j => sent[i] < sent[j]

Inv == TypeOK /\ OrderInv

-----------------------------------------------------------------------------
(* The queue.                                                              *)

\* xQueueSend adds the record at the end or leaves the queue as it is
\* (sys_aws_mqtt.c:85, sys_aws_shadow.c:124).
LEMMA Enqueued ==
  ASSUME NEW q \in Seq(Service), Len(q) <= Cap, NEW s \in Service
  PROVE  /\ Enqueue(q, s) \in Seq(Service)
         /\ Len(Enqueue(q, s)) <= Cap
         /\ \A i \in 1..Len(Enqueue(q, s)) :
              \/ i \in 1..Len(q) /\ Enqueue(q, s)[i] = q[i]
              \/ i = Len(q) + 1 /\ Enqueue(q, s)[i] = s
BY TaskAssumption DEF Enqueue

\* A command of the shadow leaves the notifications in the queue as they are.
LEMMA ShadowEnqueued ==
  ASSUME NEW q \in Seq(Service), Len(q) <= Cap,
         NEW s \in Service, s.type = "shadow",
         NEW t, NEW n, Ordered(q, t, n)
  PROVE  Ordered(Enqueue(q, s), t, n)
<1> DEFINE r == Enqueue(q, s)
<1>1. \A i \in 1..Len(r) : r[i].type = "mqtt" => i \in 1..Len(q) /\ r[i] = q[i]
  BY Enqueued
<1> HIDE DEF r
<1>2. Ordered(r, t, n)
  BY <1>1 DEF Ordered
<1> QED BY <1>2 DEF r

\* The newest notification goes behind all others.
LEMMA NotiEnqueued ==
  ASSUME NEW q \in Seq(Service), Len(q) <= Cap,
         NEW s \in Service, s.noti >= 1,
         NEW t \in Seq(Noti), \A k \in 1..Len(t) : t[k] <= s.noti - 1,
         Ordered(q, t, s.noti - 1)
  PROVE  Ordered(Enqueue(q, s), t, s.noti)
<1> DEFINE r == Enqueue(q, s)
<1>1. /\ r \in Seq(Service)
      /\ \A i \in 1..Len(r) : \/ i \in 1..Len(q) /\ r[i] = q[i]
                              \/ i = Len(q) + 1 /\ r[i] = s
  BY Enqueued
<1> HIDE DEF r
<1>2. s.noti \in Nat /\ Len(q) \in Nat /\ \A k \in 1..Len(t) : t[k] \in Nat
  BY TaskAssumption DEF Service, Noti
<1>3. \A i \in 1..Len(q) : q[i].type = "mqtt" =>
        /\ q[i].noti \in 1..(s.noti - 1)
        /\ \A k \in 1..Len(t) : t[k] < q[i].noti
  BY DEF Ordered
<1>4. \A i \in 1..Len(r) : r[i].type = "mqtt" =>
        /\ r[i].noti \in 1..s.noti
        /\ \A k \in 1..Len(t) : t[k] < r[i].noti
  BY <1>1, <1>2, <1>3
<1>5. ASSUME NEW i \in 1..Len(r), NEW j \in 1..Len(r), i < j,
             r[i].type = "mqtt", r[j].type = "mqtt"
      PROVE  r[i].noti < r[j].noti
  <2>1. i \in 1..Len(q) /\ r[i] = q[i]
    BY <1>1, <1>2, <1>5
  <2>2. CASE j \in 1..Len(q) /\ r[j] = q[j]
    BY <1>5, <2>1, <2>2 DEF Ordered
  <2>3. CASE r[j] = s
    BY <1>2, <1>3, <1>5, <2>1, <2>3
  <2> QED BY <1>1, <2>2, <2>3
<1>6. Ordered(r, t, s.noti)
  BY <1>4, <1>5 DEF Ordered
<1> QED BY <1>6 DEF r

\* Taking the first service leaves the others in order, and newer.
LEMMA Taken ==
  ASSUME NEW q \in Seq(Service), q # <<>>, NEW t, NEW n, Ordered(q, t, n)
  PROVE  /\ Ordered(Tail(q), t, n)
         /\ \A i \in 1..Len(Tail(q)) :
              Tail(q)[i].type = "mqtt" /\ Head(q).type = "mqtt"
                => Head(q).noti < Tail(q)[i].noti
<1> DEFINE r == Tail(q)
<1>1. /\ \A i \in 1..Len(r) : i + 1 \in 1..Len(q) /\ r[i] = q[i + 1] /\ 1 < i + 1
      /\ 1 \in 1..Len(q) /\ Head(q) = q[1]
      /\ \A i, j \in 1..Len(r) : i < j => i + 1 < j + 1
  OBVIOUS
<1> HIDE DEF r
<1>2. ASSUME NEW i \in 1..Len(r), r[i].type = "mqtt"
      PROVE  /\ r[i].noti \in 1..n
             /\ \A k \in 1..Len(t) : t[k] < r[i].noti
             /\ Head(q).type = "mqtt" => Head(q).noti < r[i].noti
  <2>1. i + 1 \in 1..Len(q) /\ r[i] = q[i + 1] /\ 1 < i + 1
    BY <1>1
  <2> QED BY <1>1, <1>2, <2>1 DEF Ordered
<1>3. ASSUME NEW i \in 1..Len(r), NEW j \in 1..Len(r), i < j,
             r[i].type = "mqtt", r[j].type = "mqtt"
      PROVE  r[i].noti < r[j].noti
  <2>1. /\ i + 1 \in 1..Len(q) /\ r[i] = q[i + 1]
        /\ j + 1 \in 1..Len(q) /\ r[j] = q[j + 1]
        /\ i + 1 < j + 1
    BY <1>1, <1>3
  <2> QED BY <1>3, <2>1 DEF Ordered
<1>4. Ordered(r, t, n)
  BY <1>2, <1>3 DEF Ordered
<1> QED BY <1>2, <1>4 DEF r

-----------------------------------------------------------------------------
(* The invariant.                                                          *)

LEMMA Initially == Init => Inv
<1> SUFFICES ASSUME Init PROVE Inv
  OBVIOUS
<1>1. /\ queue = <<>> /\ Len(queue) = 0 /\ queue \in Seq(Service)
      /\ sent = <<>> /\ Len(sent) = 0 /\ sent \in Seq(Noti)
  BY DEF Init
<1>2. rec \in Service
  BY TaskAssumption DEF Init, Service, Command
<1>3. TypeOK
  <2>1. Len(queue) <= Cap /\ subs \in SUBSET Topic
    BY <1>1, TaskAssumption DEF Init
  <2> QED BY <1>1, <1>2, <2>1 DEF Init, TypeOK
<1>4. OrderInv
  BY <1>1 DEF Init, OrderInv, Ordered, Finished
<1> QED BY <1>3, <1>4 DEF Inv

\* Steps that leave the record, the queue and the notifications alone
LEMMA Elsewhere ==
  ASSUME Inv, UNCHANGED <<rec, queue, main, sent>>, TypeOK'
  PROVE  Inv'
BY DEF Inv, OrderInv, Ordered, Finished

\* Commands of the shadow put into the queue by the AWS task, which may come
\* between any two steps of the main loop
LEMMA Commanded ==
  ASSUME Inv, UNCHANGED <<main, sent>>,
         rec' \in Service, rec'.noti = rec.noti,
         queue' \in Seq(Service), Len(queue') <= Cap,
         Ordered(queue', sent, Finished), TypeOK'
  PROVE  Inv'
BY DEF Inv, OrderInv, Finished

LEMMA Stepwise == Inv /\ [Next]_vars => Inv'
<1> SUFFICES ASSUME Inv, [Next]_vars PROVE Inv'
  OBVIOUS
<1> USE TaskAssumption
<1> DEFINE Quiet == \/ GotIp \/ StaDisconnected \/ SessionBreaks \/ Connect
                    \/ Subscribe \/ ErrorsSent \/ JobsInit \/ LossNoticed
                    \/ PendingConnects \/ YieldEnds \/ ServeNothing \/ Check
<1>1. CASE Quiet
  <2>1. UNCHANGED <<rec, queue, main, sent>>
    BY <1>1 DEF GotIp, StaDisconnected, SessionBreaks, Connect, Subscribe,
       ErrorsSent, JobsInit, LossNoticed, PendingConnects, YieldEnds,
       ServeNothing, Check
  <2>2. subs' \in SUBSET Topic
    BY <1>1 DEF Inv, TypeOK, GotIp, StaDisconnected, SessionBreaks, Connect,
       Subscribe, ErrorsSent, JobsInit, LossNoticed, PendingConnects, YieldEnds,
       ServeNothing, Check, Subscribed, session, Topic
  <2>3. wifi' \in BOOLEAN /\ evt' \in BOOLEAN /\ broken' \in BOOLEAN
    BY <1>1 DEF Inv, TypeOK, GotIp, StaDisconnected, SessionBreaks, Connect,
       Subscribe, ErrorsSent, JobsInit, LossNoticed, PendingConnects, YieldEnds,
       ServeNothing, Check, session
  <2>4. /\ client' \in {"init", "connected", "error", "pending"}
        /\ pc' \in {"connect", "subscribe", "shadow", "jobs", "serve", "check"} \cup Yielding
    BY <1>1 DEF Inv, TypeOK, GotIp, StaDisconnected, SessionBreaks, Connect,
       Subscribe, ErrorsSent, JobsInit, LossNoticed, PendingConnects, YieldEnds,
       ServeNothing, Check, session, Yielding
  <2>5. TypeOK'
    BY <2>1, <2>2, <2>3, <2>4 DEF Inv, TypeOK
  <2> QED BY <2>1, <2>5, Elsewhere
<1>2. CASE FillNoti
  <2>1. rec' \in Service /\ rec'.noti = rec.noti + 1
    BY <1>2 DEF FillNoti, Inv, TypeOK, Service
  <2>2. TypeOK'
    BY <1>2, <2>1 DEF FillNoti, Inv, TypeOK, session
  <2>3. rec.noti \in Nat
    BY DEF Inv, TypeOK, Service
  <2>4. main = "delay" /\ main' = "filled"
    BY <1>2 DEF FillNoti
  <2>5. Finished' = Finished /\ rec'.noti >= 1
    BY <2>1, <2>3, <2>4 DEF Finished
  <2> QED BY <1>2, <2>2, <2>5 DEF FillNoti, Inv, OrderInv, Ordered
<1>3. CASE FillType
  <2>1. rec' \in Service /\ rec'.noti = rec.noti
    BY <1>3 DEF FillType, Inv, TypeOK, Service
  <2>2. TypeOK'
    BY <1>3, <2>1 DEF FillType, Inv, TypeOK, session
  <2>3. Finished' = Finished /\ rec'.noti >= 1
    BY <1>3, <2>1 DEF FillType, Finished, Inv, TypeOK, OrderInv, Service
  <2> QED BY <1>3, <2>2, <2>3 DEF FillType, Inv, OrderInv, Ordered
<1>4. CASE SendNoti
  <2>1. /\ main = "typed" /\ main' = "delay" /\ queue' = Enqueue(queue, rec)
        /\ UNCHANGED <<wifi, evt, session, pc, rec, sent>>
    BY <1>4 DEF SendNoti
  <2>2. /\ queue \in Seq(Service) /\ Len(queue) <= Cap
        /\ rec \in Service /\ rec.noti \in Nat /\ sent \in Seq(Noti)
    BY DEF Inv, TypeOK, Service
  <2>3. TypeOK'
    BY <2>1, <2>2, Enqueued DEF Inv, TypeOK, session
  <2>4. /\ rec.noti >= 1
        /\ \A k \in 1..Len(sent) : sent[k] <= rec.noti - 1
        /\ Ordered(queue, sent, rec.noti - 1)
    BY <2>1 DEF Inv, OrderInv, Finished
  <2>5. Ordered(queue', sent, rec.noti)
    BY <2>1, <2>2, <2>4, NotiEnqueued
  <2>6. Finished' = rec.noti /\ \A k \in 1..Len(sent) : sent[k] <= rec.noti
    <3>1. \A k \in 1..Len(sent) : sent[k] \in Int
      BY <2>2 DEF Noti
    <3> QED BY <3>1, <2>1, <2>2, <2>4 DEF Finished
  <2> QED BY <2>1, <2>3, <2>5, <2>6 DEF Inv, OrderInv
<1>5. CASE ShadowInit
  <2>1. CASE UNCHANGED <<subs, rec, queue>>
    BY <1>5, <2>1, Elsewhere DEF ShadowInit, Inv, TypeOK, session, Yielding
  <2>2. CASE Subscribed("delta") /\ ~UNCHANGED <<subs, rec, queue>>
    <3> DEFINE c1 == [rec' EXCEPT !.cmd = "get_tare"]
               c2 == [rec' EXCEPT !.cmd = "set_fw"]
               q1 == Enqueue(queue, c1)
               q2 == Enqueue(q1, c2)
    <3>1. /\ rec' = [rec EXCEPT !.type = "shadow", !.cmd = "set_tare"]
          /\ queue' = Enqueue(q2, rec')
          /\ pc' = "errors" /\ UNCHANGED <<wifi, evt, client, broken, main, sent>>
      BY <1>5, <2>2 DEF ShadowInit
    <3>2. /\ rec' \in Service /\ rec'.noti = rec.noti /\ rec'.type = "shadow"
          /\ c1 \in Service /\ c1.type = "shadow"
          /\ c2 \in Service /\ c2.type = "shadow"
      BY <3>1 DEF Inv, TypeOK, Service, Command
    <3> HIDE DEF c1, c2
    <3>3. q1 \in Seq(Service) /\ Len(q1) <= Cap /\ Ordered(q1, sent, Finished)
      BY <3>2, Enqueued, ShadowEnqueued DEF Inv, TypeOK, OrderInv
    <3> HIDE DEF q1
    <3>4. q2 \in Seq(Service) /\ Len(q2) <= Cap /\ Ordered(q2, sent, Finished)
      BY <3>2, <3>3, Enqueued, ShadowEnqueued
    <3> HIDE DEF q2
    <3>5. queue' \in Seq(Service) /\ Len(queue') <= Cap /\ Ordered(queue', sent, Finished)
      BY <3>1, <3>2, <3>4, Enqueued, ShadowEnqueued
    <3>6. TypeOK'
      BY <2>2, <3>1, <3>2, <3>5 DEF Inv, TypeOK, Subscribed, Topic, Yielding
    <3> QED BY <3>1, <3>2, <3>5, <3>6, Commanded
  <2> QED BY <1>5, <2>1, <2>2 DEF ShadowInit
<1>6. CASE TareReceived
  <2>1. /\ rec' = [rec EXCEPT !.type = "shadow", !.cmd = "set_tare"]
        /\ queue' = Enqueue(queue, rec')
        /\ UNCHANGED <<wifi, evt, session, pc, main, sent>>
    BY <1>6 DEF TareReceived, Trigger
  <2>2. rec' \in Service /\ rec'.noti = rec.noti /\ rec'.type = "shadow"
    BY <2>1 DEF Inv, TypeOK, Service, Command
  <2>3. queue' \in Seq(Service) /\ Len(queue') <= Cap /\ Ordered(queue', sent, Finished)
    BY <2>1, <2>2, Enqueued, ShadowEnqueued DEF Inv, TypeOK, OrderInv
  <2>4. TypeOK'
    BY <2>1, <2>2, <2>3 DEF Inv, TypeOK, session
  <2> QED BY <2>1, <2>2, <2>3, <2>4, Commanded
<1>7. CASE Serve
  <2> DEFINE service == Head(queue)
  <2>1. /\ queue # <<>> /\ queue' = Tail(queue)
        /\ UNCHANGED <<wifi, evt, session, rec, main>>
        /\ \/ service.type = "mqtt" /\ sent' = Append(sent, service.noti)
           \/ service.type # "mqtt" /\ UNCHANGED sent
        /\ pc' \in {"check", "answer"}
    BY <1>7 DEF Serve, Publish, ShadowUpdate, ShadowGet, Sends
  <2>2. /\ queue \in Seq(Service) /\ Len(queue) <= Cap /\ sent \in Seq(Noti)
        /\ rec \in Service /\ rec.noti \in 0..MaxNoti /\ Finished \in Int
        /\ Finished <= MaxNoti
    BY DEF Inv, TypeOK, Service, Finished
  <2>3. /\ queue' \in Seq(Service) /\ Len(queue') = Len(queue) - 1
        /\ service = queue[1] /\ 1 \in 1..Len(queue)
    BY <2>1, <2>2
  <2>4. Finished' = Finished
    BY <2>1 DEF Finished
  <2>5. /\ Ordered(queue, sent, Finished)
        /\ \A k \in 1..Len(sent) : sent[k] <= Finished
        /\ \A i, j \in 1..Len(sent) : i < j => sent[i] < sent[j]
    BY DEF Inv, OrderInv
  <2> HIDE DEF service
  <2>6. CASE service.type # "mqtt"
    <3>1. Ordered(queue', sent, Finished)
      BY <2>1, <2>2, <2>5, Taken
    <3>2. TypeOK'
      BY <2>1, <2>2, <2>3, <2>6 DEF Inv, TypeOK, session, Yielding
    <3> QED BY <2>1, <2>4, <2>6, <3>1, <3>2 DEF Inv, OrderInv
  <2>7. CASE service.type = "mqtt"
    <3>1. sent' = Append(sent, service.noti)
      BY <2>1, <2>7
    <3>2. /\ service.noti \in 1..Finished /\ service.noti \in Noti
          /\ \A k \in 1..Len(sent) : sent[k] < service.noti
      BY <2>2, <2>3, <2>5, <2>7 DEF Ordered, Noti
    <3>3. /\ Ordered(queue', sent, Finished)
          /\ \A i \in 1..Len(queue') :
               queue'[i].type = "mqtt" => service.noti < queue'[i].noti
      BY <2>1, <2>2, <2>5, <2>7, Taken DEF service
    <3>4. /\ sent' \in Seq(Noti) /\ Len(sent') = Len(sent) + 1
          /\ \A k \in 1..Len(sent') : \/ k \in 1..Len(sent) /\ sent'[k] = sent[k]
                                      \/ k = Len(sent) + 1 /\ sent'[k] = service.noti
      BY <2>2, <3>1, <3>2
    <3>5. TypeOK'
      BY <2>1, <2>2, <2>3, <3>1, <3>4 DEF Inv, TypeOK, session, Yielding
    <3>6. \A k \in 1..Len(sent') : sent'[k] <= Finished
      BY <2>5, <3>2, <3>4
    <3>7. \A i, j \in 1..Len(sent') : i < j => sent'[i] < sent'[j]
      BY <2>2, <2>5, <3>2, <3>4
    <3>8. Ordered(queue', sent', Finished)
      BY <3>4, <3>3 DEF Ordered
    <3> QED BY <2>1, <2>4, <3>5, <3>6, <3>7, <3>8 DEF Inv, OrderInv
  <2> QED BY <2>6, <2>7
<1>8. CASE UNCHANGED vars
  BY <1>8 DEF vars, session, Inv, TypeOK, OrderInv, Ordered, Finished
<1> QED BY <1>1, <1>2, <1>3, <1>4, <1>5, <1>6, <1>7, <1>8
        DEF Next, Task, Reads, Main, World

LEMMA Invariantly == Spec => []Inv
BY Initially, Stepwise, PTL DEF Spec

-----------------------------------------------------------------------------
(* Theorems.                                                               *)

\* Every reachable state of the AWS task is well typed; in particular the queue
\* never holds more than its capacity, though nobody looks at the result of a
\* send.
THEOREM TypeCorrect == Spec => []TypeOK
<1>1. Inv => TypeOK
  BY DEF Inv
<1> QED BY <1>1, Invariantly, PTL

\* However the two tasks interleave over their shared record, and whatever the
\* queue has no room for, notifications are published at most once each and in
\* the order of their sending.
THEOREM NoDuplicates == Spec => []PublishedInOrder
<1>1. Inv => PublishedInOrder
  BY DEF Inv, TypeOK, OrderInv, PublishedInOrder
<1> QED BY <1>1, Invariantly, PTL
=============================================================================
