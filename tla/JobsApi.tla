------------------------------- MODULE JobsApi -------------------------------
(***************************************************************************)
(* The requests a thing makes of AWS IoT Jobs and the answers it gets: the *)
(* functions of aws_iot_jobs_interface.c, the documents they print into a  *)
(* buffer of the caller (aws_iot_jobs_json.c), and sys_aws_job.h, which    *)
(* subscribes for the firmware.  A document is printed fragment by         *)
(* fragment, as the code does; of a fragment the model keeps what it says  *)
(* and how long it is.                                                     *)
(***************************************************************************)
EXTENDS JobTopics, FiniteSets

CONSTANTS
  TooLong,   \* job ids with which no topic fits its buffer
  Requests,  \* what callers ask for
  Sizes,     \* sizes of the message buffers of callers
  Others,    \* subscriptions made besides those of the firmware
  MaxOthers, \* bound: how many of them at a time
  Absent     \* a pointer of NULL

Fields == {"status", "statusDetails", "executionNumber", "expectedVersion",
           "includeJobExecutionState", "includeJobDocument", "clientToken"}

\* AwsIotJobExecutionUpdateRequest and the other requests
FieldsOf ==
  [UPDATE     |-> Fields,
   DESCRIBE   |-> {"executionNumber", "includeJobDocument", "clientToken"},
   START_NEXT |-> {"statusDetails", "clientToken"}, GET_PENDING |-> {"clientToken"}]

Status == {"QUEUED", "IN_PROGRESS", "FAILED", "SUCCEEDED", "CANCELED", "REJECTED"}

\* The value of a field: a flag that is set, or how long the text is.
ValueOf(k) ==
  CASE k = "status" -> Status \cup {"NOT_SET", "UNKNOWN"}
    [] k \in {"includeJobExecutionState", "includeJobDocument"} -> {TRUE}
    [] OTHER -> Nat

\* A request has a value for each of its fields, or none; an update has a status.
ASSUME JobsAssumption ==
  /\ TooLong \subseteq Jobs
  /\ \A r \in Requests :
       /\ r.type \in DOMAIN FieldsOf
       /\ r.job \in JobId \cup {NoJob}
       /\ DOMAIN r.fields \subseteq FieldsOf[r.type] /\ r.null \in BOOLEAN
       /\ r.type = "UPDATE" => "status" \in DOMAIN r.fields
       /\ \A k \in DOMAIN r.fields : r.fields[k] \in ValueOf(k)
  /\ Absent \notin Status
  /\ Sizes \subseteq Nat
  /\ MaxOthers \in Nat
  /\ Others \subseteq [type : TopicType, reply : ReplyType, job : JobId \cup {NoJob}]

VARIABLES
  pc,      \* where the caller is
  call,    \* the request being made
  todo,    \* fragments of its document still to print
  total,   \* _SerializeState: totalSize
  room,    \* remaingSize
  gone,    \* nextPtr is NULL
  text,    \* the fragments that are whole in the buffer
  subs,    \* the subscriptions the client has a handler for
  step,    \* how far sys_aws_jobs_init has come
  sent,    \* the request on its way to AWS
  answer   \* the message on its way to the thing

document == <<todo, total, room, gone, text>>
vars     == <<pc, call, document, subs, step, sent, answer>>

-----------------------------------------------------------------------------
(* Job states.                                                             *)

\* aws_iot_jobs_map_status_to_string
StatusString(status) == IF status \in Status THEN status ELSE Absent

\* aws_iot_jobs_map_string_to_job_status
StatusOf(string) ==
  CASE string = Absent -> "NOT_SET" [] string \in Status -> string [] OTHER -> "UNKNOWN"

-----------------------------------------------------------------------------
(* Documents.                                                              *)

KeyLength ==
  [status |-> 6, statusDetails |-> 13, executionNumber |-> 15, expectedVersion |-> 15,
   includeJobExecutionState |-> 24, includeJobDocument |-> 18, clientToken |-> 11]

StatusLength ==
  [QUEUED |-> 6, IN_PROGRESS |-> 11, FAILED |-> 6, SUCCEEDED |-> 9, CANCELED |-> 8, REJECTED |-> 8]

\* _printKey: "{" or a comma, two quotation marks and a colon
Key(first, k) == [says |-> IF first THEN "{" ELSE ",", what |-> k, len |-> KeyLength[k] + 4]

\* _printStringValue, _printLongValue, _printBooleanValue, and details as they are
Value(k, v) ==
  [says |-> k, what |-> IF k = "status" THEN v ELSE "value",
   len |-> CASE k = "status" -> StatusLength[v] + 2
             [] k = "clientToken" -> v + 2
             [] k \in {"includeJobExecutionState", "includeJobDocument"} -> 4
             [] OTHER -> v]

Open  == [says |-> "{", what |-> "none", len |-> 1]
Close == [says |-> "}", what |-> "none", len |-> 1]

\* What has been printed, and behind it a field, with its key, if it is set
With(t, k, fields) ==
  IF k \in DOMAIN fields THEN t \o <<Key(t = <<>>, k), Value(k, fields[k])>> ELSE t

\* aws_iot_jobs_json_serialize_update_job_execution_request
UpdateDocument(fields) ==
  LET state    == With(<<>>, "status", [fields EXCEPT !.status = StatusString(@)])
      details  == With(state, "statusDetails", fields)
      number   == With(details, "executionNumber", fields)
      version  == With(number, "expectedVersion", fields)
      include  == With(version, "includeJobExecutionState", fields)
      job      == With(include, "includeJobDocument", fields)
  IN  With(job, "clientToken", fields) \o <<Close>>

\* aws_iot_jobs_json_serialize_client_token_only_request
TokenDocument(fields) == With(<<>>, "clientToken", fields) \o <<Close>>

\* aws_iot_jobs_json_serialize_describe_job_execution_request: without any
\* field it prints no opening brace.
DescribeDocument(fields) ==
  LET token  == With(<<>>, "clientToken", fields)
      number == With(token, "executionNumber", fields)
  IN  With(number, "includeJobDocument", fields) \o <<Close>>

\* aws_iot_jobs_json_serialize_start_next_job_execution_request
StartNextDocument(fields) ==
  LET both == With(With(<<>>, "statusDetails", fields), "clientToken", fields)
  IN  (IF DOMAIN fields = {} THEN <<Open>> ELSE both) \o <<Close>>

Document(r) ==
  CASE r.type = "UPDATE"      -> UpdateDocument(r.fields)
    [] r.type = "GET_PENDING" -> TokenDocument(r.fields)
    [] r.type = "DESCRIBE"    -> DescribeDocument(r.fields)
    [] r.type = "START_NEXT"  -> StartNextDocument(r.fields)

\* What a document consists of
Fragment == [says : {"{", ",", "}"} \cup Fields, what : {"none", "value"} \cup Fields \cup Status,
             len : Nat]

\* No document is printed: aws_iot_jobs_describe without a buffer and
\* aws_iot_jobs_send_query without a token
Empty(r) ==
  \/ r.type = "DESCRIBE" /\ r.null
  \/ r.type = "GET_PENDING" /\ "clientToken" \notin DOMAIN r.fields

\* The checks of aws_iot_jobs_send_query, _start_next, _describe and _send_update;
\* a call that fails one of them returns an error and does nothing.
Fits(topic) == topic # Refused /\ \A i \in DOMAIN topic : topic[i] \notin TooLong

Checked(r) ==
  /\ Fits(ApiTopic(r.type, "REQUEST", r.job))
  /\ r.type = "UPDATE" => StatusString(r.fields.status) # Absent
  /\ r.type = "GET_PENDING" /\ r.null => Empty(r)

-----------------------------------------------------------------------------
Subscription == [type : TopicType, reply : ReplyType, job : JobId \cup {NoJob}, firmware : BOOLEAN]

\* Types of messages that AWS sends
Answered == {"UPDATE", "DESCRIBE", "START_NEXT", "GET_PENDING", "NOTIFY", "NOTIFY_NEXT"}

NoCall    == [type |-> "none"]
NoMessage == [type |-> "none"]

TypeOK ==
  /\ pc \in {"idle", "print"}
  /\ call = NoCall \/ (call.size \in Sizes /\ \E r \in Requests : call.request = r)
  /\ todo \in Seq(Fragment) /\ text \in Seq(Fragment)
  /\ total \in Nat /\ room \in Nat /\ gone \in BOOLEAN
  /\ subs \subseteq Subscription
  /\ step \in 1..7
  /\ sent.type \in {"none"} \cup Answered /\ answer.type \in {"none"} \cup Answered

Init ==
  /\ pc = "idle" /\ call = NoCall
  /\ todo = <<>> /\ total = 0 /\ room = 0 /\ gone = TRUE /\ text = <<>>
  /\ subs = {} /\ step = 1
  /\ sent = NoMessage /\ answer = NoMessage

-----------------------------------------------------------------------------
(* Subscriptions.                                                          *)

\* aws_iot_jobs_subscribe_to_job_messages, when it succeeds
Subscribe(s) ==
  /\ Fits(ApiTopic(s.type, s.reply, s.job))
  /\ subs' = subs \cup {s}

\* The subscriptions of sys_aws_jobs_init, in their order
InitSubscriptions ==
  LET Own(type, reply, job) == [type |-> type, reply |-> reply, job |-> job, firmware |-> TRUE]
  IN  <<Own("NOTIFY_NEXT", "REQUEST", NoJob), Own("DESCRIBE", "WILDCARD", "$next"),
        Own("UPDATE", "ACCEPTED", "+"), Own("UPDATE", "REJECTED", "+")>>

Describing == Len(InitSubscriptions) + 1
InitDone   == Describing + 1
InitFailed == InitDone + 1

\* The first subscription that fails ends sys_aws_jobs_init.  The SDK keeps
\* pointers to its topics, buffers on the stack of the AWS task, into which
\* sys_aws_jobs_init is always inlined and which never returns: they keep their
\* values.
InitSubscribes ==
  /\ pc = "idle" /\ step < Describing
  /\ \/ Subscribe(InitSubscriptions[step]) /\ step' = step + 1
     \/ step' = InitFailed /\ UNCHANGED subs
  /\ UNCHANGED <<pc, call, document, sent, answer>>

\* aws_iot_jobs_subscribe_to_all_job_messages and others of the application
OtherSubscribes ==
  /\ pc = "idle"
  /\ Cardinality({s \in subs : ~s.firmware}) < MaxOthers
  /\ \E o \in Others :
       Subscribe([type |-> o.type, reply |-> o.reply, job |-> o.job, firmware |-> FALSE])
  /\ UNCHANGED <<pc, call, document, step, sent, answer>>

\* aws_iot_jobs_unsubscribe_from_job_messages
OtherUnsubscribes ==
  /\ pc = "idle"
  /\ \E s \in subs : ~s.firmware /\ subs' = subs \ {s}
  /\ UNCHANGED <<pc, call, document, step, sent, answer>>

-----------------------------------------------------------------------------
(* Requests.                                                               *)

\* aws_iot_mqtt_publish with QoS 0
Send(request, doc) ==
  sent' = [type |-> request.type, request |-> request, text |-> doc,
           topic |-> ApiTopic(request.type, "REQUEST", request.job)]

DescribeNext ==
  [type |-> "DESCRIBE", job |-> "$next", null |-> TRUE, fields |-> [includeJobDocument |-> TRUE]]

\* The description of the next job that sys_aws_jobs_init asks for
InitDescribes ==
  /\ pc = "idle" /\ step = Describing /\ sent = NoMessage
  /\ \/ Send(DescribeNext, <<>>) /\ step' = InitDone
     \/ step' = InitFailed /\ UNCHANGED sent
  /\ UNCHANGED <<pc, call, document, subs, answer>>

CallsEmpty ==
  /\ pc = "idle" /\ sent = NoMessage
  /\ \E r \in Requests : Checked(r) /\ Empty(r) /\ Send(r, <<>>)
  /\ UNCHANGED <<pc, call, document, subs, step, answer>>

\* The state of the serializer over the buffer of the caller
Calls ==
  /\ pc = "idle" /\ sent = NoMessage
  /\ \E r \in Requests, z \in Sizes :
       /\ Checked(r) /\ ~Empty(r) /\ (r.null => z = 0)
       /\ call' = [type |-> r.type, request |-> r, size |-> z]
       /\ todo' = Document(r) /\ total' = 0 /\ text' = <<>>
       /\ room' = IF r.null THEN 0 ELSE z
       /\ gone' = r.null
  /\ pc' = "print"
  /\ UNCHANGED <<subs, step, sent, answer>>

\* Mutation: the room left is counted without a look at what fits.
PrintFragment_Unchecked ==
  /\ pc = "print" /\ todo # <<>>
  /\ todo' = Tail(todo)
  /\ total' = total + Head(todo).len
  /\ IF gone THEN UNCHANGED <<room, text>>
     ELSE room' = room - Head(todo).len /\ text' = Append(text, Head(todo))
  /\ UNCHANGED <<pc, call, gone, subs, step, sent, answer>>

\* Mutation: no room is kept for the zero.
PrintFragment_NoZero ==
  /\ pc = "print" /\ todo # <<>>
  /\ todo' = Tail(todo)
  /\ total' = total + Head(todo).len
  /\ IF ~gone /\ room >= Head(todo).len
     THEN room' = room - Head(todo).len /\ text' = Append(text, Head(todo)) /\ UNCHANGED gone
     ELSE room' = 0 /\ gone' = TRUE /\ UNCHANGED text
  /\ UNCHANGED <<pc, call, subs, step, sent, answer>>

\* _printToBuffer: what does not fit, with its zero, ends the writing but not
\* the counting.
PrintFragment ==
  /\ pc = "print" /\ todo # <<>>
  /\ todo' = Tail(todo)
  /\ total' = total + Head(todo).len
  /\ IF gone THEN UNCHANGED <<room, gone, text>>
     ELSE IF room > Head(todo).len
          THEN /\ room' = room - Head(todo).len
               /\ text' = Append(text, Head(todo))
               /\ UNCHANGED gone
          ELSE room' = 0 /\ gone' = TRUE /\ UNCHANGED text
  /\ UNCHANGED <<pc, call, subs, step, sent, answer>>

\* Mutation: a document as long as the buffer is published.
Publishes_OffByOne ==
  /\ pc = "print" /\ todo = <<>>
  /\ pc' = "idle" /\ call' = NoCall
  /\ IF total > call.size THEN UNCHANGED sent ELSE Send(call.request, text)
  /\ todo' = <<>> /\ total' = 0 /\ room' = 0 /\ gone' = TRUE /\ text' = <<>>
  /\ UNCHANGED <<subs, step, answer>>

\* CHECK_GENERATE_STRING_RESULT on the length of the document
Publishes ==
  /\ pc = "print" /\ todo = <<>>
  /\ pc' = "idle" /\ call' = NoCall
  /\ IF total >= call.size THEN UNCHANGED sent ELSE Send(call.request, text)
  /\ todo' = <<>> /\ total' = 0 /\ room' = 0 /\ gone' = TRUE /\ text' = <<>>
  /\ UNCHANGED <<subs, step, answer>>

-----------------------------------------------------------------------------
(* AWS IoT Jobs and the delivery of what it sends.                         *)

\* An answer comes on the topic of the request with one more level.
AwsAnswers ==
  /\ sent # NoMessage /\ answer = NoMessage
  /\ \E reply \in {"ACCEPTED", "REJECTED"} :
       answer' = [type |-> sent.type, reply |-> reply, job |-> sent.request.job,
                  topic |-> sent.topic \o
                    <<"/", IF reply = "ACCEPTED" THEN "accepted" ELSE "rejected">>]
  /\ sent' = NoMessage
  /\ UNCHANGED <<pc, call, document, subs, step>>

AwsNotifies ==
  /\ answer = NoMessage
  /\ \E n \in {<<"NOTIFY", "notify">>, <<"NOTIFY_NEXT", "notify-next">>} :
       answer' = [type |-> n[1], reply |-> "REQUEST", job |-> NoJob,
                  topic |-> <<"$aws", "/", "things", "/", "thing", "/", "jobs", "/", n[2]>>]
  /\ UNCHANGED <<pc, call, document, subs, step, sent>>

Lost ==
  /\ sent # NoMessage
  /\ sent' = NoMessage
  /\ UNCHANGED <<pc, call, document, subs, step, answer>>

\* The handlers _aws_iot_mqtt_internal_deliver_message calls
CalledFor(m) == {s \in subs : Takes(ApiTopic(s.type, s.reply, s.job), m.topic)}

Delivered ==
  /\ pc = "idle" /\ answer # NoMessage
  /\ answer' = NoMessage
  /\ UNCHANGED <<pc, call, document, subs, step, sent>>

Next ==
  \/ InitSubscribes \/ InitDescribes \/ OtherSubscribes \/ OtherUnsubscribes
  \/ CallsEmpty \/ Calls \/ PrintFragment \/ Publishes
  \/ AwsAnswers \/ AwsNotifies \/ Lost \/ Delivered

Spec == Init /\ [][Next]_vars

-----------------------------------------------------------------------------
(* Properties.                                                             *)

\* What AWS reads in a document: the fields named by its keys, and the state
Keys(t)   == {i \in DOMAIN t : t[i].says \in {"{", ","}}
Braced(t) == {i \in DOMAIN t : t[i].says = "{"} = {1} /\ t[Len(t)].says = "}"

Understood(r, t) ==
  /\ Braced(t)
  /\ {t[i].what : i \in Keys(t)} \ {"none"} = DOMAIN r.fields
  /\ \A i \in Keys(t) : t[i].what # "none" => t[i + 1].says = t[i].what
  /\ r.type = "UPDATE" => StatusOf(t[2].what) = r.fields.status

\* A request that is published has the whole document, whatever the size of the
\* buffer, and AWS reads in it what the caller asked for.  The one exception is a
\* description with a buffer and no field, whose document has no opening brace.
WholeRequests ==
  sent # NoMessage /\ ~Empty(sent.request)
    => \/ Understood(sent.request, sent.text)
       \/ sent.type = "DESCRIBE" /\ DOMAIN sent.request.fields = {}

\* The printing never goes past the buffer, with the zero at its end.
WithinBuffer ==
  pc = "print" /\ ~gone => total + room = call.size /\ (total > 0 => room > 0)

\* The messages a subscription is for; the topics of some have no job.
Meant(s, m) ==
  /\ \/ s.type = m.type
     \/ s.type = "WILDCARD" /\ (s.job # NoJob => m.type \in {"UPDATE", "DESCRIBE"})
  /\ m.type \in {"UPDATE", "DESCRIBE"} => s.job \in {NoJob, "+", m.job}
  /\ \/ s.reply = m.reply
     \/ s.reply = "WILDCARD" /\ m.reply \in {"ACCEPTED", "REJECTED"}
     \/ s.type = "WILDCARD" /\ s.job = NoJob

\* A message is given to exactly the handlers that were subscribed for it, though
\* the topics of several types differ in a level or in their length only.
Selective ==
  answer # NoMessage => CalledFor(answer) = {s \in subs : Meant(s, answer)}

\* Once sys_aws_jobs_init is done, each answer the firmware waits for and each
\* next job calls one of its handlers, once.
FirmwareHears ==
  /\ step = InitDone /\ answer # NoMessage
  /\ \/ answer.type \in {"UPDATE", "NOTIFY_NEXT"}
     \/ answer.type = "DESCRIBE" /\ answer.job = "$next"
  => Cardinality({s \in CalledFor(answer) : s.firmware}) = 1

\* A message calls its handlers, those of the firmware among them.
RightHandlers == Selective /\ FirmwareHears
=============================================================================
