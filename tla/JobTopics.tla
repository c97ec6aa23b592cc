------------------------------ MODULE JobTopics ------------------------------
(***************************************************************************)
(* The topics of the AWS IoT jobs of one thing, aws_iot_jobs_topics.c, and *)
(* the comparison of a topic with the filter of a subscription,            *)
(* _aws_iot_mqtt_internal_is_topic_matched.  A topic is the sequence of    *)
(* its levels and of the separators between them.                          *)
(***************************************************************************)
EXTENDS Naturals, Sequences

CONSTANTS
  Jobs,   \* ids of jobs
  NoJob   \* a job id of NULL

JobId == Jobs \cup {"$next", "+"}

ASSUME JobAssumption == NoJob \notin JobId /\ "/" \notin JobId /\ "#" \notin JobId

-----------------------------------------------------------------------------
\* _get_operation_for_base_topic
Operation ==
  [UPDATE |-> "update", NOTIFY |-> "notify", NOTIFY_NEXT |-> "notify-next",
   GET_PENDING |-> "get", DESCRIBE |-> "get", START_NEXT |-> "start-next", WILDCARD |-> "+"]

\* AwsIotJobExecutionTopicType and AwsIotJobExecutionTopicReplyType
TopicType == DOMAIN Operation
ReplyType == {"REQUEST", "ACCEPTED", "REJECTED", "WILDCARD"}

\* Mutation: a description is asked for on the topic of the pending jobs.
RequiresJobId_UpdateOnly(type) == type = "UPDATE"

\* _base_topic_requires_job_id
RequiresJobId(type) == type \in {"UPDATE", "DESCRIBE"}

\* _get_suffix_for_topic_type
Suffix ==
  [REQUEST |-> <<>>, ACCEPTED |-> <<"/", "accepted">>,
   REJECTED |-> <<"/", "rejected">>, WILDCARD |-> <<"/", "+">>]

Base    == <<"$aws", "/", "things", "/", "thing", "/", "jobs", "/">>
Refused == <<>>

\* aws_iot_jobs_get_api_topic; Refused stands for -1.
ApiTopic(type, reply, job) ==
  IF \/ type \in {"NOTIFY", "NOTIFY_NEXT"} /\ reply # "REQUEST"
     \/ RequiresJobId(type) /\ job = NoJob
  THEN Refused
  ELSE IF RequiresJobId(type) \/ (type = "WILDCARD" /\ job # NoJob)
       THEN Base \o <<job, "/", Operation[type]>> \o Suffix[reply]
       ELSE IF type = "WILDCARD" THEN Base \o <<"#">>
       ELSE Base \o <<Operation[type]>> \o Suffix[reply]

-----------------------------------------------------------------------------
\* The loop over filter and name takes a level of each at a time: "+" is any
\* level, "#" all that is left of the name, and then the filter must end as well.
Matched(filter, name) ==
  LET F == Len(filter)
      N == Len(name)
  IN  /\ F = N \/ (F \in 1..N /\ filter[F] = "#")
      /\ \A k \in 1..F : /\ name[k] = "/" => filter[k] = "/"
                         /\ filter[k] \in {"+", "#", name[k]}
                         /\ filter[k] = "#" => k = F

\* _aws_iot_mqtt_internal_deliver_message compares the whole name first.
Takes(filter, name) == filter = name \/ Matched(filter, name)
=============================================================================
