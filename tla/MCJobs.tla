------------------------------- MODULE MCJobs -------------------------------
(* A small instance of JobsApi: two jobs, one with an id too long for a topic, *)
(* requests with some or all of their fields, and buffers around their sizes.  *)
EXTENDS JobsApi

Ask(type, job, null, fields) == [type |-> type, job |-> job, null |-> null, fields |-> fields]

None == <<>>

\* {"status":"FAILED"} has 19 characters, the longest of these documents 190.
MCRequests ==
  {Ask("UPDATE", j, FALSE, [status |-> s]) :
     j \in {"j1", "long"}, s \in Status \cup {"NOT_SET"}}
  \cup {Ask("UPDATE", "j1", FALSE,
          [status |-> "FAILED", statusDetails |-> 12, executionNumber |-> 1,
           expectedVersion |-> 2, includeJobExecutionState |-> TRUE,
           includeJobDocument |-> TRUE, clientToken |-> 8]),
        Ask("UPDATE", "j1", FALSE, [status |-> "CANCELED", expectedVersion |-> 1]),
        Ask("UPDATE", "j1", TRUE, [status |-> "QUEUED"]),
        Ask("UPDATE", NoJob, FALSE, [status |-> "QUEUED"])}
  \cup {Ask("DESCRIBE", j, FALSE, f) :
          j \in {"j1", "$next"},
          f \in {[clientToken |-> 8], [executionNumber |-> 1, includeJobDocument |-> TRUE],
                 [clientToken |-> 8, includeJobDocument |-> TRUE], None}}
  \cup {Ask("DESCRIBE", "j1", TRUE, None)}
  \cup {Ask("START_NEXT", NoJob, FALSE, f) :
          f \in {None, [statusDetails |-> 12], [clientToken |-> 8],
                 [statusDetails |-> 12, clientToken |-> 8]}}
  \cup {Ask("GET_PENDING", NoJob, n, f) : n \in BOOLEAN, f \in {None, [clientToken |-> 8]}}

\* One below, at and above the length of {"status":"FAILED"}, and the buffer of
\* the firmware
MCSizes == {0, 1, 18, 19, 20, 45, 200}

Other(type, reply, job) == [type |-> type, reply |-> reply, job |-> job]

MCOthers ==
  {Other("WILDCARD", "WILDCARD", NoJob), Other("WILDCARD", "WILDCARD", "+"),
   Other("GET_PENDING", "WILDCARD", NoJob), Other("START_NEXT", "ACCEPTED", NoJob),
   Other("DESCRIBE", "ACCEPTED", "+"), Other("UPDATE", "WILDCARD", "j1"),
   Other("NOTIFY", "REQUEST", NoJob), Other("DESCRIBE", "REJECTED", "long")}
=============================================================================
