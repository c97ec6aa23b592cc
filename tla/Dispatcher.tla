----------------------------- MODULE Dispatcher -----------------------------
(***************************************************************************)
(* The dispatcher of lib_adf: tasks hand functions to one task that runs   *)
(* them with a stack of its own, in the order of a queue, and gives the    *)
(* result back through another queue or a callback (esp_dispatcher.c).     *)
(* The SSID manager runs its flash operations there (nvs_action.c).        *)
(***************************************************************************)
EXTENDS Naturals, Sequences, FiniteSets

CONSTANTS
  Task,      \* the tasks that call
  NoTask,    \* nobody
  Index,     \* the functions that may be registered under an index
  Size,      \* ESP_DISPATCHER_EVENT_SIZE
  MaxCalls   \* bound: calls made

ASSUME DispatcherAssumption ==
  /\ NoTask \notin Task
  /\ Index \subseteq {"set", "get", "erase"}
  /\ Size \in Nat \ {0} /\ MaxCalls \in Nat

VARIABLES
  exe_que,      \* requests
  result_que,   \* results, at most one
  mutex,        \* its holder
  exe_list,     \* the functions registered under an index
  stage, call,  \* per task: where it is in a call, and which
  running,      \* the request the dispatcher task has taken
  result,       \* its result
  step,         \* where that task is
  alive,        \* the dispatcher has not been freed
  nvs,          \* the value under the one key
  calls,        \* number of calls made
  last          \* history: the last answer, and the call that got it

queues  == <<exe_que, result_que>>
callers == <<mutex, stage, call>>
worker  == <<running, result, step>>
dvars   == <<queues, callers, exe_list, worker, alive, nvs, calls, last>>

-----------------------------------------------------------------------------
\* nvs_action_set, nvs_action_get, nvs_action_erase_key and one that nobody
\* has registered; a write stores the number of its call.
Func == {"set", "get", "erase"}

\* esp_dispatcher_execute, esp_dispatcher_execute_async and the two that take
\* a function; the asynchronous ones have a callback.
Api     == [indexed : BOOLEAN, waits : BOOLEAN]
Request == [type : {"exe"}, id : Nat, task : Task, fn : Func, api : Api]
Cmd     == [type |-> "cmd", id |-> 0]
NoCall  == [type |-> "none", id |-> 0]
Result  == [id : Nat, err : {"ok", "not_found", "error"}, data : Nat]
NoValue == 0
TaskEnd == [id |-> 0, err |-> "ok", data |-> NoValue]

DTypeOK ==
  /\ exe_que \in Seq(Request \cup {Cmd}) /\ Len(exe_que) <= Size
  /\ result_que \in Seq(Result) /\ Len(result_que) <= 1
  /\ mutex \in Task \cup {NoTask}
  /\ exe_list \subseteq Index
  /\ stage \in [Task -> {"idle", "lock", "send", "wait", "relock", "end", "ended"}]
  /\ call \in [Task -> Request \cup {NoCall}]
  /\ running \in Request \cup {NoCall, Cmd} /\ result \in Result
  /\ step \in {"receive", "reply", "gone"}
  /\ nvs \in Nat
  /\ alive \in BOOLEAN
  /\ calls \in 0..MaxCalls

\* esp_dispatcher_create, by way of esp_dispatcher_get_delegate_handle
DInit ==
  /\ exe_que = <<>> /\ result_que = <<>> /\ mutex = NoTask /\ exe_list = {}
  /\ stage = [t \in Task |-> "idle"] /\ call = [t \in Task |-> NoCall]
  /\ running = NoCall /\ result = TaskEnd /\ step = "receive" /\ alive = TRUE
  /\ nvs = NoValue /\ calls = 0 /\ last = TaskEnd

-----------------------------------------------------------------------------
(* The callers.                                                            *)

Ending == \E t \in Task : stage[t] \in {"end", "ended"}

\* esp_dispatcher_reg_exe_func; an index is registered once.
RegExeFunc(fn) ==
  /\ alive /\ fn \notin exe_list
  /\ exe_list' = exe_list \cup {fn}
  /\ UNCHANGED <<queues, callers, worker, alive, nvs, calls, last>>

Call(t) ==
  /\ alive /\ ~Ending /\ stage[t] = "idle" /\ calls < MaxCalls
  /\ calls' = calls + 1 /\ stage' = [stage EXCEPT ![t] = "lock"]
  /\ \E fn \in Func, api \in Api :
       call' = [call EXCEPT ![t] = [type |-> "exe", id |-> calls + 1, task |-> t,
                                    fn |-> fn, api |-> api]]
  /\ UNCHANGED <<queues, mutex, exe_list, worker, alive, nvs, last>>

\* mutex_lock waits for as long as it takes.
Lock(t) ==
  /\ stage[t] = "lock" /\ mutex = NoTask
  /\ mutex' = t /\ stage' = [stage EXCEPT ![t] = "send"]
  /\ UNCHANGED <<queues, call, exe_list, worker, alive, nvs, calls, last>>

Room(q) == Len(q) < Size

Return(t) == stage' = [stage EXCEPT ![t] = "idle"] /\ call' = [call EXCEPT ![t] = NoCall]

Unlock == mutex' = NoTask

\* Mutation: the mutex is given back before the result is there.
Sent_Unlocks(t) == Unlock /\ stage' = [stage EXCEPT ![t] = "wait"] /\ UNCHANGED call

\* A synchronous call keeps the mutex until its result is there.
Sent(t) == stage' = [stage EXCEPT ![t] = "wait"] /\ UNCHANGED <<mutex, call>>

Send(t) ==
  /\ stage[t] = "send" /\ Room(exe_que)
  /\ exe_que' = Append(exe_que, call[t])
  /\ IF call[t].api.waits THEN Sent(t) ELSE Unlock /\ Return(t)
  /\ UNCHANGED <<result_que, exe_list, worker, alive, nvs, calls, last>>

Refused(c) == last' = [id |-> c.id, err |-> "refused", data |-> NoValue]

\* Mutation: the mutex is kept.
GiveUp_Keeps(t) == Return(t) /\ UNCHANGED mutex

GiveUp(t) == Return(t) /\ Unlock

\* The queue stays full for five seconds.  esp_dispatcher_execute_with_func
\* locks the mutex it holds instead of unlocking it, and waits for ever.
SendTimesOut(t) ==
  /\ stage[t] = "send" /\ ~Room(exe_que)
  /\ \/ /\ call[t].api.waits /\ ~call[t].api.indexed
        /\ stage' = [stage EXCEPT ![t] = "relock"]
        /\ UNCHANGED <<mutex, call, last>>
     \/ /\ ~call[t].api.waits \/ call[t].api.indexed
        /\ GiveUp(t) /\ Refused(call[t])
  /\ UNCHANGED <<queues, exe_list, worker, alive, nvs, calls>>

Receive(t) ==
  /\ stage[t] = "wait" /\ result_que # <<>>
  /\ result_que' = Tail(result_que)
  /\ last' = [Head(result_que) EXCEPT !.id = call[t].id]
  /\ Unlock /\ Return(t)
  /\ UNCHANGED <<exe_que, exe_list, worker, alive, nvs, calls>>

-----------------------------------------------------------------------------
(* The functions, and the dispatcher task.                                 *)

Answer(c, err, data) == result' = [id |-> c.id, err |-> err, data |-> data]

Stored == IF nvs = NoValue THEN "not_found" ELSE "ok"

\* nvs_action_set, nvs_action_get and nvs_action_erase_key
NvsSet(c)   == c.fn = "set" /\ nvs' = c.id /\ Answer(c, "ok", NoValue)
NvsGet(c)   == c.fn = "get" /\ UNCHANGED nvs /\ Answer(c, Stored, nvs)
NvsErase(c) == c.fn = "erase" /\ nvs' = NoValue /\ Answer(c, Stored, NoValue)

\* Flash cannot be read or written, or the function is not found.
Fails(c) == UNCHANGED nvs /\ Answer(c, "error", NoValue)

\* found_exe_func
Found(c) == c.api.indexed => c.fn \in exe_list

\* dispatcher_event_task, up to the result
Run ==
  /\ step = "receive" /\ exe_que # <<>>
  /\ exe_que' = Tail(exe_que)
  /\ LET c == Head(exe_que)
     IN  /\ running' = c
         /\ \/ /\ c.type = "cmd"
               /\ step' = "gone" /\ result' = TaskEnd
               /\ result_que' = Append(result_que, TaskEnd)
               /\ UNCHANGED nvs
            \/ /\ c.type = "exe"
               /\ step' = "reply"
               /\ Fails(c) \/ (Found(c) /\ (NvsSet(c) \/ NvsGet(c) \/ NvsErase(c)))
               /\ UNCHANGED result_que
  /\ UNCHANGED <<callers, exe_list, alive, calls, last>>

\* The result goes to the callback, or to the queue if that has room.
Reply ==
  /\ step = "reply"
  /\ \/ ~running.api.waits /\ last' = result /\ UNCHANGED result_que
     \/ /\ running.api.waits
        /\ result_que' = IF result_que = <<>> THEN <<result>> ELSE result_que
        /\ UNCHANGED last
  /\ step' = "receive" /\ running' = NoCall /\ result' = TaskEnd
  /\ UNCHANGED <<exe_que, callers, exe_list, alive, nvs, calls>>

-----------------------------------------------------------------------------
(* The end.  The owner of the dispatcher destroys it when nobody else is   *)
(* in a call, though asynchronous requests may be waiting.                 *)

Destroy(t) ==
  /\ alive /\ \A u \in Task : stage[u] = "idle"
  /\ stage' = [stage EXCEPT ![t] = "end"]
  /\ UNCHANGED <<queues, mutex, call, exe_list, worker, alive, nvs, calls, last>>

EndSend(t) ==
  /\ stage[t] = "end" /\ Room(exe_que)
  /\ exe_que' = Append(exe_que, Cmd)
  /\ stage' = [stage EXCEPT ![t] = "ended"]
  /\ UNCHANGED <<result_que, mutex, call, exe_list, worker, alive, nvs, calls, last>>

\* Mutation: the end of the task is not waited for.
TaskEnded_Assumed == UNCHANGED result_que

TaskEnded == result_que # <<>> /\ result_que' = Tail(result_que)

\* Then the list and the queues go.  The loop that frees the items reads the link
\* of an item it has just freed; what it finds there is left out.
EndReceive(t) ==
  /\ stage[t] = "ended" /\ TaskEnded
  /\ alive' = FALSE /\ Return(t)
  /\ UNCHANGED <<exe_que, mutex, exe_list, worker, nvs, calls, last>>

-----------------------------------------------------------------------------
Worker == Run \/ Reply

Step(t) ==
  \/ Send(t) \/ SendTimesOut(t) \/ Receive(t) \/ EndSend(t) \/ EndReceive(t)

DNext ==
  \/ \E t \in Task : Call(t) \/ Lock(t) \/ Step(t) \/ Destroy(t)
  \/ \E fn \in Index : RegExeFunc(fn)
  \/ Worker

\* FreeRTOS gives the mutex to the task that has waited for it the longest.
Fairness ==
  /\ WF_dvars(Worker)
  /\ \A t \in Task : WF_dvars(Step(t)) /\ SF_dvars(Lock(t))

DSpec == DInit /\ [][DNext]_dvars

LiveSpec == DSpec /\ Fairness

-----------------------------------------------------------------------------
(* Properties.                                                             *)

\* Calls of several tasks, queued, refused, answered by callback or through the
\* one result queue, are calls of a store that serves one at a time.
Pending == {call[t] : t \in {u \in Task : stage[u] \in {"lock", "send", "relock"}}}
Queued  == {exe_que[i] : i \in DOMAIN exe_que} \ {Cmd}
Results == {result_que[i] : i \in DOMAIN result_que}
           \cup (IF step = "reply" THEN {result} ELSE {})

Calls == INSTANCE NvsCalls WITH
  asked <- {[id |-> c.id, task |-> c.task, fn |-> c.fn] : c \in Pending \cup Queued},
  done  <- Results \ {TaskEnd},
  store <- nvs

ServesCalls == Calls!Spec

\* Every call returns, unless a call that gave a function to a queue that stayed
\* full has locked its own mutex again (esp_dispatcher.c:259).
Jammed == \E t \in Task : stage[t] = "relock"

EveryCallReturns == \A t \in Task : stage[t] # "idle" ~> stage[t] = "idle" \/ Jammed

\* A dispatcher is freed when its task is gone and every request it had was
\* answered.
EndsEmpty == ~alive => /\ step = "gone" /\ exe_que = <<>> /\ result_que = <<>>
                       /\ mutex = NoTask

\* The queues hold what they have room for, to the end of the dispatcher.
QueuesHold == DTypeOK /\ EndsEmpty
=============================================================================
