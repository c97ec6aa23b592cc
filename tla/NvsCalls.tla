------------------------------ MODULE NvsCalls ------------------------------
(***************************************************************************)
(* What the callers of the dispatcher rely on: a call takes effect on the  *)
(* store once, while it is under way, the calls of one task in the order   *)
(* they were made, and each gets the answer to itself; or it is refused,   *)
(* and has no effect.                                                      *)
(***************************************************************************)
EXTENDS Naturals

CONSTANT Task   \* the tasks that call

VARIABLES
  asked,     \* calls made and not carried out, [id, task, fn]
  done,      \* calls carried out and not answered, with their answers
  store,     \* the stored value
  last       \* the last answer given, and to which call

vars == <<asked, done, store, last>>

\* Nothing is stored, or read.
NoValue == 0

Init == asked = {} /\ done = {} /\ store = NoValue /\ last = [id |-> 0, err |-> "ok", data |-> NoValue]

Call(c) ==
  /\ asked' = asked \cup {c}
  /\ UNCHANGED <<done, store, last>>

\* A write stores the number of its call.
Effect(c, d) ==
  \/ c.fn = "set" /\ store' = c.id /\ d.err = "ok"
  \/ c.fn = "get" /\ UNCHANGED store /\ d.data = store
     /\ d.err = (IF store = NoValue THEN "not_found" ELSE "ok")
  \/ c.fn = "erase" /\ store' = NoValue /\ d.err = (IF store = NoValue THEN "not_found" ELSE "ok")
  \/ UNCHANGED store /\ d.err = "error"

CarryOut(c, d) ==
  /\ d.id = c.id
  /\ \A b \in asked : b.task = c.task => c.id <= b.id
  /\ asked' = asked \ {c} /\ done' = done \cup {d}
  /\ Effect(c, d)
  /\ UNCHANGED last

Answer(d) ==
  /\ done' = done \ {d} /\ last' = d
  /\ UNCHANGED <<asked, store>>

Refuse(c) ==
  /\ asked' = asked \ {c} /\ last' = [id |-> c.id, err |-> "refused", data |-> NoValue]
  /\ UNCHANGED <<done, store>>

Next ==
  \/ \E c \in asked' \ asked : Call(c)
  \/ \E c \in asked : Refuse(c) \/ \E d \in done' : CarryOut(c, d)
  \/ \E d \in done : Answer(d)

Spec == Init /\ [][Next]_vars
=============================================================================
