--------------------------- MODULE ShadowRequests ---------------------------
(***************************************************************************)
(* What a caller of aws_iot_shadow_get and aws_iot_shadow_update relies    *)
(* on: a request that was taken is ended once, by the answer to a request  *)
(* of its own kind or by running out of time, and nothing else calls back. *)
(***************************************************************************)
EXTENDS Naturals

CONSTANT Command

VARIABLES
  pending,   \* requests taken and not ended, [token, cmd]
  taken,     \* the least token that no request has been taken with
  calls,     \* how many callbacks there have been since the start
  last       \* the last callback: whose it was, and what caused it

vars == <<pending, taken, calls, last>>

NoCall == [cmd |-> "none", cause |-> "none"]

Init == pending = {} /\ taken = 0 /\ calls = 0 /\ last = NoCall

\* A token is never used twice.
Take(r) ==
  /\ r.cmd \in Command /\ r.token \in Nat /\ r.token >= taken
  /\ pending' = pending \cup {r} /\ taken' = r.token + 1
  /\ UNCHANGED <<calls, last>>

End(r) ==
  /\ pending' = pending \ {r} /\ calls' = calls + 1
  /\ last' \in [cmd : {r.cmd}, cause : {r.cmd, "timeout"}]
  /\ UNCHANGED taken

Restart == pending' = {} /\ taken' = 0 /\ calls' = 0 /\ last' = NoCall

Next ==
  \/ \E r \in pending' \ pending : Take(r)
  \/ \E r \in pending : End(r)
  \/ Restart

Spec == Init /\ [][Next]_vars
=============================================================================
