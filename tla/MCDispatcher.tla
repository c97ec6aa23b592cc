---------------------------- MODULE MCDispatcher ----------------------------
(* Two tasks and a queue of one: one request running and one queued fill it.  *)
EXTENDS Dispatcher

CONSTANTS t1, t2

MCTask == {t1, t2}
=============================================================================
