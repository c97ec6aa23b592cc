CONSTANTS
  Topic = {t1, t2}
  None = None
  Stale = Stale
  NumHandlers = 2
  CallbackOps = {"publish", "unsubscribe", "disconnect"}
  AutoReconnect = {TRUE, FALSE}
  MinWait = 1
  MaxWait = 2
  MaxContexts = 2
  MaxPackets = 2
  MaxNesting = 1
SPECIFICATION Spec
SYMMETRY Symmetry
INVARIANTS
  TypeOK
  NoCallStuck
  OneContext
  AcceptedHasHandler
  HandlersAreServed
