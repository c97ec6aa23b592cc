CONSTANTS
  RxSize = 140
  TxSize = 130
  Incoming <- MCIncoming
  Outgoing <- MCOutgoing
  MaxSplit = 1
  MaxWritten = 2
SPECIFICATION WSpec
INVARIANTS
  BuffersHold
  ReadWhole
