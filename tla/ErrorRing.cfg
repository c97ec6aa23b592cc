CONSTANTS
  Size = 3
  e1 = e1
  comm = comm
  Code = {e1, comm}
  None = None
  Comm = comm
SPECIFICATION RSpec
INVARIANTS
  CountCoversAnswers
  RecursionBounded
PROPERTY ReadsInOrder
