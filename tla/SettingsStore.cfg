CONSTANTS
  a = a
  b = b
  c = c
  Image = {a, b, c}
  Version <- MCVersion
SPECIFICATION Spec
INVARIANTS
  VersionVouches
  StoredStays
  TurnedDownIsGone
PROPERTY RamIsFlash
