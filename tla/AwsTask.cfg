CONSTANTS
  Cap = 3
  MaxNoti = 2
SPECIFICATION LiveSpec
INVARIANTS
  PublishedInOrder
PROPERTIES
  NotiServed
  AddressReconnects
