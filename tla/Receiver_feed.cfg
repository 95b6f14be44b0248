SPECIFICATION ReceiverSpec
CONSTANTS
  Receivers = {a, b}
  MaxDatagrams = 3
INVARIANTS ReceiverTypeOK ActiveReceives OneChain HandedInOrder
PROPERTIES InboxIsEmptied
CHECK_DEADLOCK FALSE
