SPECIFICATION Spec
CONSTANTS
  Receivers = {a, b}
  None = None
  Sizes = {14, 20}
  ShortLengths = {3, 12}
  MaxLength = 52
  MaxMessages = 2
  MaxDatagrams = 3
INVARIANTS PacketTypeOK CursorOnMessage HandedWhole ShortsMoveNothing
CHECK_DEADLOCK FALSE
