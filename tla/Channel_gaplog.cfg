SPECIFICATION ChannelSpec
CONSTANTS
  Securities = {es}
  Kinds = {"Book"}
  MaxUpdates = 2
  Indeterminate = {0}
  EndOfEvent = EndOfEvent
  MaxPackets = 3
  SeqNumSpan = 100
INVARIANTS GapIsLogged
CHECK_DEADLOCK FALSE
