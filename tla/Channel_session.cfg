SPECIFICATION ChannelSpec
CONSTANTS
  Securities = {es}
  Kinds = {"Book"}
  MaxUpdates = 2
  Indeterminate = {0, 7}
  EndOfEvent = EndOfEvent
  MaxPackets = 2
  SeqNumSpan = 100
PROPERTIES StartOfSessionSyncs
CHECK_DEADLOCK FALSE
