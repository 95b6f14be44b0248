SPECIFICATION FairChannelSpec
CONSTANTS
  Securities = {es, nq}
  Kinds = {"Book", "Reset"}
  MaxUpdates = 2
  Indeterminate = {0}
  EndOfEvent = EndOfEvent
  MaxPackets = 4
  SeqNumSpan = 3
PROPERTIES RecoveryCompletes SnapshotFeedReleased
CHECK_DEADLOCK FALSE
