SPECIFICATION ChannelSpec
CONSTANTS
  Securities = {es, nq}
  Kinds = {"Book"}
  MaxUpdates = 3
  Indeterminate = {7}
  EndOfEvent = EndOfEvent
  MaxPackets = 4
  SeqNumSpan = 100
SYMMETRY Symmetry
INVARIANTS ChannelTypeOK EventAtomicity SyncIsCaughtUp
PROPERTIES OnlySnapshotRecovers
CHECK_DEADLOCK FALSE
