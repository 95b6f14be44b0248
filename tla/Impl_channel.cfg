SPECIFICATION FairImplSpec
CONSTANTS
  Symbols = {"ES", "ZZ"}
  Definitions <- MCDefinitions
  Packets = 3
  Cut <- MCCut
  Lags = {1}
  MaxLosses = 0
  MaxFailures = 1
  MaxRequests = 2
  Securities = {0, 1}
  Kinds = {"Book"}
  MaxUpdates = 2
  Indeterminate = {7}
  EndOfEvent = EndOfEvent
  MaxPackets = 2
  SeqNumSpan = 100
INVARIANTS ImplTypeOK ControllersMatchRequests
PROPERTIES RequestIsFollowed SnapshotFeedOutcome
CHECK_DEADLOCK FALSE
