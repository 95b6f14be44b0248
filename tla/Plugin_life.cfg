SPECIFICATION FairPluginSpec
CONSTANTS
  Instrument = {ia, ib}
  Incremental = {na, nb}
  Snapshot = {sa, sb}
  MaxRejoins = 2
INVARIANTS PluginTypeOK OnePacketAfterShutdown
PROPERTIES EndsToldDeafOrThrown ShutdownReleasesFeeds
CHECK_DEADLOCK FALSE
