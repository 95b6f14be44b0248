SPECIFICATION ControllerSpec
CONSTANTS
  Securities = {es, nq}
  Kinds = {"Book", "Reset", "Other"}
  MaxUpdates = 5
  Indeterminate = {0, 7}
SYMMETRY Symmetry
INVARIANTS TypeOK BookIsPublished QuoteIsPublished FeedServesRecovery QuoteCurrent
PROPERTIES QuoteForward ImplementsReplica
CHECK_DEADLOCK FALSE
