SPECIFICATION CarouselSpec
CONSTANTS
  Symbols = {"ES", "NQ", "YM"}
  Definitions <- MCDefinitions
  Packets = 3
  Cut <- MCCut
  Lags = {0, 1}
  MaxLosses = 3
  MaxFailures = 1
PROPERTIES DownloadCompletes
CHECK_DEADLOCK FALSE
