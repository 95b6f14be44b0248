SPECIFICATION SymbolSpec
CONSTANTS
  Symbols = {"ES", "NQ", "YM", "ZZ"}
  Definitions <- MCDefinitions
  Packets = 5
  Cut <- MCCut
INVARIANTS SymbolTypeOK DirectoryComplete RequestsResolved
CHECK_DEADLOCK FALSE
