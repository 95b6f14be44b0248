SPECIFICATION Spec
CONSTANTS
  Prices = {1, 2, 3, 4}
  Quantities = {1, 2}
  Depth = 2
  EntryTypes = {"Bid", "ImpliedOffer"}
  MaxPrice = 4
  MaxQuantity = 2
  MaxEntries = 3
CONSTRAINT OneImpliedOffer
INVARIANTS TypeOK AlwaysSorted MirrorsTheBook
PROPERTIES EveryEntryTakes
CHECK_DEADLOCK FALSE
