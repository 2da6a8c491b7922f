CONSTANTS
  Sizes = {6, 14}
  Parts = {1, 2, 3, 6}
  MaxError = 3
  RangeStyles = {"count", "inclusive"}
  IntLimit = 6
  MaxFaults = 3
SPECIFICATION Spec
INVARIANTS TypeOK SessionHoldsWhatWasSent FinishedByItsLastPart
PROPERTY BlobArrives
