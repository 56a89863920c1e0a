\* A cap of one review on a listing of two.
SPECIFICATION Spec
CONSTANTS
  a1 = a1
  a2 = a2
  h1 = h1
  h2 = h2
  c1 = c1
  c2 = c2
  Authors <- MCAuthors
  Heads <- MCOneHead
  Rests <- MCOneRest
  Ids <- MCIds
  Contents <- MCContents
  RatingOf <- MCRating
  Publishers <- MCFilesystem
  Forces <- MCUnforced
  Thresholds <- MCThresholds
  ConfiguredConfirmations = 2
  Cap = 1
  Lags <- MCTrueTotal
  ExhaustedPercent = 95
  Reads <- MCReads
  MaxQuarantined = 0
  MaxCrashes = 0
  MaxErasures = 0
  MaxRevision = 2
  MaxTime = 3
PROPERTIES
  TombstoneMeansGone
\* The source may stand still once MaxTime runs are over.
CHECK_DEADLOCK FALSE
