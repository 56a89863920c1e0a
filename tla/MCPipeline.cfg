\* Four runs, one of which may die, over the publisher the composition root wires.
SPECIFICATION Spec
CONSTANTS
  a1 = a1
  a2 = a2
  h1 = h1
  h2 = h2
  c1 = c1
  c2 = c2
  Authors <- MCAuthors
  Heads <- MCOneHead
  Rests <- MCRests
  Ids <- MCIds
  Contents <- MCContents
  RatingOf <- MCRating
  Publishers <- MCFilesystem
  Forces <- MCUnforced
  Thresholds <- MCThresholds
  ConfiguredConfirmations = 2
  Cap = 5
  Lags <- MCLags
  ExhaustedPercent = 50
  Reads <- MCReads
  MaxQuarantined = 0
  MaxCrashes = 1
  MaxErasures = 0
  MaxRevision = 2
  MaxTime = 4
SYMMETRY Symmetry
INVARIANTS
  RemovedStaysDown
PROPERTIES
  StateNeverAhead
  SameReviewsSameFiles
  TombstoneMeansGone
\* The source may stand still once MaxTime runs are over.
CHECK_DEADLOCK FALSE
