\* The gate, end to end, over a publisher whose payload it can read back.
SPECIFICATION Spec
CONSTANTS
  a1 = a1
  a2 = a2
  h1 = h1
  h2 = h2
  c1 = c1
  c2 = c2
  Authors <- MCAuthors
  Heads <- MCHeads
  Rests <- MCOneRest
  Ids <- MCIds
  Contents <- MCContents
  RatingOf <- MCRating
  Publishers <- MCGit
  Forces <- MCForces
  Thresholds <- Defaults
  ConfiguredConfirmations = 2
  Cap = 5
  Lags <- MCLags
  ExhaustedPercent = 50
  Reads <- MCAnyRead
  MaxQuarantined = 0
  MaxCrashes = 1
  MaxErasures = 1
  MaxRevision = 2
  MaxTime = 2
SYMMETRY Symmetry
INVARIANTS
  RemovedStaysDown
PROPERTIES
  NoCollapseOverGit
\* The source may stand still once MaxTime runs are over.
CHECK_DEADLOCK FALSE
