\* Two reviews, three instants, removal after two confirmations.
SPECIFICATION Spec
CONSTANTS
  r1 = r1
  r2 = r2
  h1 = h1
  h2 = h2
  Ids <- MCIds
  Contents <- MCContents
  Stops <- MCReasons
  RemovalConfirmations = 2
  MaxTime = 3
  MaxRevision = 2
SYMMETRY Symmetry
INVARIANTS
  LedgerSound
  StreakIsEvidence
  ErasedIsUnpublished
  ReplayIsNoOp
PROPERTIES
  RemovalNeedsConfirmation
  FirstSightPinned
  KeepsLifecycle
