SPECIFICATION Spec
CONSTANTS
  t1 = t1
  t2 = t2
  None = None
  Targets = {t1, t2}
  Rows <- MCRows
  RequestsOf <- MCRequestsOf
  PagesOf <- MCPagesOf
  Shows <- MCShows
  Files <- MCFiles
  Bodies <- MCBodies
  MaxReviews = 21
  PaginationBudget = 9
  BaseSettle = 2
  MaxPages = 3
  FaultCap = 1
INVARIANTS
  BrowserIsShared
  ChallengeIsNamed
  FullHidesNothing
  CrawlIsBounded
