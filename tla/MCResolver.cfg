SPECIFICATION ResolverSpec
CONSTANTS
  Ids = {"p1", "p2"}
  Words <- MCWords
  LegalForms <- MCLegalForms
  Names <- MCNames
  Configs <- MCConfigs
  Threshold = 82
  TTL = 2
  NoId = NoId
INVARIANTS
  SearchIsLast
