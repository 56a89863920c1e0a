SPECIFICATION SettingsSpec
CONSTANTS
  Documents <- MCDocuments
  Stem = "acme"
  Environments <- MCEnvironments
  Foreign <- MCForeign
  Profiles <- MCProfiles
  Flags <- MCFlags
  Defaults <- MCDefaults
  SecretPaths <- MCSecretPaths
  None = None
INVARIANTS
  VariableIsHeard
  
  DomIsAuthorised
