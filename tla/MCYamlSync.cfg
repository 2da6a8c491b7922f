CONSTANTS
  File = {"plain", "listed", "filtered", "bare"}
  Domains <- MCDomains
  Repo <- MCRepo
  Tag = {"1.0", "latest"}
  Filter = {"newest", "versions"}
  Most = 2
  Images <- MCImages
  Tags <- MCTags
  Options <- MCOptions
  Passes <- MCPasses
  Library <- MCLibrary
  Known <- MCKnown
  MaxFaults = 2
SPECIFICATION Spec
CHECK_DEADLOCK FALSE
INVARIANTS TypeOK AsksOnlyWhatTheFileNames AsksAllTheFileNames
PROPERTIES ImplementsExecutor SyncEnds
