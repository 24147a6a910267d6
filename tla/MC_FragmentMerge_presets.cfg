CONSTANTS
  ParseError = ParseError
  Pending = Pending
  Error = Error
  Repos <- MCRepos
  Names <- MCNames
  Pairs <- MCPairs
  Paths <- MCPaths
  Basenames <- MCBasenames
  YamlExts <- MCYamlExts
  PrimaryPath = "prow.yaml"
  JobFilePath = "job.yaml"
  Inputs <- MCInputs
SPECIFICATION Spec
INVARIANT PresetPairsUnique
\* Reading returns once and the caller does not read again.
CHECK_DEADLOCK FALSE
