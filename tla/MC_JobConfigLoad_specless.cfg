CONSTANTS
  Unset = Unset
  Nil = Nil
  Pending = Pending
  Error = Error
  BadPattern = BadPattern
  Names <- MCNames
  ValidNames <- MCValidNames
  Repos <- MCRepos
  Orgs <- MCOrgs
  RepoOrg <- MCRepoOrg
  Branches <- MCBranches
  Patterns <- MCPatterns
  PatternBranches <- MCPatternBranches
  DCFields <- MCDCFields
  DCValues <- MCDCValues
  LabelPairs <- MCLabelPairs
  EnvVars <- MCEnvVars
  Volumes <- MCVolumes
  Inputs <- JobBaseInputs
  MaxLoads = 1
SPECIFICATION Spec
INVARIANT SpecLessJobsValidated
\* Load returns once per call and the caller stops calling it.
CHECK_DEADLOCK FALSE
