\* Presubmit pipeline, job-base checks and decoration defaults: duplicate
\* detection, triggers, regex compilation, agents, labels, pod specs, rerun
\* auth and the three levels of default decoration configs, with the map
\* loops over two repositories in every order.
CONSTANTS
  Unset = Unset
  Nil = Nil
  Pending = Pending
  Error = Error
  BadPattern = BadPattern
  Names <- MCNames
  ValidNames <- MCValidNames
  Repos <- MCRepos
  Orgs <- MCOrgs
  RepoOrg <- MCRepoOrg
  Branches <- MCBranches
  Patterns <- MCPatterns
  PatternBranches <- MCPatternBranches
  DCFields <- MCDCFields
  DCValues <- MCDCValues
  LabelPairs <- MCLabelPairs
  EnvVars <- MCEnvVars
  Volumes <- MCVolumes
  Inputs <- PipelineInputs
  MaxLoads = 2
SPECIFICATION Spec
\* Load returns once per call and the caller stops calling it.
CHECK_DEADLOCK FALSE
PROPERTY LoadStepsRefineSpec
