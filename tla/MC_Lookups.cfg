\* Every lookup on every config of the pools, for every identifier.
CONSTANTS
  Orgs <- MCOrgs
  RepoNames <- MCRepoNames
  URLPrefixes <- MCURLPrefixes
  Dirs <- MCDirs
  Preconfigured <- MCPreconfigured
  Configs <- MCConfigs
  Nil = Nil
SPECIFICATION Spec
INVARIANT TypeOK
INVARIANT LookupsFollowPrecedence
