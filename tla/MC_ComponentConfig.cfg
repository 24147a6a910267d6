\* Every check of parseProwConfig and validateComponentConfig, one group of
\* settings varied at a time, parsed twice.
CONSTANTS
  Regexes <- MCRegexes
  GoodRegexes <- MCGoodRegexes
  ViewerNames <- MCViewerNames
  NameRank <- MCNameRank
  OldViewers <- MCOldViewers
  Inputs <- MCInputs
  MaxLoads = 2
  Nil = Nil
SPECIFICATION Spec
\* The process stops parsing after MaxLoads reads.
CHECK_DEADLOCK FALSE
INVARIANT TypeOK
INVARIANT OutcomeMatchesRules
